--------------------------------- MODULE Areas ---------------------------------
(***************************************************************************)
(* The area a directory lies in on a host as it is detected (cli/host.rs,   *)
(* core/table.rs, core/area.rs), and whether a scan names the directory as  *)
(* a candidate.  A host has a platform, a home, a temporary and a cache     *)
(* directory, each of which may be missing, directories of programs, the    *)
(* directory a command was started in and the program itself.               *)
(***************************************************************************)
EXTENDS Gates, Artifacts

P == INSTANCE Places

CONSTANT Sightings    \* [host, place, listing]: a directory on a host, as it is listed

Locations(platform) ==
    [syntax : {P!SyntaxOf(platform)},
     root : IF platform = "windows"
            THEN [kind : {"drive"}, letter : STRING]
                 \cup [kind : {"unc"}, server : Seq(STRING), share : Seq(STRING)]
            ELSE {P!UnixRoot},
     names : Seq(Seq(STRING))]

(* The directory of the homes: one is known on Windows by a home in it.      *)
UsersName(platform) == IF platform = "linux" THEN <<"home">> ELSE <<"Users">>
Users(host) ==
    IF host.platform # "windows"
    THEN P!At("unix", P!UnixRoot, <<UsersName(host.platform)>>)
    ELSE IF host.home = P!Nowhere THEN P!Nowhere ELSE P!Parent(host.home)

(* A home is where homes are, or at the root; the rules do not know of       *)
(* others what lies above them.                                             *)
HomeIsAtHome(host) ==
    LET case == P!CaseOf(host.platform) IN
    \/ host.home = P!Nowhere
    \/ Len(host.home.names) = 1 /\ ~P!SamePlace(Users(host), host.home, case)
    \/ Len(host.home.names) = 2 /\ P!Contains(Users(host), host.home, case)

(* Temporary files and caches have a place in a home or apart from all of    *)
(* them: the rules that say so come before those of the homes.              *)
LiesBesideHomes(host, l) ==
    LET case == P!CaseOf(host.platform) IN
    \/ l = P!Nowhere
    \/ /\ ~P!Contains(l, host.home, case) /\ ~P!Contains(l, Users(host), case)
       /\ P!Contains(Users(host), l, case) => Len(l.names) >= Len(Users(host).names) + 2

TempOf(host) == IF host.temp = P!Nowhere THEN P!Unix(<<"tmp">>) ELSE host.temp

IsHost(host) ==
    LET here == Locations(host.platform) IN
    /\ host.platform \in P!Platforms
    /\ host.cwd \in here /\ host.exe \in here
    /\ {host.home, host.temp, host.cache} \subseteq here \cup {P!Nowhere}
    /\ host.programs \in Seq(here)
    /\ HomeIsAtHome(host)
    /\ host.platform # "windows" =>
          \A l \in {host.cache, TempOf(host)} : LiesBesideHomes(host, l)

ASSUME AreasAssumption ==
    \A s \in Sightings : IsHost(s.host) /\ s.place \in Locations(s.host.platform)

VARIABLE sighting

AreasInit == sighting \in Sightings

(* What is said of one directory changes nothing.                           *)
AreasSpec == AreasInit /\ [][FALSE]_sighting

-------------------------------------------------------------------------------
ProtectionOf(host) == P!Detected(host.platform, host, host.cwd, host.exe)

AdmittedAt(host, place, listing) ==
    Admitted([shape |-> "directory", boundary |-> "same",
              area |-> P!AreaOf(ProtectionOf(host), place),
              found |-> Found(listing), excluded |-> FALSE],
             [ask |-> "discover"])

KeptName(platform) ==
    CASE platform = "macos" -> <<"Library">>
      [] platform = "linux" -> <<".cache">>
      [] platform = "windows" -> <<"AppData">>

(* In somebody's home, where applications keep what is theirs.               *)
KeptInHome(host, place) ==
    LET case == P!CaseOf(host.platform)
        depth == Len(Users(host).names) + 2
    IN /\ P!Contains(Users(host), place, case)
       /\ Len(place.names) >= depth
       /\ P!Folded(place.names[depth], case) = P!Folded(KeptName(host.platform), case)

(* What a scan admits never contains the working directory, this program or  *)
(* a home, nor is it anybody's home; it is admitted or not however the path  *)
(* is spelled; and it says of itself what it is wherever an application      *)
(* keeps its files in a home (area.rs, table.rs, artifact.rs and the gates   *)
(* together).  The rules are written in the syntax of the host, as           *)
(* Protection::new demands of them.                                          *)
AreasHold ==
    LET host == sighting.host
        place == sighting.place
        case == P!CaseOf(host.platform)
        folded == [place EXCEPT !.names = P!FoldedAll(@, case)]
    IN /\ P!WellWritten(ProtectionOf(host))
       /\ AdmittedAt(host, place, sighting.listing) <=> AdmittedAt(host, folded, sighting.listing)
       /\ AdmittedAt(host, place, sighting.listing) =>
            /\ \A l \in {host.cwd, host.exe, host.home} : ~P!Contains(folded, l, case)
            /\ ~(/\ P!Contains(Users(host), folded, case)
                 /\ Len(place.names) = Len(Users(host).names) + 1)
            /\ KeptInHome(host, folded) => Found(sighting.listing) = "declared"
===============================================================================
