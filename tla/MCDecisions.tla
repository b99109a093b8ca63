------------------------------ MODULE MCDecisions ------------------------------
(***************************************************************************)
(* What is decided before anything is touched, on small instances: the     *)
(* claims on a directory, an ask on its way through the gates, a scan, the *)
(* area a path lies in, and the commands that delete.  The five share no   *)
(* state: a behaviour is about one topic, the variables of the others rest. *)
(***************************************************************************)
EXTENDS Inspection, Claims, Survey, Commands, Areas

VARIABLE topic

decisions == <<topic, vars, claims, survey, sighting, commands>>

-------------------------------------------------------------------------------
(* Sites that differ from a plain one in one respect.                       *)
Plain == [shape |-> "directory", boundary |-> "same", area |-> "open",
          found |-> "inferred", excluded |-> FALSE]
Respects == {"shape", "boundary", "area", "found", "excluded"}
NearPlain == {s \in Sites : \E r \in Respects : \A x \in Respects \ {r} : s[x] = Plain[x]}

(* A project with a build, a scratch directory and a repository, and        *)
(* another root, which may be another volume.                               *)
App == <<"work", "app">>
Target == Append(App, "target")
Debug == Append(Target, "debug")
Scratch == <<"work", "tmp">>
Other == <<"other">>
Tree == {<<"work">>, App, Target, Debug, Append(App, ".git"), Scratch, Other}
Marked == [p \in Tree \cup {<<>>} |->
    CASE p = App -> {"cargo.toml"} [] p = Debug -> {"cachedir.tag"}
      [] p = Scratch -> {"owner.json"} [] OTHER -> {}]
ThreeNames == {"f", "g", "h"}
OneVolume == [p \in Tree |-> IF p = Other THEN 2 ELSE 1]
ThreeFiles(dirs) == {d \in [ThreeNames -> dirs] : d["h"] \in {Target, Other}}
Scanned ==
    [links : {{}}, volumeOf : {OneVolume, [OneVolume EXCEPT ![Debug] = 2]}, used : {<<2, 2>>},
     inodeOf : {[f |-> 1, g |-> 1, h |-> 2], [f |-> 1, g |-> 2, h |-> 2]},
     blocksOf : {<<{1}, {2, 3}>>},
     dirOf : ThreeFiles({App, Target, Debug})]
    \cup [links : {{Debug}}, volumeOf : {OneVolume}, used : {<<2, 2>>},
          inodeOf : {[f |-> 1, g |-> 1, h |-> 2]}, blocksOf : {<<{1}, {1, 2}>>},
          dirOf : ThreeFiles({Target, Scratch, Other})]
Ask == [roots |-> <<<<"work">>>>, excludes |-> {}, measure |-> "allocated",
        descent |-> "measure", minSize |-> 0, maxDepth |-> 1, only |-> "any"]
Sighting == [Ask EXCEPT !.measure = "logical", !.descent = "everything"]
Wanted ==
    {[Ask EXCEPT !.roots = <<App, <<"work">>, Other>>],
     [Ask EXCEPT !.roots = <<<<"work">>, App>>, !.minSize = 1],
     [Ask EXCEPT !.roots = <<Debug, <<"work">>, Other>>],
     [Ask EXCEPT !.excludes = {Debug}],
     [Ask EXCEPT !.measure = "logical", !.roots = <<Debug, App>>],
     Sighting, [Sighting EXCEPT !.descent = "children", !.only = "app"]}

-------------------------------------------------------------------------------
(* A directory that can be built again, and one that takes effort to.       *)
Tiers == <<"routine", "costly">>
IdOf(d, contents) == [place |-> d, identity |-> 1, contents |-> contents]
Clean == [name |-> "clean", mode |-> "execute", yes |-> FALSE, terminal |-> TRUE, json |-> FALSE,
          given |-> <<>>, tiers |-> {"routine", "costly"}, wanted |-> Directories, byGit |-> {}]
Both == <<IdOf(2, "old"), IdOf(1, "old")>>
Auto == [Clean EXCEPT !.name = "auto", !.terminal = FALSE]
Given ==
    {Clean, [Clean EXCEPT !.tiers = {"routine"}], [Clean EXCEPT !.mode = "dry-run"],
     [Clean EXCEPT !.json = TRUE, !.mode = "dry-run"], [Clean EXCEPT !.terminal = FALSE],
     [Clean EXCEPT !.given = Both, !.yes = TRUE, !.terminal = FALSE], [Clean EXCEPT !.given = Both],
     [Clean EXCEPT !.given = Both, !.terminal = FALSE],
     [Clean EXCEPT !.given = <<IdOf(1, "old"), IdOf(1, "old")>>, !.yes = TRUE],
     [Clean EXCEPT !.given = <<IdOf(2, "old")>>, !.wanted = {1}, !.yes = TRUE],
     Auto, [Auto EXCEPT !.mode = "dry-run"], [Auto EXCEPT !.byGit = {1}, !.wanted = {1}]}

-------------------------------------------------------------------------------
(* Of each platform a host whose user has a home where homes are, one whose *)
(* user has one at the root and one without, and every path of its          *)
(* directories' names, in either spelling.                                  *)
Words(platform) ==
    CASE platform = "linux" -> {<<"home">>, <<"me">>, <<".cache">>, <<"A">>, <<"a">>}
      [] platform = "macos" -> {<<"Users">>, <<"users">>, <<"me">>, <<"Library">>, <<"A">>, <<"a">>}
      [] platform = "windows" -> {<<"Users">>, <<"users">>, <<"me">>, <<"AppData">>, <<"A">>, <<"a">>}
RootOf(platform) == IF platform = "windows" THEN P!Drive("C") ELSE P!UnixRoot
Located(platform, names) == P!At(P!SyntaxOf(platform), RootOf(platform), names)
HostOf(platform) ==
    LET users == UsersName(platform) IN
    [platform |-> platform, home |-> Located(platform, <<users, <<"me">>>>),
     temp |-> Located(platform, <<<<"private">>, <<"a">>>>), cache |-> P!Nowhere,
     programs |-> <<Located(platform, <<<<"A">>>>)>>,
     cwd |-> Located(platform, <<users, <<"me">>, <<"a">>, <<"a">>>>),
     exe |-> Located(platform, <<<<"A">>, <<"me">>>>)]
Hosts ==
    UNION {{HostOf(p), [HostOf(p) EXCEPT !.home = P!Nowhere, !.temp = P!Nowhere],
            [HostOf(p) EXCEPT !.home = Located(p, <<<<"me">>>>),
                              !.cache = Located(p, <<<<"me">>, <<"a">>>>)]} : p \in P!Platforms}

ListingWith(evidence) ==
    Listing("directory", "target",
              IF evidence = "inferred" THEN {"cargo.toml"} ELSE {}, {},
              IF evidence \in {"declared", "invalid-tag"} THEN {"cachedir.tag"} ELSE {}, {},
              IF evidence = "declared" THEN "signature" ELSE "other", "cache")
AsListed == {ListingWith(e) : e \in {"nothing", "inferred", "declared", "invalid-tag"}}

PlacesSeen ==
    UNION {[host : {h}, listing : AsListed,
            place : {Located(h.platform, n) :
                       n \in UNION {[1..k -> Words(h.platform)] : k \in 0..4}}] : h \in Hosts}

-------------------------------------------------------------------------------
(* Of the worktrees that were released, those with one fact amiss or none.  *)
Proven == [sameIdentity |-> TRUE, sameDigest |-> TRUE, monitor |-> "held", writers |-> "free"]
NearProven ==
    {w \in Worktrees : w.kind = "released" =>
        \E f \in DOMAIN Proven : \A g \in DOMAIN Proven \ {f} : w.evidence[g] = Proven[g]}

AreasRest ==
    sighting = [host |-> HostOf("linux"), place |-> HostOf("linux").cwd,
                listing |-> ListingWith("nothing")]
ClaimsRest == own = {} /\ nested = {} /\ worktree = CHOOSE w \in Worktrees : TRUE
InspectionRests ==
    /\ site = Plain /\ ask = [ask |-> "discover"] /\ at = 1 /\ stages = <<>>
    /\ identified = FALSE /\ result = "asked"
SurveyRests ==
    /\ disk = <<>> /\ request = <<>> /\ pending = <<>> /\ roots = {} /\ visits = <<>>
    /\ found = {} /\ directories = {} /\ counts = <<>> /\ faults = 0
    /\ report = [state |-> "walking"]
CommandRests ==
    /\ command = Clean /\ there = <<>> /\ standing = <<>> /\ busy = {} /\ step = "done"
    /\ candidates = <<>> /\ chosen = <<>> /\ position = 1 /\ plan = <<>> /\ preview = <<>>
    /\ outcomes = <<>> /\ remaining = {} /\ exit = 0 /\ deleted = {} /\ halved = {} /\ changes = 0

MCInit ==
    \/ /\ topic = "claims" /\ ClaimsInit /\ worktree \in NearProven
       /\ InspectionRests /\ SurveyRests /\ AreasRest /\ CommandRests
    \/ /\ topic = "inspection" /\ Init
       /\ ClaimsRest /\ SurveyRests /\ AreasRest /\ CommandRests
    \/ /\ topic = "survey" /\ SurveyInit
       /\ ClaimsRest /\ InspectionRests /\ AreasRest /\ CommandRests
    \/ /\ topic = "places" /\ AreasInit
       /\ ClaimsRest /\ InspectionRests /\ SurveyRests /\ CommandRests
    \/ /\ topic = "commands" /\ CommandInit
       /\ ClaimsRest /\ InspectionRests /\ SurveyRests /\ AreasRest

MCNext ==
    \/ /\ topic = "claims" /\ ClaimsNext
       /\ UNCHANGED <<topic, vars, survey, sighting, commands>>
    \/ /\ topic = "inspection" /\ Next
       /\ UNCHANGED <<topic, claims, survey, sighting, commands>>
    \/ /\ topic = "survey" /\ SurveyNext
       /\ UNCHANGED <<topic, claims, vars, sighting, commands>>
    \/ /\ topic = "commands" /\ CommandNext
       /\ UNCHANGED <<topic, claims, vars, survey, sighting>>

MCSpec == MCInit /\ [][MCNext]_decisions
===============================================================================
