-------------------------------- MODULE Places --------------------------------
(***************************************************************************)
(* Paths, and which of them are protected on a host (core/location.rs,     *)
(* area.rs, table.rs).  A name is a sequence of letters, some of which are *)
(* whole words; an upper-case letter has its lower-case beside it.  A      *)
(* location is a syntax, a root and the names below it.                    *)
(***************************************************************************)
EXTENDS Integers, Sequences

LOCAL Seqs == INSTANCE SequencesExt

Syntaxes == {"unix", "windows"}
Cases == {"sensitive", "insensitive"}
Platforms == {"macos", "linux", "windows"}

SyntaxOf(platform) == IF platform = "windows" THEN "windows" ELSE "unix"
CaseOf(platform) == IF platform = "linux" THEN "sensitive" ELSE "insensitive"

Lowercase == [A |-> "a", Users |-> "users", Library |-> "library", AppData |-> "appdata"]
Folded(name, case) ==
    IF case = "sensitive" THEN name
    ELSE [i \in DOMAIN name |->
            IF name[i] \in DOMAIN Lowercase THEN Lowercase[name[i]] ELSE name[i]]

FoldedAll(names, case) == [i \in DOMAIN names |-> Folded(names[i], case)]

UnixRoot == [kind |-> "unix"]
Drive(letter) == [kind |-> "drive", letter |-> letter]
Unc(server, share) == [kind |-> "unc", server |-> server, share |-> share]

At(syntax, root, names) == [syntax |-> syntax, root |-> root, names |-> names]
Nowhere == At("none", UnixRoot, <<>>)

-------------------------------------------------------------------------------
(* Parsing: how a path starts, and what lies between its separators.       *)

IsNavigation(part) == part = <<"..">>
HasNul(part) == \E i \in DOMAIN part : part[i] = "NUL"
Names(parts) == SelectSeq(parts, LAMBDA p : p # <<>> /\ p # <<".">>)
Nameable(parts) == \A i \in DOMAIN parts : ~IsNavigation(parts[i]) /\ ~HasNul(parts[i])

ParseUnix(raw) ==
    IF raw.start = "/" /\ Nameable(raw.parts)
    THEN At("unix", UnixRoot, Names(raw.parts)) ELSE Nowhere

(* A share is named by the first two parts, a drive stands alone or is      *)
(* followed by a separator, whatever says that a path is to be taken as it  *)
(* is: `start` is what a path begins with, up to the first of its parts.    *)
ParseWindows(raw) ==
    LET names == Names(raw.parts) IN
    CASE ~Nameable(raw.parts) -> Nowhere
      [] raw.start \in {"\\\\?\\UNC\\", "\\\\.\\UNC\\", "\\\\"} /\ Len(names) >= 2 ->
           At("windows", Unc(names[1], names[2]), SubSeq(names, 3, Len(names)))
      [] raw.start \in {"C:\\", "\\\\?\\C:\\", "\\\\.\\C:\\"} -> At("windows", Drive("C"), names)
      [] raw.start \in {"C:", "\\\\?\\C:", "\\\\.\\C:"} /\ raw.parts = <<>> ->
           At("windows", Drive("C"), <<>>)
      [] OTHER -> Nowhere

Parse(syntax, raw) == IF syntax = "unix" THEN ParseUnix(raw) ELSE ParseWindows(raw)

(* A location as it is printed.                                             *)
Printed(l) ==
    CASE l.root.kind = "unix" -> [start |-> "/", parts |-> l.names]
      [] l.root.kind = "drive" -> [start |-> "C:\\", parts |-> l.names]
      [] l.root.kind = "unc" ->
           [start |-> "\\\\", parts |-> <<l.root.server, l.root.share>> \o l.names]

-------------------------------------------------------------------------------
Parent(l) == [l EXCEPT !.names = SubSeq(@, 1, Len(@) - 1)]
Join(l, name) == [l EXCEPT !.names = Append(@, name)]

(* A server is named without regard to case, a share as its host has it.   *)
SameRoot(r, s, case) ==
    CASE r.kind # s.kind -> FALSE
      [] r.kind = "unix" /\ s.kind = "unix" -> TRUE
      [] r.kind = "drive" /\ s.kind = "drive" -> r.letter = s.letter
      [] r.kind = "unc" /\ s.kind = "unc" ->
           /\ Folded(r.server, "insensitive") = Folded(s.server, "insensitive")
           /\ Folded(r.share, case) = Folded(s.share, case)

(* Mutant: names are compared as they are spelled.                          *)
ContainsAsSpelled(outer, inner, case) ==
    /\ outer.syntax = inner.syntax
    /\ SameRoot(outer.root, inner.root, case)
    /\ Len(outer.names) <= Len(inner.names)
    /\ \A i \in DOMAIN outer.names : outer.names[i] = inner.names[i]

Contains(outer, inner, case) ==
    /\ outer.syntax = inner.syntax
    /\ SameRoot(outer.root, inner.root, case)
    /\ Len(outer.names) <= Len(inner.names)
    /\ \A i \in DOMAIN outer.names : Folded(outer.names[i], case) = Folded(inner.names[i], case)

Below(outer, inner) == SubSeq(inner.names, Len(outer.names) + 1, Len(inner.names))
SamePlace(l, m, case) == Contains(l, m, case) /\ Below(l, m) = <<>>
Intersects(l, m, case) == Contains(l, m, case) \/ Contains(m, l, case)

RootKey(r, case) ==
    CASE r.kind = "unix" -> <<"/">>
      [] r.kind = "drive" -> <<r.letter, ":\\">>
      [] r.kind = "unc" -> <<"\\\\">> \o Folded(r.server, "insensitive")
                             \o <<"\\">> \o Folded(r.share, case)

(* What tells locations apart where they are put into sets and into ids:    *)
(* the root, and the names with a NUL between one and the next.             *)
KeyOf(l, case) ==
    RootKey(l.root, case) \o
    Seqs!FlattenSeq([i \in DOMAIN l.names |->
        (IF i > 1 THEN <<"NUL">> ELSE <<>>) \o Folded(l.names[i], case)])

-------------------------------------------------------------------------------
(* Rules of protection.                                                    *)

Rule(area, why, anchor, reach) ==
    [area |-> area, why |-> why, anchor |-> anchor, reach |-> reach, named |-> <<>>]
App(anchor) == Rule("app", "application", anchor, "subtree")
AppInEach(anchor, name) == [App(anchor) EXCEPT !.reach = "each-child-subtree", !.named = name]
System(anchor) == Rule("system", "system-area", anchor, "subtree")
Exactly(why, anchor) == Rule("system", why, anchor, "exact")
EachChild(why, anchor) == Rule("system", why, anchor, "each-child")

Reaches(rule, l, case) ==
    /\ Contains(rule.anchor, l, case)
    /\ LET rest == Below(rule.anchor, l) IN
         CASE rule.reach = "subtree" -> TRUE
           [] rule.reach = "exact" -> rest = <<>>
           [] rule.reach = "each-child" -> Len(rest) = 1
           [] rule.reach = "each-child-subtree" ->
                /\ Len(rest) >= 2
                /\ Folded(rest[2], case) = Folded(rule.named, case)

(* A protection is written in one syntax, rules and all.                   *)
Protection(platform, cwd, exe, rules) ==
    [syntax |-> SyntaxOf(platform), case |-> CaseOf(platform),
     cwd |-> cwd, exe |-> exe, rules |-> rules]
WellWritten(p) ==
    /\ p.cwd.syntax = p.syntax /\ p.exe.syntax = p.syntax
    /\ \A i \in DOMAIN p.rules : p.rules[i].anchor.syntax = p.syntax

(* Mutant: a directory that contains the working one is not looked for.    *)
AreaOfRules(p, l) ==
    LET reaching == {i \in DOMAIN p.rules : Reaches(p.rules[i], l, p.case)} IN
    IF l.syntax # p.syntax \/ l.names = <<>> THEN "system"
    ELSE IF reaching = {} THEN "open"
    ELSE p.rules[CHOOSE i \in reaching : \A j \in reaching : i <= j].area

(* Roots, and whatever contains the working directory or this program, are  *)
(* the system's; of the rules the first that reaches a location decides.    *)
AreaOf(p, l) ==
    LET reaching == {i \in DOMAIN p.rules : Reaches(p.rules[i], l, p.case)} IN
    IF \/ l.syntax # p.syntax \/ l.names = <<>>
       \/ Contains(l, p.cwd, p.case) \/ Contains(l, p.exe, p.case)
    THEN "system"
    ELSE IF reaching = {} THEN "open"
    ELSE p.rules[CHOOSE i \in reaching : \A j \in reaching : i <= j].area

-------------------------------------------------------------------------------
(* The tables.  A host has a home, a temporary and a cache directory, each  *)
(* of which may be missing, and program areas; the areas of the system that *)
(* differ in nothing but their names are shown by a few of them.            *)

Unix(words) == At("unix", UnixRoot, [i \in DOMAIN words |-> <<words[i]>>])
If(l, rules) == IF l = Nowhere THEN <<>> ELSE rules
Each(words, rule(_)) == [i \in DOMAIN words |-> rule(Unix(<<words[i]>>))]

MacTable(host) ==
    If(host.temp, <<App(host.temp)>>)
    \o <<App(Unix(<<"private", "var", "folders">>)), App(Unix(<<"private", "tmp">>)),
         App(Unix(<<"private", "var", "tmp">>))>>
    \o If(host.home, <<App(Join(host.home, <<"Library">>))>>)
    \o <<AppInEach(Unix(<<"Users">>), <<"Library">>)>>
    \o Each(<<"Library", "usr", "private">>, System)
    \o <<Exactly("volume", Unix(<<"Volumes">>)), EachChild("volume", Unix(<<"Volumes">>)),
         Exactly("users", Unix(<<"Users">>)), EachChild("profile", Unix(<<"Users">>))>>
    \o If(host.home, <<Exactly("profile", host.home)>>)

LinuxTable(host) ==
    If(host.cache, <<App(host.cache)>>)
    \o If(host.home, IF host.cache = Nowhere THEN <<App(Join(host.home, <<".cache">>))>> ELSE <<>>)
    \o If(host.home, <<App(Join(Join(host.home, <<".local">>), <<"share">>))>>)
    \o <<AppInEach(Unix(<<"home">>), <<".cache">>), App(Unix(<<"var", "tmp">>)),
         App(IF host.temp = Nowhere THEN Unix(<<"tmp">>) ELSE host.temp)>>
    \o Each(<<"usr", "var", "etc">>, System)
    \o <<Exactly("users", Unix(<<"home">>)), EachChild("profile", Unix(<<"home">>)),
         Exactly("profile", Unix(<<"root">>))>>
    \o If(host.home, <<Exactly("profile", host.home)>>)

WindowsTable(host) ==
    LET users == IF host.home = Nowhere \/ host.home.names = <<>>
                 THEN Nowhere ELSE Parent(host.home) IN
    If(host.home, <<App(Join(host.home, <<"AppData">>))>>)
    \o If(users, <<AppInEach(users, <<"AppData">>)>>)
    \o [i \in DOMAIN host.programs |-> System(host.programs[i])]
    \o If(host.home, <<Exactly("profile", host.home)>>)
    \o If(users, <<Exactly("users", users), EachChild("profile", users)>>)

Table(platform, host) ==
    CASE platform = "macos" -> MacTable(host)
      [] platform = "linux" -> LinuxTable(host)
      [] platform = "windows" -> WindowsTable(host)

(* The protection of this host; a directory that is not there has no rule.  *)
Detected(platform, host, cwd, exe) == Protection(platform, cwd, exe, Table(platform, host))

(* Where unattended runs look when there is no policy: a private temporary  *)
(* directory and, of a user with a home, the directories the platform has   *)
(* for caches, state and data, where the environment or the home has them.  *)
AreaNames(platform) ==
    {"cache", "state", "data"} \cup
    (CASE platform = "macos" -> {"Caches", "Support"}
       [] platform = "windows" -> {"local", "roaming"}
       [] platform = "linux" -> {})
UserAreas(platform, host, named, private) ==
    (IF private THEN {host.temp} ELSE {}) \cup
    (IF host.home = Nowhere THEN {}
     ELSE {IF a \in DOMAIN named THEN named[a] ELSE Join(host.home, <<a>>) :
             a \in AreaNames(platform)})

(* An area that is there and is no directory ends the run.                  *)
DefaultRoots(areas, kindOf) ==
    IF \E l \in areas : kindOf[l] \notin {"directory", "absent"} THEN {Nowhere}
    ELSE {l \in areas : kindOf[l] = "directory"}
===============================================================================
