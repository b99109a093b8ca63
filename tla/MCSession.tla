------------------------------- MODULE MCSession -------------------------------
(***************************************************************************)
(* What is learnt from others while they go on, on small instances: the    *)
(* signals of caches and their locks, the answers of git, those of the     *)
(* managers of other stores, and the files that builds write anew; and the  *)
(* command that shares files.  The five share no state: a behaviour is      *)
(* about one topic, the variables of the others rest.                      *)
(***************************************************************************)
EXTENDS MCWatch, Stores, Worktrees, Pool, Dedupe

VARIABLE topic

answers == <<topic, vars, landing, stores, pool, dedupe>>

-------------------------------------------------------------------------------
(* Three toolchains, and a manifest that others inherit from, one below it   *)
(* and a configuration that mise tracks elsewhere.                          *)
Dotted(parts) == [v |-> FALSE, parts |-> parts]
Chain(tool, parts, rest) == [tool |-> tool, version |-> Dotted(parts), rest |-> rest]
Rust84 == Chain("rust", <<"1", "84", "0">>, "host")
Nightly == Chain("rust", <<"nightly">>, "date")
Node == Chain("node", <<"20", "1">>, "none")
Above == <<<<1>>, <<2, 1>>, <<3>>>>
Installable == [rustup |-> {Rust84, Nightly}, mise |-> {Node}]
Written(state, named, inherits, workspace) ==
    [state |-> state, pins |-> named, inherits |-> inherits, workspace |-> workspace]
Named(tool, parts) == [tool |-> tool, version |-> Dotted(parts)]
Msrv == Named("rust", <<"1", "84">>)
NodeV == [Named("node", <<"20", "1">>) EXCEPT !.version.v = TRUE]
NamesNothing == Written("regular", {}, FALSE, {})
Texts ==
    <<{NamesNothing, Written("regular", {Msrv}, FALSE, {Msrv}), Written("linked", {}, FALSE, {})},
      {Written("absent", {}, FALSE, {}), Written("unreadable", {}, FALSE, {}),
       Written("regular", {}, TRUE, {}),
       Written("regular", {Named("rust", <<"nightly">>), Named("node", <<"20">>)}, FALSE, {})},
      {NamesNothing, Written("regular", {Msrv, NodeV}, FALSE, {})}>>
Reviewed(scope, resource, label) == [scope |-> scope, resource |-> resource, label |-> label]
Chained(scope, t) == Reviewed(scope, "toolchain", t)
AllOf(resource) == Reviewed(1, resource, Chain(resource, <<"">>, "none"))
AskedFor ==
    [rustup |-> {<<Chained(1, Nightly)>>,
                 <<Chained(1, Rust84), Chained(1, Rust84), Chained(2, Nightly)>>},
     mise |-> {<<Chained(1, Node)>>}, docker |-> {<<AllOf("image"), AllOf("build_cache")>>}]
Image(tags, digests, containers) == [tags |-> tags, digests |-> digests, containers |-> containers]
Held == [image : {{}, {Image("none", "unsaid", "none")},
                  {Image("none", "none", "none"), Image("some", "none", "none")}},
         build_cache : {{"no", "yes"}, {"unsaid"}}]

(* Two files in one cache and one in another, of three contents, two of      *)
(* which are equally long; builds write one of them.                        *)
ThreeFiles == {<<1, 1>>, <<1, 2>>, <<2, 1>>}
HowLong == [a |-> 2, b |-> 2, c |-> 3]
ThatAreWritten == {"a"}
Either == {"clone-and-swap", "dedupe-range"}
FirstContents == {<<"a", "b", "a">>, <<"b", "c", "a">>}

(* Three equally long files, of any owner, names, mode and attributes, that  *)
(* share their blocks or do not.                                            *)
FilesAt(place, clusters) ==
    [place : {place}, file : {place}, volume : {1}, len : {2}, method : {"clone-and-swap"},
     links : {1, 2}, owner : {"caller", "other"}, mode : {"plain", "executable"},
     extras : {"plain", "special"}, cluster : clusters]
AnyThree ==
    {[files |-> {f, g, h}, prints |-> p] :
        f \in FilesAt(1, {1}), g \in FilesAt(2, {1, 2}), h \in FilesAt(3, {1, 2, 3}),
        p \in {<<"x", "x", "x">>, <<"x", "x", "y">>}}

(* The worktree has two files, of two contents.                              *)
TwoFiles == [1..2 -> 0..1]

-------------------------------------------------------------------------------
WatchRests == Init /\ present = {} /\ raised = {} /\ standing = [c \in Caches |-> "active"]
WorktreesRest ==
    /\ commits = <<>> /\ head = 0 /\ detached = FALSE /\ upstream = FALSE /\ edited = FALSE
    /\ link = "none" /\ main = 0 /\ branch = 0 /\ asking = "idle" /\ status = "none" /\ base = 0
    /\ differing = {} /\ candidates = {} /\ cached = "none" /\ woken = FALSE /\ tips = {}
    /\ unheard = FALSE /\ moves = 0
StoresRest ==
    /\ provider = "none" /\ tracked = {} /\ granted = FALSE /\ mode = "none" /\ asked = <<>>
    /\ says = <<>> /\ overrides = {} /\ installed = <<>> /\ engine = 0 /\ stock = <<>>
    /\ step = "none" /\ pass = "none" /\ position = 0 /\ connected = 0 /\ files = {}
    /\ pins = {} /\ complete = FALSE /\ listed = <<>> /\ prunable = {} /\ recorded = {}
    /\ permit = {} /\ outcomes = <<>> /\ removed = {} /\ steady = {} /\ late = FALSE /\ changes = 0
PoolRests ==
    /\ method = "none" /\ disk = <<>> /\ data = <<>> /\ busy = {} /\ heard = <<>> /\ again = {}
    /\ stocks = <<>> /\ doing = "none" /\ root = 0 /\ names = {} /\ fresh = <<>> /\ pairs = {}
    /\ held = <<>> /\ passed = {} /\ writes = 0 /\ losses = 0
DedupeRests == observed = {} /\ prints = <<>> /\ ran = FALSE

(* Removals that are granted, and a few that are not or are only tried.      *)
Earnest == granted /\ mode = "execute" /\ \A t \in DOMAIN installed : installed[t].inside
Tried == (granted <=> mode = "dry-run") /\ tracked # {} /\ says[1].state = "regular"
         /\ says[2].state # "unreadable"

AnswersInit ==
    \/ topic = "watch" /\ Init /\ WorktreesRest /\ StoresRest /\ PoolRests /\ DedupeRests
    \/ topic = "worktrees" /\ WorktreesInit /\ WatchRests /\ StoresRest /\ PoolRests /\ DedupeRests
    \/ /\ topic = "stores" /\ StoresInit /\ (Earnest \/ Tried)
       /\ WatchRests /\ WorktreesRest /\ PoolRests /\ DedupeRests
    \/ topic = "pool" /\ PoolInit /\ WatchRests /\ WorktreesRest /\ StoresRest /\ DedupeRests
    \/ topic = "dedupe" /\ DedupeInit /\ WatchRests /\ WorktreesRest /\ StoresRest /\ PoolRests

AnswersNext ==
    \/ topic = "watch" /\ Next /\ UNCHANGED <<topic, landing, stores, pool, dedupe>>
    \/ topic = "worktrees" /\ WorktreesNext /\ UNCHANGED <<topic, vars, stores, pool, dedupe>>
    \/ topic = "stores" /\ StoresNext /\ UNCHANGED <<topic, vars, landing, pool, dedupe>>
    \/ topic = "pool" /\ PoolNext /\ UNCHANGED <<topic, vars, landing, stores, dedupe>>
    \/ topic = "dedupe" /\ Run /\ UNCHANGED <<topic, vars, landing, stores, pool>>

AnswersSpec == AnswersInit /\ [][AnswersNext]_answers
===============================================================================
