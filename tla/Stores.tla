--------------------------------- MODULE Stores ---------------------------------
(***************************************************************************)
(* What other managers store (cli/managed.rs, cli/managed/toolchains.rs,    *)
(* cli/platform/engine.rs): toolchains of rustup and of mise, images and    *)
(* caches of a container engine.  A run surveys the store, and surveys it   *)
(* again for every reviewed candidate, before it asks the manager to remove *)
(* it.  A survey of toolchains reads the tool configurations one after      *)
(* another, while people edit them, reinstall and choose other defaults.    *)
(***************************************************************************)
EXTENDS Naturals, Sequences

Sets == INSTANCE FiniteSetsExt
Seqs == INSTANCE SequencesExt

CONSTANTS
    Walked, Elsewhere,  \* configurations below the checkout roots, and those tracked elsewhere,
                        \* numbers in the order of their paths
    ManifestsAbove,     \* [manifest -> the manifests of its ancestors, itself first]
    Contents,           \* [configuration -> what may be written there]
    Toolchains,         \* [manager -> its toolchains]
    Stocks,             \* what an engine may hold
    AskedIds,               \* [provider -> the sequences of ids that are asked for]
    MaxChanges

VARIABLES
    provider, tracked, granted, mode, asked,       \* the command, and what mise tracks
    says, overrides, installed, engine, stock,     \* the world
    step, pass, position, connected,              \* the run
    files, pins, complete, listed, prunable, recorded, permit, outcomes,
    removed, steady, late, changes                 \* history

others == <<says, overrides, installed, engine, stock>>
command == <<provider, tracked, granted, mode, asked>>
gathered == <<files, pins, complete, listed, prunable>>
stores == <<command, others, step, pass, position, connected, gathered, recorded, permit,
            outcomes, removed, steady, late, changes>>

Configs == Walked \cup Elsewhere

(* Configurations are numbers, and what is asked for is a sequence; 0 stands  *)
(* for the overrides of rustup, which are in no configuration.               *)
Overriding == 0
ASSUME ConfigsAssumption ==
    /\ Configs \subseteq Nat \ {Overriding}
    /\ \A p \in {"docker", "rustup", "mise"} :
         \A ids \in AskedIds[p] : ids \in Seq({ids[i] : i \in DOMAIN ids})

-------------------------------------------------------------------------------
(* A version is the parts between its dots, with or without a leading v; a   *)
(* date goes with the channel it dates.                                     *)
Version(parts) == [v |-> FALSE, parts |-> parts]
Digits == {"0", "1", "20", "84"}
Channels == {"stable", "beta", "nightly"}
Dated == [stable |-> "stable-date", beta |-> "beta-date", nightly |-> "nightly-date"]
Numeric(parts) == Seqs!ToSet(parts) \subseteq Digits

VersionReference(request, installation) ==
    LET wanted == request.parts
        there == installation.parts
        referenced ==
            \/ wanted = there
            \/ Numeric(wanted) /\ Seqs!IsStrictPrefix(wanted, there)
        elsewhere ==
            Numeric(wanted) \/ wanted \in {<<c>> : c \in Channels} \/ wanted = <<Dated.nightly>>
    IN CASE <<"">> \in {wanted, there} -> "unknown"
         [] <<"">> \notin {wanted, there} /\ referenced -> "referenced"
         [] <<"">> \notin {wanted, there} /\ ~referenced ->
              IF elsewhere THEN "unused" ELSE "unknown"

(* A toolchain of rustup is a channel and a host, with a date between them   *)
(* perhaps; any other name is one a person gave.                            *)
RustChannel(t) ==
    LET first == t.version.parts
    IN CASE t.rest = "none" -> {}
         [] t.rest # "none" /\ first \in {<<c>> : c \in Channels} ->
              {IF t.rest = "date" THEN Version(<<Dated[first[1]]>>) ELSE t.version}
         [] t.rest # "none" /\ first \notin {<<c>> : c \in Channels} ->
              IF Numeric(first) THEN {t.version} ELSE {}

Reference(named, tool, version) ==
    LET found == {VersionReference(p.version, version) : p \in {q \in named : q.tool = tool}}
    IN IF "referenced" \in found THEN "referenced"
       ELSE IF "unknown" \in found THEN "unknown" ELSE "unused"

(* What is known of a toolchain from pins alone.                            *)
PinnedBy(named, t) ==
    IF provider = "mise" THEN Reference(named, t.tool, t.version)
    ELSE LET channel == RustChannel(t)
         IN IF channel = {} THEN "unknown"
            ELSE Reference(named, t.tool, CHOOSE c \in channel : TRUE)

-------------------------------------------------------------------------------
(* A configuration names versions, or lets the workspace of a manifest       *)
(* above it name one, or says what cannot be known without running it.       *)
Content(state, named, inherits, workspace) ==
    [state |-> state, pins |-> named, inherits |-> inherits, workspace |-> workspace]
Pin(tool, version) == [tool |-> tool, version |-> version]
Absent == Content("absent", {}, FALSE, {})
Unresolved == Pin("any", Version(<<"">>))

WorkspaceMsrv(texts, c) ==
    LET above == ManifestsAbove[c]
        decisive == {i \in DOMAIN above : \/ texts[above[i]].workspace # {}
                                          \/ texts[above[i]].state \notin {"absent", "regular"}}
    IN IF decisive = {} THEN {Unresolved}
       ELSE LET manifest == texts[above[Sets!Min(decisive)]]
            IN IF manifest.state = "regular" THEN manifest.workspace ELSE {Unresolved}

(* What a file that is read says, {Unresolved} when it cannot be read or      *)
(* when one of its pins has no static version.                              *)
ToolPins(texts, c) ==
    LET text == texts[c]
        named == text.pins \cup IF text.inherits THEN WorkspaceMsrv(texts, c) ELSE {}
    IN CASE text.state = "absent" -> {}
         [] text.state = "regular" -> IF Unresolved \in named THEN {Unresolved} ELSE named
         [] text.state \notin {"absent", "regular"} -> {Unresolved}

-------------------------------------------------------------------------------
(* What an engine says of an image, and of a cache.                          *)
ImageReferences(i) ==
    CASE i.tags = "none" /\ i.digests = "none" /\ i.containers = "none" -> "unused"
      [] "unsaid" \notin {i.tags, i.digests} /\ "some" \in {i.tags, i.digests} -> "referenced"
      [] OTHER -> IF i.containers = "some" THEN "referenced" ELSE "unknown"
CacheReferences(inUse) ==
    CASE inUse = "yes" -> "referenced" [] inUse = "no" -> "unused" [] inUse = "unsaid" -> "unknown"
EngineUsage ==
    [image |-> {ImageReferences(i) : i \in stock.image},
     build_cache |-> {CacheReferences(u) : u \in stock.build_cache}]

(* The id of a candidate is what it is, of which kind, and where: the file   *)
(* of a toolchain's directory, or the engine.                               *)
Id(scope, resource, label) == [scope |-> scope, resource |-> resource, label |-> label]
Candidate(scope, resource, label, references, path) ==
    [id |-> Id(scope, resource, label), references |-> references, action |-> path]
Whole(resource) == [tool |-> resource, version |-> Version(<<"">>), rest |-> "none"]

EngineCandidates ==
    {Candidate(connected, r, Whole(r),
               IF "unused" \in EngineUsage[r] THEN "unused" ELSE "referenced", "engine")
        : r \in {x \in {"image", "build_cache"} : EngineUsage[x] # {}}}

(* Mise has to call a toolchain prunable, and leaves Rust to rustup.  One     *)
(* that lies elsewhere, or behind a link, is nobody's to remove.            *)
ReferencesOf(t) ==
    IF ~installed[t].inside THEN "unknown"
    ELSE IF listed[t] \/ (provider = "mise" /\ (t.tool = "rust" \/ t \notin prunable))
         THEN "referenced" ELSE PinnedBy(pins, t)
ToolchainCandidates ==
    {Candidate(installed[t].identity, "toolchain", t, ReferencesOf(t),
               IF installed[t].inside THEN "inside" ELSE "elsewhere") : t \in DOMAIN listed}

Refusals == <<"preserved", "tier", "incomplete", "referenced", "unknown", "stale">>
Clear(candidate, reviewed, whole) ==
    LET holds == [preserved |-> candidate.id.resource \in {"volume", "container"},
                  tier |-> ~granted, incomplete |-> ~whole,
                  referenced |-> candidate.references = "referenced",
                  unknown |-> candidate.references = "unknown",
                  stale |-> candidate.id # reviewed.id]
        refused == {i \in DOMAIN Refusals : holds[Refusals[i]]}
    IN IF refused = {} THEN "clear" ELSE Refusals[Sets!Min(refused)]
ClearanceOfReviewed(reviewed, current, whole) == Clear(reviewed, reviewed, whole)
Clearance(reviewed, current, whole) ==
    IF reviewed.action # current.action \/ reviewed.id.resource # current.id.resource
    THEN "stale" ELSE Clear(current, reviewed, whole)

-------------------------------------------------------------------------------
StoresInit ==
    /\ provider \in {"docker", "rustup", "mise"} /\ tracked \in {{}, Elsewhere}
    /\ granted \in BOOLEAN /\ mode \in {"dry-run", "execute"} /\ asked \in AskedIds[provider]
    /\ says \in {s \in [Configs -> UNION {Contents[c] : c \in Configs}] :
                    \A c \in Configs : s[c] \in Contents[c]}
    /\ overrides = {}
    /\ installed \in [IF provider = "docker" THEN {} ELSE Toolchains[provider] ->
                        [identity : {1}, active : {FALSE}, inside : BOOLEAN]]
    /\ engine = 1 /\ stock \in Stocks
    /\ (provider = "docker") => says = [c \in Configs |-> Absent] /\ tracked = {}
    /\ (provider # "docker") => stock = CHOOSE s \in Stocks : TRUE
    /\ step = "collect" /\ pass = "first" /\ position = 0 /\ connected = engine
    /\ files = {} /\ pins = {} /\ complete = TRUE /\ listed = <<>> /\ prunable = {}
    /\ recorded = {} /\ permit = {} /\ outcomes = <<>>
    /\ removed = {} /\ steady = {} /\ late = FALSE /\ changes = 0

Outcome(result) ==
    /\ outcomes' = Append(outcomes, result) /\ step' = "next" /\ permit' = {}

(* A survey that fails is the end of the run, or of the candidate.           *)
Fail ==
    /\ IF pass = "first" THEN step' = "failed" /\ UNCHANGED <<outcomes, permit>>
       ELSE Outcome("failed")
    /\ UNCHANGED <<command, others, pass, position, connected, gathered, recorded,
                   removed, steady, late, changes>>

Surveying(next) ==
    /\ step' = next
    /\ UNCHANGED <<command, others, pass, position, connected, recorded, permit, outcomes,
                   removed, late, changes>>

(* The configurations below the roots, a linked one being no answer, and     *)
(* those mise tracks, if there is mise.                                     *)
Collect ==
    /\ step = "collect" /\ provider # "docker"
    /\ IF \E c \in Walked : says[c].state = "linked" THEN Fail
       ELSE /\ files' = {c \in Walked : says[c].state # "absent"} \cup tracked
            /\ pins' = {} /\ complete' = TRUE /\ listed' = <<>> /\ prunable' = {}
            /\ steady' = IF pass = "first" THEN {}
                         ELSE {x \in files' \X UNION {ToolPins(says, c) : c \in files'} :
                                  x[2] \in ToolPins(says, x[1])}
                              \cup IF provider = "rustup" THEN {Overriding} \X overrides ELSE {}
            /\ Surveying("read")

ReadNext ==
    /\ step = "read" /\ files # {}
    /\ LET c == Sets!Min(files)
           read == ToolPins(says, c)
       IN /\ files' = files \ {c}
          /\ pins' = IF Unresolved \in read THEN pins ELSE pins \cup read
          /\ complete' = (complete /\ Unresolved \notin read)
    /\ UNCHANGED <<listed, prunable, steady>>
    /\ Surveying("read")

(* The overrides of rustup are pins; one that names no channel says nothing.  *)
AskOverrides ==
    /\ step = "read" /\ files = {} /\ provider = "rustup"
    /\ IF Unresolved \in overrides THEN Fail
       ELSE /\ pins' = pins \cup overrides
            /\ UNCHANGED <<files, complete, listed, prunable, steady>>
            /\ Surveying("list")

(* What is installed, and which of it is in use.                             *)
ListInstalled ==
    /\ \/ step = "list"
       \/ step = "read" /\ files = {} /\ provider = "mise"
    /\ LET there == {t \in DOMAIN installed : installed[t].identity # 0}
       IN listed' = [t \in there |-> installed[t].active]
    /\ UNCHANGED <<files, pins, complete, prunable, steady>>
    /\ Surveying(IF provider = "mise" THEN "prunable" ELSE "judge")

(* What mise would prune: any of it, as far as this program can tell, or an  *)
(* answer with a warning, which is incomplete.                              *)
AskPrunable ==
    /\ step = "prunable"
    /\ \/ prunable' \in SUBSET DOMAIN listed /\ complete' = complete
       \/ prunable' = {} /\ complete' = FALSE
    /\ UNCHANGED <<files, pins, listed, steady>>
    /\ Surveying("judge")

(* A manager that does not answer, or answers with a warning.                *)
ManagerFails ==
    /\ step \in {"collect", "read", "list", "prunable", "usage"} /\ files = {}
    /\ Fail

-------------------------------------------------------------------------------
(* The first survey is what is shown; a fresh one decides on one candidate.  *)
SurveyDone(candidates) ==
    LET id == asked[position]
        reviewed == CHOOSE c \in recorded : c.id = id
        current == CHOOSE c \in candidates : c.id = id
        verdict == IF \E c \in candidates : c.id = id
                   THEN Clearance(reviewed, current, complete) ELSE "stale"
    IN /\ IF pass = "first"
          THEN recorded' = candidates /\ step' = "next" /\ UNCHANGED <<permit, outcomes>>
          ELSE /\ IF verdict = "clear" /\ mode = "execute"
                  THEN permit' = {id} /\ step' = "check" /\ UNCHANGED outcomes
                  ELSE Outcome(IF verdict = "clear" THEN "would-remove" ELSE verdict)
               /\ UNCHANGED recorded
       /\ UNCHANGED <<command, others, pass, position, connected, gathered,
                      removed, steady, late, changes>>

Judge ==
    /\ step = "judge"
    /\ IF \E t \in DOMAIN listed : installed[t].identity = 0 THEN Fail
       ELSE SurveyDone(ToolchainCandidates)

Verify ==
    /\ step = "collect" /\ provider = "docker"
    /\ IF engine # connected THEN Fail
       ELSE UNCHANGED <<gathered, steady>> /\ Surveying("usage")
Usage == step = "usage" /\ SurveyDone(EngineCandidates)

(* The next id that was not asked for before, if the first survey had it.    *)
ReviewNext ==
    /\ step = "next"
    /\ position' = position + 1
    /\ IF position = Len(asked)
       THEN step' = "done" /\ UNCHANGED <<pass, outcomes, permit>>
       ELSE LET id == asked[position + 1]
            IN IF \E i \in 1..position : asked[i] = id
               THEN UNCHANGED <<step, pass, outcomes, permit>>
               ELSE IF \E c \in recorded : c.id = id
                    THEN step' = "collect" /\ pass' = "fresh" /\ UNCHANGED <<outcomes, permit>>
                    ELSE Outcome("stale") /\ UNCHANGED pass
    /\ UNCHANGED <<command, others, connected, gathered, recorded, removed, steady, late, changes>>

(* The identity is compared once more, then the manager removes by name: a   *)
(* toolchain, or whatever of a kind the engine does not need just then.      *)
Permitted == CHOOSE id \in permit : TRUE
Present(id) == IF provider = "docker" THEN engine ELSE installed[id.label].identity
Check ==
    /\ step = "check"
    /\ IF Present(Permitted) = Permitted.scope
       THEN step' = "remove" /\ late' = FALSE /\ UNCHANGED <<outcomes, permit>>
       ELSE Outcome("failed") /\ UNCHANGED late
    /\ UNCHANGED <<command, others, pass, position, connected, gathered, recorded,
                   removed, steady, changes>>

Uninstalled(id) ==
    IF provider = "docker"
    THEN /\ stock' = [stock EXCEPT !.image = {i \in @ : ImageReferences(i) # "unused"},
                                   !.build_cache = @ \ {"no"}]
         /\ UNCHANGED installed
    ELSE /\ installed' = [installed EXCEPT ![id.label].identity = 0, ![id.label].active = FALSE]
         /\ UNCHANGED stock

Remove ==
    /\ step = "remove"
    /\ \/ /\ Present(Permitted) # 0
          /\ Uninstalled(Permitted)
          /\ removed' = removed \cup
               {[id |-> Permitted, was |-> Present(Permitted), late |-> late,
                 named |-> {x[2] : x \in steady}]}
          /\ Outcome("removed")
       \/ UNCHANGED <<installed, stock, removed>> /\ Outcome("failed")
    /\ UNCHANGED <<command, says, overrides, engine, pass, position, connected, gathered,
                   recorded, steady, late, changes>>

-------------------------------------------------------------------------------
(* What people do meanwhile.                                                 *)
Meanwhile ==
    /\ step \notin {"done", "failed"} /\ changes < MaxChanges
    /\ changes' = changes + 1
    /\ UNCHANGED <<command, step, pass, position, connected, gathered, recorded, permit,
                   outcomes, removed>>

(* A configuration is edited; what it and others say on stays steady.        *)
Edit(c) ==
    /\ Meanwhile /\ provider # "docker"
    /\ \E text \in Contents[c] \ {says[c]} : says' = [says EXCEPT ![c] = text]
    /\ steady' = {x \in steady : x[1] \in Configs => x[2] \in ToolPins(says', x[1])}
    /\ UNCHANGED <<overrides, installed, engine, stock, late>>

(* A directory is given a toolchain of its own, or has none any more.        *)
Override(pin) ==
    /\ Meanwhile /\ provider = "rustup"
    /\ overrides' \in {overrides \cup {pin}, overrides \ {pin}}
    /\ steady' = {x \in steady : x[1] = Overriding => x[2] \in overrides'}
    /\ UNCHANGED <<says, installed, engine, stock, late>>

(* A toolchain is installed anew, in another directory of the same name, or  *)
(* removed by hand, or made the default.                                    *)
Reinstall(t) ==
    /\ Meanwhile
    /\ \/ installed' = [installed EXCEPT ![t].identity = 2, ![t].inside = TRUE]
       \/ installed' = [installed EXCEPT ![t].identity = 0, ![t].active = FALSE]
    /\ late' = TRUE
    /\ UNCHANGED <<says, overrides, engine, stock, steady>>
MakeDefault(t) ==
    /\ Meanwhile /\ installed[t].identity # 0
    /\ installed' = [u \in DOMAIN installed |-> [installed[u] EXCEPT !.active = (u = t)]]
    /\ UNCHANGED <<says, overrides, engine, stock, steady, late>>

(* Another engine answers at the same endpoint; an image is built or used.   *)
SwapEngine ==
    /\ Meanwhile /\ provider = "docker" /\ engine' = 3 - engine /\ late' = TRUE
    /\ UNCHANGED <<says, overrides, installed, stock, steady>>
UseStock ==
    /\ Meanwhile /\ provider = "docker" /\ stock' \in Stocks \ {stock}
    /\ UNCHANGED <<says, overrides, installed, engine, steady, late>>

StoresNext ==
    \/ Collect \/ ReadNext \/ AskOverrides \/ ListInstalled \/ AskPrunable \/ ManagerFails
    \/ Judge \/ Verify \/ Usage \/ ReviewNext \/ Check \/ Remove
    \/ \E c \in Configs : Edit(c)
    \/ \E p \in {Unresolved} \cup UNION {says[c].pins : c \in Configs} : Override(p)
    \/ \E t \in DOMAIN installed : Reinstall(t) \/ MakeDefault(t)
    \/ SwapEngine \/ UseStock

StoresSpec == StoresInit /\ [][StoresNext]_stores

-------------------------------------------------------------------------------
(* What a manager is made to remove was asked for, and was at the last look  *)
(* what the person reviewed; and no file of those the survey read, and no    *)
(* override of rustup, named it, or could not be read, from before the       *)
(* survey read the first of them until it was gone (managed.rs: apply;       *)
(* toolchains.rs: survey, remove).                                           *)
ReviewedAndUnnamed ==
    \A r \in removed :
       /\ r.id \in Seqs!ToSet(asked)
       /\ r.was = r.id.scope \/ r.late
       /\ r.id.resource = "toolchain" =>
            /\ Unresolved \notin r.named
            /\ PinnedBy(r.named, r.id.label) = "unused"
===============================================================================
