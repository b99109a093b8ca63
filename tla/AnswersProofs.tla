----------------------------- MODULE AnswersProofs -----------------------------
(***************************************************************************)
(* What others answer and what is done on it.  What a manager of another   *)
(* store is made to remove was reviewed, and no configuration the survey   *)
(* read named it, whatever configurations there are and whoever edits them *)
(* or reinstalls meanwhile.  A worktree that git's answers make out to be  *)
(* landed has landed, and an answer that it has not is never kept beyond a *)
(* hook that tells of its landing, whatever the history and its contents.  *)
(* And what events tell a session of its files is enough: whatever equal   *)
(* files it knows share their blocks.                                      *)
(***************************************************************************)
EXTENDS Stores, Worktrees, Pool, Dedupe, FiniteSetTheorems, SequenceTheorems, NaturalsInduction,
        WellFoundedInduction, TLAPS

-------------------------------------------------------------------------------
(* What a reference is.                                                    *)

(* A toolchain that many pins do not name, fewer do not name.              *)
LEMMA FewerPins ==
    ASSUME NEW named, NEW more, named \subseteq more, NEW t, PinnedBy(more, t) = "unused"
    PROVE  PinnedBy(named, t) = "unused"
<1>1. ASSUME NEW tool, NEW version, Reference(more, tool, version) = "unused"
      PROVE  Reference(named, tool, version) = "unused"
  BY <1>1 DEF Reference
<1> QED BY <1>1 DEF PinnedBy

LEMMA References == \A named, t : PinnedBy(named, t) \in {"referenced", "unknown", "unused"}
BY DEF PinnedBy, Reference

(* A file that says something that cannot be known says nothing else.      *)
LEMMA UnresolvedAlone ==
    ASSUME NEW texts, NEW c, Unresolved \in ToolPins(texts, c)
    PROVE  ToolPins(texts, c) = {Unresolved}
<1>1. CASE texts[c].state = "absent"
  BY <1>1 DEF ToolPins
<1>2. CASE texts[c].state = "regular"
  BY <1>2 DEF ToolPins
<1>3. CASE texts[c].state \notin {"absent", "regular"}
  BY <1>3 DEF ToolPins
<1> QED BY <1>1, <1>2, <1>3

(* The next file is one of those that are left.                            *)
LEMMA NextFile ==
    ASSUME NEW S \in SUBSET Nat, S # {} PROVE Sets!Min(S) \in S
<1>1. PICK m \in S : \A n \in S : ~(<<n, m>> \in OpToRel(<, Nat))
  BY WFMin, NatLessThanWellFounded
<1>2. \A n \in S : m <= n
  <2>1. \A n \in S : ~(n < m)
    BY <1>1 DEF OpToRel
  <2> QED BY <2>1
<1> QED BY <1>1, <1>2 DEF Sets!Min

(* What clears a candidate.                                                *)
LEMMA ClearMeans ==
    ASSUME NEW candidate, NEW reviewed, NEW whole \in BOOLEAN,
           Clear(candidate, reviewed, whole) = "clear"
    PROVE  whole /\ candidate.references \notin {"referenced", "unknown"}
<1> DEFINE holds == [preserved |-> candidate.id.resource \in {"volume", "container"},
                     tier |-> ~granted, incomplete |-> ~whole,
                     referenced |-> candidate.references = "referenced",
                     unknown |-> candidate.references = "unknown",
                     stale |-> candidate.id # reviewed.id]
           refused == {i \in DOMAIN Refusals : holds[Refusals[i]]}
<1>1. DOMAIN Refusals = 1..6
  BY DEF Refusals
<1>2. refused = {}
  <2> SUFFICES ASSUME refused # {} PROVE FALSE
    OBVIOUS
  <2>1. refused \in SUBSET Nat
    BY <1>1, SMTT(30)
  <2>2. Sets!Min(refused) \in 1..6
    <3> HIDE DEF refused
    <3>1. Sets!Min(refused) \in refused
      BY <2>1, NextFile
    <3> QED BY <1>1, <3>1 DEF refused
  <2>3. Clear(candidate, reviewed, whole) = Refusals[Sets!Min(refused)]
    BY DEF Clear
  <2> HIDE DEF refused
  <2>4. Refusals[Sets!Min(refused)] # "clear"
    BY <2>2 DEF Refusals
  <2> QED BY <2>3, <2>4
<1>3. /\ Refusals[3] = "incomplete" /\ Refusals[4] = "referenced" /\ Refusals[5] = "unknown"
  BY DEF Refusals
<1>4. ~holds["incomplete"] /\ ~holds["referenced"] /\ ~holds["unknown"]
  BY <1>1, <1>2, <1>3
<1> QED BY <1>4

-------------------------------------------------------------------------------
(* The inductive invariant.                                                *)

Deciding == {"check", "remove"}

Shape ==
    /\ provider \in {"docker", "rustup", "mise"}
    /\ asked \in AskedIds[provider]
    /\ tracked \subseteq Elsewhere
    /\ pass \in {"first", "fresh"}
    /\ files \subseteq Configs
    /\ complete \in BOOLEAN
    /\ installed \in [DOMAIN installed ->
                        [identity : {0, 1, 2}, active : BOOLEAN, inside : BOOLEAN]]
    /\ DOMAIN listed \subseteq DOMAIN installed
    /\ step \in {"read", "list", "prunable", "judge"} => provider # "docker"
    /\ step = "usage" => provider = "docker"

(* A removal is about the id whose turn it is.                             *)
InTurn ==
    /\ position \in Nat
    /\ step # "done" => position <= Len(asked)
    /\ pass = "fresh" => position > 0
    /\ step \in Deciding => pass = "fresh" /\ permit = {asked[position]}

(* What the files and the overrides have said since before the first of     *)
(* them was read, and say still, is still to be read or is known.           *)
SteadyIsKnown ==
    provider # "docker" =>
      /\ step \in {"list", "prunable", "judge"} \cup Deciding => files = {}
      /\ step \in {"read", "list", "prunable", "judge"} \cup Deciding =>
         \A x \in steady :
           IF step = "read" /\ x[1] = Overriding THEN provider = "rustup" /\ x[2] \in overrides
           ELSE IF x[1] \in files THEN x[2] \in ToolPins(says, x[1])
           ELSE IF x[2] = Unresolved THEN ~complete ELSE x[2] \in pins

(* What may be removed is named by nothing that is known.                  *)
PermitIsUnnamed ==
    step \in Deciding =>
      \A id \in permit :
        IF provider = "docker" THEN id.resource # "toolchain"
        ELSE complete /\ id.label \in DOMAIN installed /\ PinnedBy(pins, id.label) = "unused"

(* It is the one that was reviewed, or another since the last look.        *)
PermitIsThere ==
    step = "remove" /\ ~late => \A id \in permit : Present(id) = id.scope

IInv == Shape /\ InTurn /\ SteadyIsKnown /\ PermitIsUnnamed /\ PermitIsThere /\ ReviewedAndUnnamed

(* An id whose turn it is was asked for.                                   *)
LEMMA AskedFor ==
    ASSUME Shape
    PROVE  /\ Len(asked) \in Nat
           /\ \A i \in Nat : i > 0 /\ i <= Len(asked) => asked[i] \in Seqs!ToSet(asked)
<1>1. asked \in Seq({asked[i] : i \in DOMAIN asked})
  BY ConfigsAssumption DEF Shape
<1> QED BY <1>1 DEF Seqs!ToSet

LEMMA Starts == ASSUME StoresInit PROVE IInv
<1>1. /\ provider \in {"docker", "rustup", "mise"} /\ asked \in AskedIds[provider]
      /\ tracked \subseteq Elsewhere /\ pass = "first" /\ files = {} /\ complete = TRUE
      /\ listed = <<>> /\ step = "collect" /\ position = 0 /\ removed = {}
  BY DEF StoresInit
<1>2. installed \in [DOMAIN installed ->
                       [identity : {0, 1, 2}, active : BOOLEAN, inside : BOOLEAN]]
  <2>1. PICK T : installed \in [T -> [identity : {1}, active : {FALSE}, inside : BOOLEAN]]
    BY DEF StoresInit
  <2> QED BY <2>1
<1>3. DOMAIN listed = {}
  BY <1>1
<1>4. Shape
  BY <1>1, <1>2, <1>3 DEF Shape
<1> QED BY <1>1, <1>4, AskedFor
  DEF IInv, InTurn, SteadyIsKnown, PermitIsUnnamed, PermitIsThere, ReviewedAndUnnamed, Deciding

-------------------------------------------------------------------------------
(* Every step keeps it.                                                    *)

LEMMA RemovedStays ==
    ASSUME ReviewedAndUnnamed, UNCHANGED <<provider, asked, removed>>
    PROVE  ReviewedAndUnnamed'
BY DEF ReviewedAndUnnamed, PinnedBy

(* Between one candidate and the next there is nothing to keep.            *)
LEMMA Rests ==
    ASSUME IInv, step # "done", step' \in {"next", "failed", "collect"},
           UNCHANGED <<command, installed, pass, position, gathered, removed>>
    PROVE  IInv'
<1>1. UNCHANGED <<provider, asked, tracked, installed, pass, position, files, complete, listed,
                  removed>>
  BY DEF command, gathered
<1>2. Shape' /\ ReviewedAndUnnamed'
  BY <1>1, RemovedStays DEF IInv, Shape
<1> QED BY <1>1, <1>2 DEF IInv, InTurn, SteadyIsKnown, PermitIsUnnamed, PermitIsThere, Deciding

LEMMA FailKeeps ==
    ASSUME IInv, step # "done", Fail PROVE IInv'
<1>1. step' \in {"next", "failed"}
  BY DEF Fail, Outcome
<1> QED BY <1>1, Rests DEF Fail, others

(* The steps of a survey.                                                  *)
LEMMA Surveys ==
    ASSUME IInv, step # "done", NEW next, Surveying(next),
           next \in {"read", "list", "prunable", "judge", "usage"},
           Shape', SteadyIsKnown'
    PROVE  IInv'
<1>1. /\ step' = next
      /\ UNCHANGED <<provider, asked, position, pass, removed>>
  BY DEF Surveying, command
<1> QED BY <1>1, RemovedStays DEF IInv, InTurn, PermitIsUnnamed, PermitIsThere, Deciding

LEMMA CollectKeeps == ASSUME IInv, Collect PROVE IInv'
<1>1. CASE Fail
  BY <1>1, FailKeeps DEF Collect
<1>2. CASE ~Fail
  <2>1. /\ step = "collect" /\ provider # "docker"
        /\ files' = {c \in Walked : says[c].state # "absent"} \cup tracked
        /\ complete' = TRUE /\ listed' = <<>>
        /\ \/ steady' = {}
           \/ steady' = {x \in files' \X UNION {ToolPins(says, c) : c \in files'} :
                            x[2] \in ToolPins(says, x[1])}
                         \cup IF provider = "rustup" THEN {Overriding} \X overrides ELSE {}
        /\ Surveying("read")
    BY <1>2 DEF Collect
  <2>2. /\ step' = "read"
        /\ UNCHANGED <<provider, asked, tracked, pass, installed, says, overrides>>
    BY <2>1 DEF Surveying, command, others
  <2>3. DOMAIN listed' = {}
    BY <2>1
  <2>4. Shape'
    BY <2>1, <2>2, <2>3 DEF IInv, Shape, Configs
  <2>5. \A x \in steady' :
          IF x[1] = Overriding THEN provider = "rustup" /\ x[2] \in overrides
          ELSE x[1] \in files' /\ x[2] \in ToolPins(says, x[1])
    <3>1. Overriding \notin files'
      BY <2>4, ConfigsAssumption DEF Shape
    <3>2. ASSUME NEW x \in steady'
          PROVE  \/ x[1] \in files' /\ x[2] \in ToolPins(says, x[1])
                 \/ provider = "rustup" /\ x[1] = Overriding /\ x[2] \in overrides
      BY <2>1
    <3> QED BY <3>1, <3>2
  <2>6. \A c : ToolPins(says, c)' = ToolPins(says, c)
    BY <2>2
  <2>7. SteadyIsKnown'
    BY <2>2, <2>5 DEF SteadyIsKnown, Deciding
  <2> QED BY <2>1, <2>4, <2>7, Surveys
<1> QED BY <1>1, <1>2

(* A file that is read is known.                                           *)
LEMMA ReadKeeps == ASSUME IInv, ReadNext PROVE IInv'
<1> DEFINE c == Sets!Min(files)
           said == ToolPins(says, c)
<1>1. /\ step = "read" /\ files' = files \ {c}
      /\ pins' = IF Unresolved \in said THEN pins ELSE pins \cup said
      /\ complete' = (complete /\ Unresolved \notin said)
      /\ UNCHANGED <<listed, prunable, steady>>
      /\ Surveying("read") /\ files # {}
  BY DEF ReadNext
<1>2. c \in files
  <2>1. files \in SUBSET Nat
    BY ConfigsAssumption DEF IInv, Shape
  <2> QED BY <1>1, <2>1, NextFile
<1>3. /\ step' = "read"
      /\ UNCHANGED <<provider, asked, tracked, pass, installed, says, overrides>>
  BY <1>1 DEF Surveying, command, others
<1>4. Shape'
  BY <1>1, <1>3 DEF IInv, Shape
<1>5. Unresolved \in said => said = {Unresolved}
  BY UnresolvedAlone
<1>6. complete \in BOOLEAN /\ provider # "docker"
  BY <1>1 DEF IInv, Shape
<1>7. ASSUME NEW x \in steady
      PROVE  IF x[1] = Overriding THEN provider = "rustup" /\ x[2] \in overrides
             ELSE IF x[1] \in files' THEN x[2] \in ToolPins(says, x[1])
             ELSE IF x[2] = Unresolved THEN ~complete' ELSE x[2] \in pins'
  <2>1. IF x[1] = Overriding THEN provider = "rustup" /\ x[2] \in overrides
        ELSE IF x[1] \in files THEN x[2] \in ToolPins(says, x[1])
        ELSE IF x[2] = Unresolved THEN ~complete ELSE x[2] \in pins
    BY <1>1, <1>6 DEF IInv, SteadyIsKnown
  <2>2. CASE x[1] = c
    <3>1. x[2] \in said /\ x[1] \notin files' /\ x[1] # Overriding
      <4>1. c # Overriding
        BY <1>2, ConfigsAssumption DEF IInv, Shape
      <4> QED BY <1>1, <1>2, <2>1, <2>2, <4>1
    <3> HIDE DEF said, c
    <3> QED BY <1>1, <1>5, <3>1
  <2>3. CASE x[1] # c
    <3> HIDE DEF said, c
    <3> QED BY <1>1, <2>1, <2>3
  <2> QED BY <2>2, <2>3
<1>8. SteadyIsKnown'
  <2> HIDE DEF c, said
  <2> QED BY <1>1, <1>3, <1>7 DEF SteadyIsKnown, Deciding
<1> QED BY <1>1, <1>4, <1>8, Surveys

LEMMA AskOverridesKeeps == ASSUME IInv, AskOverrides PROVE IInv'
<1>1. CASE Fail
  BY <1>1, FailKeeps DEF AskOverrides
<1>2. CASE ~Fail
  <2>1. /\ step = "read" /\ files = {} /\ pins' = pins \cup overrides
        /\ Unresolved \notin overrides /\ UNCHANGED <<files, complete, listed, prunable, steady>>
        /\ Surveying("list")
    BY <1>2 DEF AskOverrides
  <2>2. step' = "list" /\ UNCHANGED <<provider, asked, tracked, pass, installed, says>>
    BY <2>1 DEF Surveying, command, others
  <2>3. Shape'
    BY <2>1, <2>2 DEF IInv, Shape
  <2>4. SteadyIsKnown'
    <3>1. \A x \in steady : IF x[2] = Unresolved THEN ~complete ELSE x[2] \in pins'
      BY <2>1 DEF IInv, Shape, SteadyIsKnown
    <3> QED BY <2>1, <2>2, <3>1 DEF SteadyIsKnown, Deciding
  <2> QED BY <2>1, <2>3, <2>4, Surveys
<1> QED BY <1>1, <1>2

LEMMA ListKeeps == ASSUME IInv, ListInstalled PROVE IInv'
<1> DEFINE there == {t \in DOMAIN installed : installed[t].identity # 0}
           next == IF provider = "mise" THEN "prunable" ELSE "judge"
<1>1. /\ step = "list" \/ (step = "read" /\ files = {} /\ provider = "mise")
      /\ listed' = [t \in there |-> installed[t].active]
      /\ UNCHANGED <<files, pins, complete, prunable, steady>>
      /\ Surveying(next)
  BY DEF ListInstalled
<1>2. step' = next /\ UNCHANGED <<provider, asked, tracked, pass, installed, says>>
  BY <1>1 DEF Surveying, command, others
<1>3. DOMAIN listed' \subseteq DOMAIN installed
  BY <1>1
<1>4. Shape'
  BY <1>1, <1>2, <1>3 DEF IInv, Shape
<1>5. SteadyIsKnown'
  BY <1>1, <1>2 DEF IInv, SteadyIsKnown, Deciding
<1> QED BY <1>1, <1>4, <1>5, Surveys

LEMMA PrunableKeeps == ASSUME IInv, AskPrunable PROVE IInv'
<1>1. /\ step = "prunable" /\ (complete' = complete \/ complete' = FALSE)
      /\ UNCHANGED <<files, pins, listed, steady>>
      /\ Surveying("judge")
  BY DEF AskPrunable
<1>2. step' = "judge" /\ UNCHANGED <<provider, asked, tracked, pass, installed, says>>
  BY <1>1 DEF Surveying, command, others
<1>3. Shape'
  BY <1>1, <1>2 DEF IInv, Shape
<1>4. SteadyIsKnown'
  BY <1>1, <1>2 DEF IInv, SteadyIsKnown, Deciding
<1> QED BY <1>1, <1>3, <1>4, Surveys

LEMMA VerifyKeeps == ASSUME IInv, Verify PROVE IInv'
<1>1. CASE Fail
  BY <1>1, FailKeeps DEF Verify
<1>2. CASE ~Fail
  <2>1. step = "collect" /\ provider = "docker" /\ UNCHANGED <<gathered, steady>>
        /\ Surveying("usage")
    BY <1>2 DEF Verify
  <2>2. step' = "usage" /\ UNCHANGED <<provider, asked, tracked, pass, installed, says>>
    BY <2>1 DEF Surveying, command, others
  <2>3. Shape'
    BY <2>1, <2>2 DEF IInv, Shape, gathered
  <2>4. SteadyIsKnown'
    BY <2>1, <2>2 DEF SteadyIsKnown
  <2> QED BY <2>1, <2>3, <2>4, Surveys
<1> QED BY <1>1, <1>2

(* What a survey clears is one of its candidates.                          *)
LEMMA ClearedIsThere ==
    ASSUME IInv, step \in {"judge", "usage"}, NEW surveyed, SurveyDone(surveyed),
           \A c \in surveyed :
             c.references \notin {"referenced", "unknown"} =>
               IF provider = "docker" THEN c.id.resource # "toolchain"
               ELSE /\ c.id.label \in DOMAIN installed
                    /\ PinnedBy(pins, c.id.label) = "unused"
    PROVE  IInv'
<1> DEFINE id == asked[position]
           reviewed == CHOOSE c \in recorded : c.id = id
           current == CHOOSE c \in surveyed : c.id = id
           verdict == IF \E c \in surveyed : c.id = id
                      THEN Clearance(reviewed, current, complete) ELSE "stale"
<1>1. /\ step' \in {"next", "check"}
      /\ step' = "check" =>
           pass = "fresh" /\ verdict = "clear" /\ permit' = {id}
      /\ UNCHANGED <<command, others, pass, position, gathered, removed, steady>>
  <2>1. CASE pass = "first"
    BY <2>1 DEF SurveyDone
  <2>2. CASE pass # "first"
    <3>1. pass = "fresh"
      BY <2>2 DEF IInv, Shape
    <3> QED BY <2>2, <3>1 DEF SurveyDone, Outcome
  <2> QED BY <2>1, <2>2
<1>2. CASE step' = "next"
  BY <1>1, <1>2, Rests DEF others
<1>3. CASE step' = "check"
  <2>1. UNCHANGED <<provider, asked, tracked, installed, pass, position, files, pins, complete,
                    listed, removed, steady, says>>
    BY <1>1 DEF command, gathered, others
  <2>2. pass = "fresh" /\ verdict = "clear" /\ permit' = {id}
    BY <1>1, <1>3
  <2>3. \E c \in surveyed : c.id = id
    BY <2>2
  <2>4. current \in surveyed /\ current.id = id
    BY <2>3
  <2>5. Clear(current, reviewed, complete) = "clear"
    BY <2>2, <2>3 DEF Clearance
  <2>6. complete /\ current.references \notin {"referenced", "unknown"}
    <3> HIDE DEF current, reviewed
    <3> QED BY <2>5, ClearMeans DEF IInv, Shape
  <2>7. IF provider = "docker" THEN id.resource # "toolchain"
        ELSE complete /\ id.label \in DOMAIN installed /\ PinnedBy(pins, id.label) = "unused"
    <3> HIDE DEF id, current, reviewed
    <3> QED BY <2>4, <2>6
  <2>8. \A t : PinnedBy(pins, t)' = PinnedBy(pins, t)
    BY <2>1 DEF PinnedBy
  <2>9. PermitIsUnnamed'
    <3> HIDE DEF id
    <3> QED BY <2>1, <2>2, <2>7, <2>8 DEF PermitIsUnnamed
  <2>10. Shape' /\ InTurn' /\ ReviewedAndUnnamed'
    BY <1>3, <2>1, <2>2, RemovedStays DEF IInv, Shape, InTurn, Deciding
  <2>11. SteadyIsKnown'
    <3>1. provider # "docker" => step = "judge"
      BY DEF IInv, Shape
    <3> QED BY <1>3, <2>1, <3>1 DEF IInv, SteadyIsKnown, Deciding
  <2>12. PermitIsThere'
    BY <1>3 DEF PermitIsThere
  <2> QED BY <2>9, <2>10, <2>11, <2>12 DEF IInv
<1> QED BY <1>1, <1>2, <1>3

LEMMA JudgeKeeps == ASSUME IInv, Judge PROVE IInv'
<1>1. CASE Fail
  BY <1>1, FailKeeps DEF Judge
<1>2. CASE ~Fail
  <2>1. step = "judge" /\ provider # "docker" /\ SurveyDone(ToolchainCandidates)
    BY <1>2 DEF Judge, IInv, Shape
  <2>2. ASSUME NEW c \in ToolchainCandidates, c.references \notin {"referenced", "unknown"}
        PROVE  c.id.label \in DOMAIN installed /\ PinnedBy(pins, c.id.label) = "unused"
    <3>1. PICK t \in DOMAIN listed : c.id.label = t /\ c.references = ReferencesOf(t)
      BY DEF ToolchainCandidates, Candidate, Id
    <3>2. t \in DOMAIN installed
      BY DEF IInv, Shape
    <3>3. PinnedBy(pins, t) \notin {"referenced", "unknown"}
      BY <2>2, <3>1 DEF ReferencesOf
    <3> QED BY <3>1, <3>2, <3>3, References
  <2> HIDE DEF IInv
  <2> QED BY <2>1, <2>2, ClearedIsThere
<1> QED BY <1>1, <1>2

LEMMA UsageKeeps == ASSUME IInv, Usage PROVE IInv'
<1>1. step = "usage" /\ provider = "docker" /\ SurveyDone(EngineCandidates)
  BY DEF Usage, IInv, Shape
<1>2. \A c \in EngineCandidates : c.id.resource # "toolchain"
  BY DEF EngineCandidates, Candidate, Id
<1> QED BY <1>1, <1>2, ClearedIsThere

(* The next id is one of those that were asked for.                        *)
LEMMA ReviewKeeps == ASSUME IInv, ReviewNext PROVE IInv'
<1>1. /\ step = "next" /\ position' = position + 1
      /\ UNCHANGED <<provider, asked, tracked, installed, files, complete, listed, removed>>
      /\ pass' = pass \/ pass' = "fresh"
      /\ step' \in {"done", "next", "collect"}
      /\ step' # "done" => position # Len(asked)
  BY DEF ReviewNext, Outcome, command, others, gathered
<1>2. Len(asked) \in Nat
  BY AskedFor DEF IInv
<1>3. Shape' /\ ReviewedAndUnnamed'
  BY <1>1, RemovedStays DEF IInv, Shape
<1>4. InTurn'
  BY <1>1, <1>2 DEF IInv, InTurn, Deciding
<1> QED BY <1>1, <1>3, <1>4
  DEF IInv, SteadyIsKnown, PermitIsUnnamed, PermitIsThere, Deciding

(* The removal is of the id whose turn it is.                              *)
LEMMA ThePermitted ==
    ASSUME IInv, step \in Deciding PROVE permit = {Permitted} /\ Permitted = asked[position]
BY DEF IInv, InTurn, Permitted

LEMMA CheckKeeps == ASSUME IInv, Check PROVE IInv'
<1>1. step = "check" /\ UNCHANGED <<command, others, pass, position, gathered, removed, steady>>
  BY DEF Check
<1>2. CASE step' = "next"
  BY <1>1, <1>2, Rests DEF others
<1>3. CASE step' # "next"
  <2>1. /\ Present(Permitted) = Permitted.scope /\ step' = "remove" /\ late' = FALSE
        /\ UNCHANGED permit
    BY <1>3 DEF Check, Outcome
  <2>2. permit = {Permitted}
    BY <1>1, ThePermitted DEF Deciding
  <2>3. UNCHANGED <<provider, asked, tracked, installed, engine, pass, position, files, pins,
                    complete, listed, removed, steady, says>>
    BY <1>1 DEF command, gathered, others
  <2>4. \A t : PinnedBy(pins, t)' = PinnedBy(pins, t)
    BY <2>3 DEF PinnedBy
  <2>5. Shape' /\ InTurn' /\ SteadyIsKnown' /\ ReviewedAndUnnamed'
    BY <1>1, <2>1, <2>3, RemovedStays DEF IInv, Shape, InTurn, SteadyIsKnown, Deciding
  <2>6. PermitIsUnnamed'
    BY <1>1, <2>1, <2>3, <2>4 DEF IInv, PermitIsUnnamed, Deciding
  <2>7. \A id : Present(id)' = Present(id)
    BY <2>3 DEF Present
  <2>8. PermitIsThere'
    BY <2>1, <2>2, <2>7 DEF PermitIsThere
  <2> QED BY <2>5, <2>6, <2>8 DEF IInv
<1> QED BY <1>2, <1>3

(* What is removed was asked for, and named by nothing that stayed.        *)
LEMMA RemoveKeeps == ASSUME IInv, Remove PROVE IInv'
<1> DEFINE r == [id |-> Permitted, was |-> Present(Permitted), late |-> late,
                 named |-> {x[2] : x \in steady}]
<1>1. /\ step = "remove" /\ step' = "next"
      /\ UNCHANGED <<provider, asked, tracked, pass, position, files, complete, listed>>
  BY DEF Remove, Outcome, command, gathered
<1>2. /\ removed' = removed \/ removed' = removed \cup {r}
      /\ \/ UNCHANGED installed
         \/ /\ provider # "docker"
            /\ installed' = [installed EXCEPT ![Permitted.label].identity = 0,
                                             ![Permitted.label].active = FALSE]
  BY DEF Remove, Uninstalled
<1>3. permit = {Permitted} /\ Permitted = asked[position]
  BY <1>1, ThePermitted DEF Deciding
<1>4. Permitted \in Seqs!ToSet(asked)
  <2>1. position \in Nat /\ position > 0 /\ position <= Len(asked)
    BY <1>1 DEF IInv, InTurn, Deciding
  <2> QED BY <1>3, <2>1, AskedFor DEF IInv
<1>5. r.was = r.id.scope \/ r.late
  <2>1. late \/ Present(Permitted) = Permitted.scope
    BY <1>1, <1>3 DEF IInv, PermitIsThere
  <2> QED BY <2>1
<1>6. ASSUME r.id.resource = "toolchain"
      PROVE  Unresolved \notin r.named /\ PinnedBy(r.named, r.id.label) = "unused"
  <2>1. /\ provider # "docker" /\ complete
        /\ PinnedBy(pins, Permitted.label) = "unused"
    BY <1>1, <1>3, <1>6 DEF IInv, PermitIsUnnamed, Deciding
  <2>2. \A x \in steady : IF x[2] = Unresolved THEN ~complete ELSE x[2] \in pins
    BY <1>1, <2>1 DEF IInv, SteadyIsKnown, Deciding
  <2>3. Unresolved \notin r.named /\ r.named \subseteq pins
    BY <2>1, <2>2
  <2> HIDE DEF r
  <2>4. r.id = Permitted
    BY DEF r
  <2> QED BY <2>1, <2>3, <2>4, FewerPins
<1> HIDE DEF r
<1>7. ReviewedAndUnnamed'
  <2>1. \A named, t : PinnedBy(named, t)' = PinnedBy(named, t)
    BY <1>1 DEF PinnedBy
  <2>2. r.id \in Seqs!ToSet(asked)
    BY <1>4 DEF r
  <2> QED BY <1>1, <1>2, <1>5, <1>6, <2>1, <2>2 DEF IInv, ReviewedAndUnnamed
<1>8. Shape'
  <2>1. /\ DOMAIN installed' = DOMAIN installed
        /\ installed' \in [DOMAIN installed ->
                             [identity : {0, 1, 2}, active : BOOLEAN, inside : BOOLEAN]]
    BY <1>2 DEF IInv, Shape
  <2> QED BY <1>1, <2>1 DEF IInv, Shape
<1> QED BY <1>1, <1>7, <1>8
  DEF IInv, InTurn, SteadyIsKnown, PermitIsUnnamed, PermitIsThere, Deciding

-------------------------------------------------------------------------------
(* What people do takes nothing from it: what is edited away is not steady. *)
LEMMA MeanwhileKeeps ==
    ASSUME IInv, Meanwhile,
           DOMAIN installed' = DOMAIN installed,
           installed' \in [DOMAIN installed ->
                            [identity : {0, 1, 2}, active : BOOLEAN, inside : BOOLEAN]],
           \A x \in steady' : x \in steady /\
             (x[1] \in Configs =>
                (x[2] \in ToolPins(says, x[1]) => x[2] \in ToolPins(says', x[1]))) /\
             (x[1] = Overriding => (x[2] \in overrides => x[2] \in overrides')),
           late' \/ (/\ UNCHANGED late
                     /\ step = "remove" => \A id \in permit : Present(id)' = Present(id))
    PROVE  IInv'
<1>1. UNCHANGED <<provider, asked, tracked, step, pass, position, files, pins, complete,
                  listed, permit, removed>>
  BY DEF Meanwhile, command, gathered
<1>2. \A t : PinnedBy(pins, t)' = PinnedBy(pins, t)
  BY <1>1 DEF PinnedBy
<1>3. Shape' /\ ReviewedAndUnnamed'
  BY <1>1, RemovedStays DEF IInv, Shape
<1>4. InTurn'
  BY <1>1 DEF IInv, InTurn
<1>5. PermitIsUnnamed'
  BY <1>1, <1>2 DEF IInv, PermitIsUnnamed
<1>6. PermitIsThere'
  BY <1>1 DEF IInv, PermitIsThere
<1>7. SteadyIsKnown'
  <2>1. \A x \in steady' : x \in steady
    OBVIOUS
  <2>2. \A x \in steady' : x[1] \in files =>
          (x[2] \in ToolPins(says, x[1]) => x[2] \in ToolPins(says', x[1]))
    <3>1. \A c \in files : c \in Configs
      BY DEF IInv, Shape
    <3> QED BY <3>1
  <2>3. \A c : ToolPins(says, c)' = ToolPins(says', c)
    BY DEF ToolPins, WorkspaceMsrv
  <2>4. \A x \in steady' : x[1] = Overriding => (x[2] \in overrides => x[2] \in overrides')
    OBVIOUS
  <2> QED BY <1>1, <2>1, <2>2, <2>3, <2>4 DEF IInv, SteadyIsKnown
<1> QED BY <1>3, <1>4, <1>5, <1>6, <1>7 DEF IInv

(* What does not change what is installed, or the engine.                  *)
LEMMA StillPresent ==
    ASSUME UNCHANGED <<provider, installed, engine>>
    PROVE  \A id : Present(id)' = Present(id)
BY DEF Present

LEMMA PeopleKeep ==
    ASSUME IInv,
           \/ \E c \in Configs : Edit(c)
           \/ \E p \in {Unresolved} \cup UNION {says[c].pins : c \in Configs} : Override(p)
           \/ \E t \in DOMAIN installed : Reinstall(t) \/ MakeDefault(t)
           \/ SwapEngine
           \/ UseStock
    PROVE  IInv'
<1>1. installed \in [DOMAIN installed ->
                       [identity : {0, 1, 2}, active : BOOLEAN, inside : BOOLEAN]]
  BY DEF IInv, Shape
<1>2. ASSUME NEW c \in Configs, Edit(c) PROVE IInv'
  <2>1. /\ Meanwhile /\ UNCHANGED <<overrides, installed, engine, late>>
        /\ steady' = {x \in steady : x[1] \in Configs => x[2] \in ToolPins(says', x[1])}
    BY <1>2 DEF Edit
  <2>2. UNCHANGED provider
    BY <2>1 DEF Meanwhile, command
  <2> QED BY <1>1, <2>1, <2>2, StillPresent, MeanwhileKeeps
<1>3. ASSUME UNCHANGED <<steady, says, overrides>>, Meanwhile,
             UNCHANGED <<installed, engine, late>>
      PROVE  IInv'
  <2>1. UNCHANGED provider
    BY <1>3 DEF Meanwhile, command
  <2> QED BY <1>1, <1>3, <2>1, StillPresent, MeanwhileKeeps
<1>4. ASSUME NEW p, Override(p) PROVE IInv'
  <2>1. /\ Meanwhile /\ UNCHANGED <<says, installed, engine, late>>
        /\ steady' = {x \in steady : x[1] = Overriding => x[2] \in overrides'}
    BY <1>4 DEF Override
  <2>2. UNCHANGED provider
    BY <2>1 DEF Meanwhile, command
  <2> QED BY <1>1, <2>1, <2>2, StillPresent, MeanwhileKeeps
<1>5. ASSUME UseStock PROVE IInv'
  BY <1>3, <1>5 DEF UseStock
<1>6. ASSUME SwapEngine PROVE IInv'
  <2>1. Meanwhile /\ UNCHANGED <<installed, steady, says, overrides>> /\ late' = TRUE
    BY <1>6 DEF SwapEngine
  <2> QED BY <1>1, <2>1, MeanwhileKeeps
<1>7. ASSUME NEW t \in DOMAIN installed, Reinstall(t) PROVE IInv'
  <2>1. Meanwhile /\ UNCHANGED <<steady, says, overrides>> /\ late' = TRUE
    BY <1>7 DEF Reinstall
  <2>2. /\ DOMAIN installed' = DOMAIN installed
        /\ installed' \in [DOMAIN installed ->
                             [identity : {0, 1, 2}, active : BOOLEAN, inside : BOOLEAN]]
    <3>1. CASE installed' = [installed EXCEPT ![t].identity = 2, ![t].inside = TRUE]
      BY <1>1, <3>1
    <3>2. CASE installed' = [installed EXCEPT ![t].identity = 0, ![t].active = FALSE]
      BY <1>1, <3>2
    <3> QED BY <1>7, <3>1, <3>2 DEF Reinstall
  <2> QED BY <2>1, <2>2, MeanwhileKeeps, SMTT(20)
<1>8. ASSUME NEW t \in DOMAIN installed, MakeDefault(t) PROVE IInv'
  <2>1. /\ Meanwhile /\ UNCHANGED <<steady, says, overrides, late, engine>>
        /\ installed' = [u \in DOMAIN installed |-> [installed[u] EXCEPT !.active = (u = t)]]
    BY <1>8 DEF MakeDefault
  <2>2. UNCHANGED <<provider, step>>
    BY <2>1 DEF Meanwhile, command
  <2>3. /\ DOMAIN installed' = DOMAIN installed
        /\ installed' \in [DOMAIN installed ->
                             [identity : {0, 1, 2}, active : BOOLEAN, inside : BOOLEAN]]
        /\ \A u \in DOMAIN installed : installed'[u].identity = installed[u].identity
    BY <1>1, <2>1
  <2>4. ASSUME step = "remove", NEW id \in permit PROVE Present(id)' = Present(id)
    <3>1. provider = "docker" \/ id.label \in DOMAIN installed
      BY <2>4 DEF IInv, PermitIsUnnamed, Deciding
    <3> QED BY <2>1, <2>2, <2>3, <3>1 DEF Present
  <2> QED BY <2>1, <2>3, <2>4, MeanwhileKeeps
<1> QED BY <1>2, <1>4, <1>5, <1>6, <1>7, <1>8

LEMMA NextKeeps == ASSUME IInv, StoresNext PROVE IInv'
<1>1. CASE ManagerFails
  <2>1. step # "done" /\ Fail
    BY <1>1 DEF ManagerFails
  <2> QED BY <2>1, FailKeeps
<1> QED BY <1>1, CollectKeeps, ReadKeeps, AskOverridesKeeps, ListKeeps, PrunableKeeps, JudgeKeeps,
           VerifyKeeps, UsageKeeps, ReviewKeeps, CheckKeeps, RemoveKeeps, PeopleKeep
  DEF StoresNext

LEMMA StutterKeeps == ASSUME IInv, UNCHANGED stores PROVE IInv'
<1>1. UNCHANGED <<provider, asked, tracked, says, overrides, installed, engine, step, pass,
                  position, files, pins, complete, listed, permit, removed, steady, late>>
  BY DEF stores, command, others, gathered
<1>2. \A named, t : PinnedBy(named, t)' = PinnedBy(named, t)
  BY <1>1 DEF PinnedBy
<1>3. \A c : ToolPins(says, c)' = ToolPins(says, c)
  BY <1>1
<1>4. \A id : Present(id)' = Present(id)
  BY <1>1 DEF Present
<1>5. Shape' /\ InTurn' /\ PermitIsThere'
  BY <1>1, <1>4 DEF IInv, Shape, InTurn, PermitIsThere
<1>6. SteadyIsKnown'
  BY <1>1, <1>3 DEF IInv, SteadyIsKnown
<1>7. PermitIsUnnamed'
  BY <1>1, <1>2 DEF IInv, PermitIsUnnamed
<1>8. ReviewedAndUnnamed'
  BY <1>1, RemovedStays DEF IInv
<1> QED BY <1>5, <1>6, <1>7, <1>8 DEF IInv

(* What rustup, mise or an engine is made to remove was asked for, was what *)
(* was reviewed at the last look before, and was named by no configuration *)
(* that the survey read, and by no override of rustup, from before it read  *)
(* the first until the removal; whatever people write and reinstall         *)
(* between (managed.rs: apply).                                            *)
THEOREM OnlyUnnamedIsRemoved == StoresSpec => []ReviewedAndUnnamed
<1>1. StoresInit => IInv
  BY Starts
<1>2. IInv /\ [StoresNext]_stores => IInv'
  BY NextKeeps, StutterKeeps
<1>3. IInv => ReviewedAndUnnamed
  BY DEF IInv
<1> QED BY <1>1, <1>2, <1>3, PTL DEF StoresSpec

-------------------------------------------------------------------------------
(* Worktrees.                                                               *)

Commit == [parents : Seq(Nat), tree : Trees, all : SUBSET Nat, line : SUBSET Nat]
Questions == {"idle", "status", "ancestor", "base", "changed", "default", "touching", "contained"}

LandingTypes ==
    /\ commits \in Seq(Commit) /\ head \in DOMAIN commits
    /\ main \in {0} \cup DOMAIN commits /\ branch \in {0} \cup DOMAIN commits
    /\ edited \in BOOLEAN /\ woken \in BOOLEAN /\ unheard \in BOOLEAN
    /\ tips \in SUBSET DOMAIN commits /\ asking \in Questions
    /\ link \in {"there", "gone", "unreadable"}

(* A commit holds itself and what it comes from, all of it, and its line is  *)
(* part of that.                                                            *)
Rooted ==
    /\ commits # <<>>
    /\ \A c \in DOMAIN commits :
         /\ c \in commits[c].all /\ commits[c].all \subseteq 1..c
         /\ commits[c].line \subseteq commits[c].all
         /\ \A d \in commits[c].all : commits[d].all \subseteq commits[c].all

MainIsATip == main # 0 => main \in tips
NothingKeptWhileAsking == asking # "idle" => cached = "none"

(* What was learnt so far is what git would say again, unless a move was      *)
(* heard of or is one that no hook tells.                                   *)
Learnt ==
    /\ link = "there"
    /\ asking # "status" =>
         status = [dirty |-> edited, head |-> HeadOf(detached, upstream, branch)]
    /\ asking \notin {"status", "ancestor"} => main # 0 /\ ~IsAncestor(head, main)
    /\ asking \notin {"status", "ancestor", "base"} => base \in MergeBases(head, main)
    /\ asking \in {"default", "touching", "contained"} =>
         differing = ChangedSince(base, head) /\ differing # {}
    /\ asking \in {"touching", "contained"} => ~Contained(main, differing)
    /\ asking = "contained" =>
         \A c \in Touching(base, main, FirstOf(differing)) :
            c \in candidates \/ ~Contained(c, differing)
    /\ asking = "contained" => candidates \subseteq Touching(base, main, FirstOf(differing))
LearntIsSo == (asking # "idle" /\ ~woken /\ ~unheard) => Learnt

(* Landed: HEAD came into the default branch, or each of its paths did.       *)
Landed ==
    /\ ~edited
    /\ (\E t \in tips : head \in commits[t].all) \/ (\A p \in Paths : IsThere(p))
LandedIsSo ==
    (/\ cached = "landed" /\ ~woken /\ ~unheard
     /\ HeadOf(detached, upstream, branch) # "upstream-gone") => Landed

LandingInv ==
    /\ LandingTypes /\ Rooted /\ MainIsATip /\ NothingKeptWhileAsking
    /\ LearntIsSo /\ LandedIsSo /\ LandingIsHeard

(* Whatever moved without a word of it moved nothing that was learnt.         *)
Still ==
    /\ UNCHANGED <<commits, head, detached, upstream, edited, link, main>>
    /\ UNCHANGED <<asking, learnt, cached>>
    /\ (woken => woken') /\ (unheard => unheard') /\ tips \subseteq tips'
    /\ HeadOf(detached', upstream', branch') = HeadOf(detached, upstream, branch)

People == Work \/ EditTree \/ Checkout \/ Merge \/ Fetch \/ CalledOff \/ Removed
Questioning ==
    \/ Begin \/ Status \/ AskAncestor \/ AskBase \/ AskChanged \/ AskDefault \/ AskTouching
    \/ AskContained \/ GitFails \/ ForgetAnswers

-------------------------------------------------------------------------------
(* A new commit leaves the others as they are and is rooted in them.          *)
LEMMA CommittedIsRooted ==
    ASSUME LandingTypes, Rooted,
           NEW parents \in Seq(DOMAIN commits), parents # <<>>, NEW tree \in Trees,
           commits' = Committed(parents, tree)
    PROVE  /\ commits' \in Seq(Commit) /\ Len(commits') = Len(commits) + 1
           /\ DOMAIN commits \subseteq DOMAIN commits' /\ Len(commits') \in DOMAIN commits'
           /\ \A c \in DOMAIN commits : commits'[c] = commits[c]
           /\ Rooted'
<1> DEFINE n == Len(commits) + 1
<1> DEFINE new == [parents |-> parents, tree |-> tree,
                   all |-> {n} \cup UNION {commits[parents[i]].all : i \in DOMAIN parents},
                   line |-> {n} \cup commits[parents[1]].line]
<1>1. commits' = Append(commits, new)
    BY DEF Committed
<1>2. commits \in Seq(Commit) /\ Len(commits) \in Nat /\ DOMAIN commits = 1..Len(commits)
    BY DEF LandingTypes
<1>3. \A i \in DOMAIN parents : parents[i] \in DOMAIN commits
    OBVIOUS
<1>4. \A c \in DOMAIN commits : commits[c] \in Commit
    BY <1>2
<1>5. 1 \in DOMAIN parents
    OBVIOUS
<1>6. new \in Commit
  <2>1. parents \in Seq(Nat)
    BY <1>2
  <2>2. \A i \in DOMAIN parents : commits[parents[i]].all \subseteq Nat
    BY <1>3, <1>4 DEF Commit
  <2>3. commits[parents[1]].line \subseteq Nat
    BY <1>3, <1>4, <1>5 DEF Commit
  <2>4. n \in Nat
    BY <1>2
  <2> QED  BY <2>1, <2>2, <2>3, <2>4 DEF Commit
<1> HIDE DEF new
<1>7. /\ commits' \in Seq(Commit) /\ Len(commits') = n /\ DOMAIN commits' = 1..n
      /\ \A c \in DOMAIN commits : commits'[c] = commits[c]
      /\ commits'[n] = new
    BY <1>1, <1>2, <1>6
<1> HIDE DEF n
<1>8. n = Len(commits) + 1
    BY DEF n
<1>9. /\ n \in new.all
      /\ new.line \subseteq new.all
      /\ \A d \in new.all : d = n \/ (\E i \in DOMAIN parents : d \in commits[parents[i]].all)
      /\ \A i \in DOMAIN parents : commits[parents[i]].all \subseteq new.all
  <2>1. commits[parents[1]].line \subseteq commits[parents[1]].all
    BY <1>3, <1>5 DEF Rooted
  <2> QED  BY <2>1, <1>5 DEF new
<1>10. new.all \subseteq 1..n
  <2> SUFFICES ASSUME NEW d \in new.all PROVE d \in 1..n
    OBVIOUS
  <2>1. CASE d = n
    BY <2>1, <1>2, <1>8
  <2>2. CASE \E i \in DOMAIN parents : d \in commits[parents[i]].all
    <3>1. PICK i \in DOMAIN parents : d \in commits[parents[i]].all
        BY <2>2
    <3>2. d \in 1..parents[i] /\ parents[i] \in 1..Len(commits)
        BY <3>1, <1>3, <1>2 DEF Rooted
    <3> QED  BY <3>2, <1>2, <1>8
  <2> QED  BY <2>1, <2>2, <1>9
<1>11. \A c \in DOMAIN commits : commits[c].all \subseteq DOMAIN commits
  <2> SUFFICES ASSUME NEW c \in DOMAIN commits, NEW d \in commits[c].all PROVE d \in DOMAIN commits
    OBVIOUS
  <2>1. d \in 1..c /\ c \in 1..Len(commits)
    BY <1>2 DEF Rooted
  <2> QED  BY <2>1, <1>2
<1>12. Rooted'
  <2>1. commits' # <<>>
    BY <1>7, <1>8, <1>2
  <2> SUFFICES ASSUME NEW c \in 1..n
               PROVE  /\ c \in commits'[c].all /\ commits'[c].all \subseteq 1..c
                      /\ commits'[c].line \subseteq commits'[c].all
                      /\ \A d \in commits'[c].all : commits'[d].all \subseteq commits'[c].all
    BY <2>1, <1>7 DEF Rooted
  <2>2. CASE c \in DOMAIN commits
    <3>1. /\ c \in commits[c].all /\ commits[c].all \subseteq 1..c
          /\ commits[c].line \subseteq commits[c].all
          /\ \A d \in commits[c].all : commits[d].all \subseteq commits[c].all
        BY <2>2 DEF Rooted
    <3> QED  BY <3>1, <2>2, <1>7, <1>11
  <2>3. CASE c = n
    <3>1. ASSUME NEW d \in new.all PROVE commits'[d].all \subseteq new.all
      <4>1. CASE d = n
        BY <4>1, <1>7
      <4>2. CASE \E i \in DOMAIN parents : d \in commits[parents[i]].all
        <5>1. PICK i \in DOMAIN parents : d \in commits[parents[i]].all
            BY <4>2
        <5>2. d \in DOMAIN commits /\ commits[d].all \subseteq commits[parents[i]].all
            BY <5>1, <1>3, <1>11 DEF Rooted
        <5> QED  BY <5>1, <5>2, <1>7, <1>9
      <4> QED  BY <4>1, <4>2, <1>9
    <3> QED  BY <2>3, <3>1, <1>7, <1>9, <1>10
  <2>4. c \in DOMAIN commits \/ c = n
    BY <1>2, <1>8
  <2> QED  BY <2>2, <2>3, <2>4
<1> QED
  <2>1. DOMAIN commits \subseteq DOMAIN commits' /\ Len(commits') \in DOMAIN commits'
    BY <1>2, <1>7, <1>8
  <2> QED  BY <2>1, <1>7, <1>8, <1>12

-------------------------------------------------------------------------------
(* What a hook tells.                                                       *)
LEMMA CheckoutIsHeard ==
    ASSUME Hook("post-checkout", "branch", {}) \/ Hook("post-merge", "0", {})
    PROVE  woken'
BY DEF Hook, Relevant, Relevance

LEMMA HooksOnlyTell ==
    ASSUME NEW event, NEW argument, NEW updates, woken \in BOOLEAN, Hook(event, argument, updates)
    PROVE  woken' \in BOOLEAN /\ (woken => woken')
<1>1. PICK readable \in BOOLEAN : woken' = (woken \/ Relevant(event, argument, updates, readable))
    BY DEF Hook
<1>2. Relevant(event, argument, updates, readable) \in BOOLEAN
    BY DEF Relevant
<1> HIDE DEF Relevant
<1> QED  BY <1>1, <1>2

LEMMA FetchIsHeard ==
    ASSUME NEW updates, Hook("reference-transaction", "committed", updates),
           \/ \E u \in updates : u.reference = RemoteMain
           \/ \E u \in updates : u.reference = RemoteTopic /\ u.new = 0
    PROVE  woken'
<1>1. PICK u \in updates : u.reference = RemoteMain \/ (u.reference = RemoteTopic /\ u.new = 0)
    OBVIOUS
<1>2. u \in Remote(updates)
    BY <1>1 DEF Remote
<1>3. PICK readable \in BOOLEAN :
        woken' = (woken \/ Relevant("reference-transaction", "committed", updates, readable))
    BY DEF Hook
<1>4. CASE \E v \in Remote(updates) : Deletes(v)
  <2>1. Relevance("reference-transaction", "committed", updates, {}) = "relevant"
    BY <1>2, <1>4 DEF Relevance
  <2> QED  BY <2>1, <1>3 DEF Relevant
<1>5. CASE ~ \E v \in Remote(updates) : Deletes(v)
  <2>1. u.reference = RemoteMain
    BY <1>1, <1>2, <1>5 DEF Deletes
  <2>2. Relevance("reference-transaction", "committed", updates, {}) = "needs-defaults"
    BY <1>2, <1>5 DEF Relevance
  <2>3. Relevance("reference-transaction", "committed", updates, {{RemoteMain}}) = "relevant"
    BY <1>2, <1>5, <2>1 DEF Relevance
  <2> QED  BY <2>2, <2>3, <1>3 DEF Relevant
<1> QED  BY <1>4, <1>5

-------------------------------------------------------------------------------
(* What people do keeps the history a history.                               *)
LEMMA PeopleKeepTypes ==
    ASSUME LandingTypes, Rooted, MainIsATip, People
    PROVE  /\ LandingTypes' /\ Rooted' /\ MainIsATip'
           /\ UNCHANGED <<asking, learnt, cached>>
           /\ (woken => woken') /\ (unheard => unheard')
<1> USE DEF Move
<1>1. /\ commits \in Seq(Commit) /\ head \in DOMAIN commits
      /\ main \in {0} \cup DOMAIN commits /\ branch \in {0} \cup DOMAIN commits
      /\ edited \in BOOLEAN /\ woken \in BOOLEAN /\ unheard \in BOOLEAN
      /\ tips \in SUBSET DOMAIN commits /\ asking \in Questions
      /\ link \in {"there", "gone", "unreadable"}
    BY DEF LandingTypes
<1>2. ASSUME UNCHANGED <<commits, tips, main, branch, asking>>, head' \in DOMAIN commits,
             edited' \in BOOLEAN, woken' \in BOOLEAN, unheard' \in BOOLEAN,
             link' \in {"there", "gone", "unreadable"}
      PROVE  LandingTypes' /\ Rooted' /\ MainIsATip'
    BY <1>1, <1>2 DEF LandingTypes, Rooted, MainIsATip
<1>3. ASSUME NEW parents \in Seq(DOMAIN commits), parents # <<>>, NEW tree \in Trees,
             commits' = Committed(parents, tree)
      PROVE  /\ commits' \in Seq(Commit) /\ DOMAIN commits \subseteq DOMAIN commits'
             /\ Len(commits') \in DOMAIN commits' /\ Rooted'
    BY <1>3, CommittedIsRooted
<1>4. /\ <<head>> \in Seq(DOMAIN commits)
      /\ main # 0 => /\ <<main>> \in Seq(DOMAIN commits)
                     /\ <<head, main>> \in Seq(DOMAIN commits)
                     /\ <<main, head>> \in Seq(DOMAIN commits)
      /\ <<head>> # <<>> /\ <<main>> # <<>> /\ <<head, main>> # <<>> /\ <<main, head>> # <<>>
    BY <1>1
<1>5. CASE Work
  <2>1. PICK tree \in Trees : commits' = Committed(<<head>>, tree)
    BY <1>5 DEF Work
  <2>2. /\ commits' \in Seq(Commit) /\ DOMAIN commits \subseteq DOMAIN commits'
        /\ Len(commits') \in DOMAIN commits' /\ Rooted'
    BY <2>1, <1>3, <1>4
  <2> QED  BY <1>1, <1>5, <2>2 DEF Work, LandingTypes, MainIsATip, learnt
<1>6. CASE EditTree
  <2>1. woken' \in BOOLEAN /\ (woken => woken')
    BY <1>1, <1>6, HooksOnlyTell DEF EditTree
  <2> QED  BY <1>1, <1>2, <1>6, <2>1 DEF EditTree, learnt
<1>7. CASE Checkout
  <2>1. woken' \in BOOLEAN /\ (woken => woken')
    BY <1>1, <1>7, HooksOnlyTell DEF Checkout
  <2> QED  BY <1>1, <1>2, <1>7, <2>1 DEF Checkout, learnt
<1>8. CASE Merge
  <2>1. woken' \in BOOLEAN /\ (woken => woken')
    <3>1. Hook("post-merge", "0", {})
        BY <1>8 DEF Merge
    <3> QED  BY <3>1, <1>1, HooksOnlyTell
  <2>2. CASE UNCHANGED commits /\ head' = main
    BY <1>1, <1>2, <1>8, <2>1, <2>2 DEF Merge, learnt
  <2>3. CASE ~(UNCHANGED commits /\ head' = main)
    <3>1. PICK tree \in Trees : commits' = Committed(<<head, main>>, tree)
        BY <1>8, <2>3 DEF Merge
    <3>2. head' = Len(commits') /\ main # 0
        BY <1>8, <2>3 DEF Merge
    <3>3. /\ commits' \in Seq(Commit) /\ DOMAIN commits \subseteq DOMAIN commits'
          /\ Len(commits') \in DOMAIN commits' /\ Rooted'
        BY <3>1, <3>2, <1>3, <1>4
    <3> QED  BY <1>1, <1>8, <2>1, <3>2, <3>3 DEF Merge, LandingTypes, MainIsATip, learnt
  <2> QED  BY <2>2, <2>3
<1>9. CASE Fetch
  <2>1. woken' \in BOOLEAN /\ (woken => woken')
    BY <1>1, <1>9, HooksOnlyTell DEF Fetch
  <2>2. /\ main # 0 /\ tips' = tips \cup {main'}
        /\ branch' \in IF branch = 0 THEN {0} ELSE {branch, head, 0}
        /\ UNCHANGED <<worktree, unheard, asking, learnt, cached>>
    BY <1>9 DEF Fetch
  <2>3. /\ commits' \in Seq(Commit) /\ DOMAIN commits \subseteq DOMAIN commits'
        /\ Rooted' /\ main' \in DOMAIN commits'
    <3>1. CASE UNCHANGED <<commits, main>>
        BY <3>1, <1>1, <2>2 DEF Rooted
    <3>2. CASE ~UNCHANGED <<commits, main>>
      <4>1. PICK tree \in Trees, parents \in {<<main>>, <<main, head>>} :
                commits' = Committed(parents, tree)
          BY <1>9, <3>2 DEF Fetch
      <4>2. main' = Len(commits')
          BY <1>9, <3>2 DEF Fetch
      <4>3. parents \in Seq(DOMAIN commits) /\ parents # <<>>
          BY <1>4, <2>2
      <4> QED  BY <4>1, <4>2, <4>3, <1>3
    <3> QED  BY <3>1, <3>2
  <2>4. branch' \in {0} \cup DOMAIN commits'
    BY <1>1, <2>2, <2>3
  <2>5. LandingTypes'
    BY <1>1, <2>1, <2>2, <2>3, <2>4 DEF LandingTypes, worktree
  <2>6. MainIsATip'
    BY <2>2 DEF MainIsATip
  <2> QED  BY <2>1, <2>2, <2>3, <2>5, <2>6
<1>10. CASE CalledOff
  <2>1. woken' \in BOOLEAN /\ (woken => woken')
    BY <1>1, <1>10, HooksOnlyTell DEF CalledOff
  <2> QED  BY <1>1, <1>2, <1>10, <2>1 DEF CalledOff, worktree, learnt
<1>11. CASE Removed
    BY <1>1, <1>2, <1>11 DEF Removed, learnt
<1> QED  BY <1>5, <1>6, <1>7, <1>8, <1>9, <1>10, <1>11 DEF People

(* What moves what was learnt is heard of, but for a commit, an edit and a    *)
(* removal, which no hook tells.                                            *)
LEMMA PeopleAreHeard ==
    ASSUME LandingTypes, Rooted, People
    PROVE  woken' \/ unheard' \/ Still
<1> USE DEF Move
<1>1. CASE Work \/ EditTree \/ Removed
    BY <1>1 DEF Work, EditTree, Removed
<1>2. CASE Checkout \/ Merge
    BY <1>2, CheckoutIsHeard DEF Checkout, Merge
<1>3. CASE CalledOff
  <2>1. Hook("reference-transaction", "aborted", {[reference |-> RemoteMain, new |-> main]})
    BY <1>3 DEF CalledOff
  <2>2. woken => woken'
    BY <2>1, HooksOnlyTell DEF LandingTypes
  <2> QED  BY <1>3, <2>2 DEF CalledOff, Still, worktree
<1>4. CASE Fetch
  <2> DEFINE moved == IF main' # main THEN {[reference |-> RemoteMain, new |-> main']} ELSE {}
  <2> DEFINE gone == IF branch' # branch THEN {[reference |-> RemoteTopic, new |-> branch']} ELSE {}
  <2>1. Hook("reference-transaction", "committed", moved \cup gone)
    BY <1>4 DEF Fetch
  <2>2. /\ tips' = tips \cup {main'} /\ branch' \in IF branch = 0 THEN {0} ELSE {branch, head, 0}
        /\ UNCHANGED <<worktree, unheard, asking, learnt, cached>>
    BY <1>4 DEF Fetch
  <2>3. CASE main' # main
    <3>1. \E u \in moved \cup gone : u.reference = RemoteMain
      <4>1. [reference |-> RemoteMain, new |-> main'] \in moved \cup gone
          BY <2>3
      <4> HIDE DEF moved, gone
      <4> QED  BY <4>1
    <3> HIDE DEF moved, gone
    <3> QED  BY <3>1, <2>1, FetchIsHeard
  <2>4. CASE branch' # branch /\ branch' = 0
    <3>1. \E u \in moved \cup gone : u.reference = RemoteTopic /\ u.new = 0
      <4>1. [reference |-> RemoteTopic, new |-> branch'] \in moved \cup gone
          BY <2>4
      <4> HIDE DEF moved, gone
      <4> QED  BY <4>1, <2>4
    <3> HIDE DEF moved, gone
    <3> QED  BY <3>1, <2>1, FetchIsHeard
  <2>5. CASE main' = main /\ (branch' = branch \/ branch' # 0)
    <3>1. UNCHANGED commits
      <4>1. CASE UNCHANGED <<commits, main>>
          BY <4>1
      <4>2. CASE ~UNCHANGED <<commits, main>>
        <5>1. PICK tree \in Trees, parents \in {<<main>>, <<main, head>>} :
                commits' = Committed(parents, tree)
            BY <1>4, <4>2 DEF Fetch
        <5>2. main' = Len(commits') /\ main # 0
            BY <1>4, <4>2 DEF Fetch
        <5>3. main \in DOMAIN commits /\ head \in DOMAIN commits
            BY <5>2 DEF LandingTypes
        <5>4. parents \in Seq(DOMAIN commits) /\ parents # <<>>
          <6>1. /\ <<main>> \in Seq(DOMAIN commits) /\ <<main>> # <<>>
                /\ <<main, head>> \in Seq(DOMAIN commits) /\ <<main, head>> # <<>>
              BY <5>3
          <6> QED  BY <6>1
        <5>5. Len(commits') = Len(commits) + 1
            BY <5>1, <5>4, CommittedIsRooted
        <5>6. main \in 1..Len(commits) /\ Len(commits) \in Nat
            BY <5>3 DEF LandingTypes
        <5> QED  BY <2>5, <5>2, <5>5, <5>6
      <4> QED  BY <4>1, <4>2
    <3>2. HeadOf(detached', upstream', branch') = HeadOf(detached, upstream, branch)
      <4>1. branch' = 0 <=> branch = 0
          BY <2>2, <2>5
      <4> QED  BY <2>2, <4>1 DEF HeadOf, worktree
    <3>3. woken => woken'
      <4> HIDE DEF moved, gone
      <4> QED  BY <2>1, HooksOnlyTell DEF LandingTypes
    <3> QED  BY <2>2, <2>5, <3>1, <3>2, <3>3 DEF Still, worktree
  <2> QED  BY <2>3, <2>4, <2>5
<1> QED  BY <1>1, <1>2, <1>3, <1>4 DEF People

(* And then all that was learnt is so still.                                 *)
LEMMA StillIsSo ==
    ASSUME Still, unheard \in BOOLEAN
    PROVE  /\ LearntIsSo => LearntIsSo'
           /\ LandedIsSo => LandedIsSo'
           /\ LandingIsHeard => LandingIsHeard'
<1>1. /\ commits' = commits /\ head' = head /\ main' = main /\ edited' = edited
      /\ link' = link /\ detached' = detached /\ asking' = asking /\ cached' = cached
      /\ status' = status /\ base' = base /\ differing' = differing /\ candidates' = candidates
      /\ HeadOf(detached', upstream', branch') = HeadOf(detached, upstream, branch)
      /\ (~woken' => ~woken) /\ (~unheard' => ~unheard) /\ tips \subseteq tips'
    BY DEF Still, learnt
<1>2. Learnt => Learnt'
    BY <1>1 DEF Learnt, IsAncestor, MergeBases, ChangedSince, Contained, Touching, Paths, Tree
<1>3. Landed => Landed'
    BY <1>1 DEF Landed, IsThere, Paths, Tree
<1>4. LandedNow' => LandedNow
  <2>1. /\ IsAncestor(head, main)' <=> IsAncestor(head, main)
        /\ MergeBases(head, main)' = MergeBases(head, main)
        /\ \A b : ChangedSince(b, head)' = ChangedSince(b, head)
    BY <1>1 DEF IsAncestor, MergeBases, ChangedSince, Paths, Tree
  <2>2. /\ \A b, p : Touching(b, main, p)' = Touching(b, main, p)
        /\ \A c, own : Contained(c, own)' <=> Contained(c, own)
    BY <1>1 DEF Touching, Contained, ChangedSince, Paths, Tree
  <2> QED  BY <1>1, <2>1, <2>2 DEF LandedNow
<1> QED  BY <1>1, <1>2, <1>3, <1>4 DEF LearntIsSo, LandedIsSo, LandingIsHeard

-------------------------------------------------------------------------------
(* The questions.                                                           *)
AllThere == \A p \in Paths : IsThere(p)
ContainedNow ==
    /\ main # 0 /\ ~IsAncestor(head, main)
    /\ \A b \in MergeBases(head, main) :
         LET own == ChangedSince(b, head)
             all == {main} \cup Touching(b, main, FirstOf(own))
         IN own # {} /\ \E c \in all : Contained(c, own)

(* A commit of the default branch that holds what changed holds it all, for   *)
(* what did not change is in the base.                                      *)
LEMMA ContainedIsThere ==
    ASSUME LandingTypes, Rooted, MainIsATip, main # 0, NEW b \in MergeBases(head, main),
           NEW c \in commits[main].all, Contained(c, ChangedSince(b, head))
    PROVE  AllThere
<1>1. main \in tips /\ b \in commits[main].all
    BY DEF MainIsATip, MergeBases
<1> SUFFICES ASSUME NEW p \in Paths PROVE IsThere(p)
    BY DEF AllThere
<1>2. Tree(b)[p] = Tree(head)[p] \/ p \in ChangedSince(b, head)
    BY DEF ChangedSince
<1>3. p \in ChangedSince(b, head) => Tree(c)[p] = Tree(head)[p]
    BY DEF Contained, ChangedSince
<1> QED  BY <1>1, <1>2, <1>3 DEF IsThere

(* What an answer needs to be true, of all that was learnt.                  *)
Fits(landed) ==
    /\ landed = "contained" => AllThere
    /\ landed = "no-own-work" => AllThere \/ (main # 0 /\ IsAncestor(head, main))
    /\ landed # "contained" => ~ContainedNow
    /\ (main # 0 /\ IsAncestor(head, main)) => landed = "no-own-work"

LEMMA AnswersFit ==
    ASSUME LandingTypes, Rooted, MainIsATip, LearntIsSo, asking \notin {"idle", "status"},
           NEW landed, Landing(landed), Learnt => Fits(landed)
    PROVE  LandingInv'
<1>1. /\ UNCHANGED <<commits, head, detached, upstream, edited, link, main, branch, woken, tips,
                     unheard>>
      /\ asking' = "idle" /\ cached' = Linked(status.dirty, status.head, landed)
    BY DEF Landing, Answered, worktree, history
<1>2. LandingTypes'
    BY <1>1 DEF LandingTypes, Questions
<1>3. Rooted' /\ MainIsATip' /\ NothingKeptWhileAsking' /\ LearntIsSo'
    BY <1>1 DEF Rooted, MainIsATip, NothingKeptWhileAsking, LearntIsSo
<1>4. LandedIsSo' /\ LandingIsHeard'
  <2>1. CASE woken \/ unheard
    BY <1>1, <2>1 DEF LandedIsSo, LandingIsHeard
  <2>2. CASE ~woken /\ ~unheard
    <3>1. /\ status = [dirty |-> edited, head |-> HeadOf(detached, upstream, branch)]
          /\ Fits(landed)
        BY <2>2 DEF LearntIsSo, Learnt
    <3>2. cached' = Linked(edited, HeadOf(detached, upstream, branch), landed)
        BY <1>1, <3>1
    <3>3. cached' = IF /\ ~edited
                       /\ \/ HeadOf(detached, upstream, branch) = "upstream-gone"
                          \/ landed = "contained"
                          \/ HeadOf(detached, upstream, branch) = "detached"
                             /\ landed = "no-own-work"
                    THEN "landed" ELSE "active"
        BY <3>2 DEF Linked, WorktreeSettlement, HasLanded, LandingTypes
    <3>4. ASSUME cached' = "landed", HeadOf(detached, upstream, branch) # "upstream-gone"
          PROVE  Landed
      <4>1. ~edited /\ (AllThere \/ (main # 0 /\ IsAncestor(head, main)))
          BY <3>1, <3>3, <3>4 DEF Fits
      <4>2. (main # 0 /\ IsAncestor(head, main)) => \E t \in tips : head \in commits[t].all
          BY DEF MainIsATip, IsAncestor
      <4> QED  BY <4>1, <4>2 DEF Landed, AllThere
    <3>5. ASSUME cached' = "active", LandedNow PROVE FALSE
      <4>1. ~edited
          BY <3>5 DEF LandedNow
      <4>2. /\ HeadOf(detached, upstream, branch) # "upstream-gone"
            /\ landed # "contained"
            /\ ~(detached /\ landed = "no-own-work")
          BY <3>3, <3>5, <4>1 DEF HeadOf
      <4>3. (main # 0 /\ detached /\ IsAncestor(head, main)) \/ ContainedNow
          BY <3>5, <4>2 DEF LandedNow, ContainedNow
      <4> QED  BY <3>1, <4>2, <4>3 DEF Fits
    <3>6. LandedIsSo'
      <4>1. Landed => Landed'
          BY <1>1 DEF Landed, IsThere, Paths, Tree
      <4>2. HeadOf(detached', upstream', branch') = HeadOf(detached, upstream, branch)
          BY <1>1
      <4> QED  BY <3>4, <4>1, <4>2 DEF LandedIsSo
    <3>7. LandingIsHeard'
      <4>1. LandedNow' => LandedNow
        <5>1. /\ IsAncestor(head, main)' <=> IsAncestor(head, main)
              /\ MergeBases(head, main)' = MergeBases(head, main)
              /\ \A b : ChangedSince(b, head)' = ChangedSince(b, head)
            BY <1>1 DEF IsAncestor, MergeBases, ChangedSince, Paths, Tree
        <5>2. /\ \A b, p : Touching(b, main, p)' = Touching(b, main, p)
              /\ \A c, own : Contained(c, own)' <=> Contained(c, own)
            BY <1>1 DEF Touching, Contained, ChangedSince, Paths, Tree
        <5> QED  BY <1>1, <5>1, <5>2 DEF LandedNow
      <4> QED  BY <3>5, <4>1 DEF LandingIsHeard
    <3> QED  BY <3>6, <3>7
  <2>3. woken \in BOOLEAN /\ unheard \in BOOLEAN
    BY DEF LandingTypes
  <2> QED  BY <2>1, <2>2, <2>3
<1> QED  BY <1>2, <1>3, <1>4 DEF LandingInv

(* A question more, of what nobody moved while it was asked.                  *)
LEMMA AskingOn ==
    ASSUME LandingInv, asking # "idle", NEW next \in Questions \ {"idle"}, AsksNext(next),
           Learnt => Learnt'
    PROVE  LandingInv'
<1>1. /\ UNCHANGED <<commits, head, detached, upstream, edited, link, main, branch, cached, woken,
                     tips, unheard>>
      /\ asking' = next /\ cached = "none"
    BY DEF AsksNext, worktree, history, LandingInv, NothingKeptWhileAsking
<1>2. LandingTypes' /\ Rooted' /\ MainIsATip' /\ NothingKeptWhileAsking'
    BY <1>1 DEF LandingInv, LandingTypes, Rooted, MainIsATip, NothingKeptWhileAsking
<1>3. LearntIsSo'
    BY <1>1 DEF LearntIsSo, LandingInv
<1>4. LandedIsSo' /\ LandingIsHeard'
    BY <1>1 DEF LandedIsSo, LandingIsHeard
<1> QED  BY <1>2, <1>3, <1>4 DEF LandingInv

LEMMA QuestionsKeepInv ==
    ASSUME LandingInv, Questioning
    PROVE  LandingInv'
<1>1. /\ LandingTypes /\ Rooted /\ MainIsATip /\ NothingKeptWhileAsking
      /\ LearntIsSo /\ LandedIsSo /\ LandingIsHeard
    BY DEF LandingInv
<1>2. CASE Begin
  <2>1. /\ UNCHANGED <<commits, head, detached, upstream, edited, link, main, branch, woken>>
        /\ tips' = {main} \ {0} /\ unheard' = FALSE
        /\ \/ link = "there" /\ asking' = "status" /\ cached' = "none"
           \/ asking' = "idle" /\ cached' \in {"released", "unreadable"}
    BY <1>1, <1>2 DEF Begin, Answered, WorktreeSettlement, LandingTypes, worktree, learnt
  <2>2. LandingTypes'
    BY <1>1, <2>1 DEF LandingTypes, Questions
  <2>3. Rooted' /\ MainIsATip' /\ NothingKeptWhileAsking'
    BY <1>1, <2>1 DEF Rooted, MainIsATip, NothingKeptWhileAsking
  <2>4. LearntIsSo' /\ LandedIsSo' /\ LandingIsHeard'
    BY <2>1 DEF LearntIsSo, Learnt, LandedIsSo, LandingIsHeard
  <2> QED  BY <2>2, <2>3, <2>4 DEF LandingInv
<1>3. CASE Status
  <2>1. asking = "status" /\ AsksNext("ancestor")
    BY <1>3 DEF Status
  <2>2. Learnt => Learnt'
    BY <1>3 DEF Status, AsksNext, Learnt, worktree
  <2> QED  BY <2>1, <2>2, AskingOn DEF Questions
<1>4. CASE AskAncestor
  <2>1. asking = "ancestor"
    BY <1>4 DEF AskAncestor
  <2>2. CASE main = 0
    <3>1. Landing("no-default-branch")
        BY <1>4, <2>2 DEF AskAncestor
    <3>2. Fits("no-default-branch")
        BY <2>2 DEF Fits, ContainedNow
    <3> QED  BY <1>1, <2>1, <3>1, <3>2, AnswersFit
  <2>3. CASE main # 0 /\ IsAncestor(head, main)
    <3>1. Landing("no-own-work")
        BY <1>4, <2>3 DEF AskAncestor
    <3>2. Fits("no-own-work")
        BY <2>3 DEF Fits, ContainedNow
    <3> QED  BY <1>1, <2>1, <3>1, <3>2, AnswersFit
  <2>4. CASE main # 0 /\ ~IsAncestor(head, main)
    <3>1. AsksNext("base") /\ UNCHANGED learnt
        BY <1>4, <2>4 DEF AskAncestor
    <3>2. Learnt => Learnt'
        BY <2>1, <2>4, <3>1
           DEF AsksNext, Learnt, learnt, worktree, IsAncestor
    <3> QED  BY <2>1, <3>1, <3>2, AskingOn DEF Questions
  <2> QED  BY <2>2, <2>3, <2>4
<1>5. CASE AskBase
  <2>1. asking = "base" /\ AsksNext("changed") /\ base' \in MergeBases(head, main)
        /\ UNCHANGED <<status, differing, candidates>>
    BY <1>5 DEF AskBase
  <2>2. Learnt => Learnt'
    BY <2>1 DEF AsksNext, Learnt, worktree, IsAncestor, MergeBases
  <2> QED  BY <2>1, <2>2, AskingOn DEF Questions
<1>6. CASE AskChanged
  <2>1. asking = "changed" /\ differing' = ChangedSince(base, head)
    BY <1>6 DEF AskChanged
  <2>2. CASE differing' = {}
    <3>1. Landing("no-own-work")
        BY <1>6, <2>2 DEF AskChanged
    <3>2. Learnt => Fits("no-own-work")
      <4> SUFFICES ASSUME Learnt PROVE Fits("no-own-work")
          OBVIOUS
      <4>1. main # 0 /\ ~IsAncestor(head, main) /\ base \in MergeBases(head, main)
          BY <2>1 DEF Learnt
      <4>2. ChangedSince(base, head) = {}
          BY <2>1, <2>2
      <4>3. base \in commits[main].all /\ Contained(base, ChangedSince(base, head))
          BY <4>1, <4>2 DEF MergeBases, Contained
      <4>4. AllThere
          BY <1>1, <4>1, <4>3, ContainedIsThere
      <4>5. ~ContainedNow
          BY <4>1, <4>2 DEF ContainedNow
      <4> QED  BY <4>4, <4>5 DEF Fits
    <3> QED  BY <1>1, <2>1, <3>1, <3>2, AnswersFit
  <2>3. CASE differing' # {}
    <3>1. AsksNext("default") /\ UNCHANGED <<status, base, candidates>>
        BY <1>6, <2>3 DEF AskChanged
    <3>2. Learnt => Learnt'
        BY <2>1, <2>3, <3>1
           DEF AsksNext, Learnt, worktree, IsAncestor, MergeBases, ChangedSince, Tree, Paths
    <3> QED  BY <2>1, <3>1, <3>2, AskingOn DEF Questions
  <2> QED  BY <2>2, <2>3
<1>7. CASE AskDefault
  <2>1. asking = "default"
    BY <1>7 DEF AskDefault
  <2>2. CASE Contained(main, differing)
    <3>1. Landing("contained")
        BY <1>7, <2>2 DEF AskDefault
    <3>2. Learnt => Fits("contained")
      <4> SUFFICES ASSUME Learnt PROVE Fits("contained")
          OBVIOUS
      <4>1. /\ main # 0 /\ ~IsAncestor(head, main) /\ base \in MergeBases(head, main)
            /\ differing = ChangedSince(base, head)
          BY <2>1 DEF Learnt
      <4>2. main \in commits[main].all
          BY <1>1, <4>1 DEF LandingTypes, Rooted
      <4>3. AllThere
          BY <1>1, <2>2, <4>1, <4>2, ContainedIsThere
      <4> QED  BY <4>1, <4>3 DEF Fits
    <3> QED  BY <1>1, <2>1, <3>1, <3>2, AnswersFit
  <2>3. CASE ~Contained(main, differing)
    <3>1. AsksNext("touching") /\ UNCHANGED learnt
        BY <1>7, <2>3 DEF AskDefault
    <3>2. Learnt => Learnt'
        BY <2>1, <2>3, <3>1
           DEF AsksNext, Learnt, learnt, worktree, IsAncestor, MergeBases, ChangedSince, Contained,
               Tree, Paths
    <3> QED  BY <2>1, <3>1, <3>2, AskingOn DEF Questions
  <2> QED  BY <2>2, <2>3
<1>8. CASE AskTouching
  <2>1. /\ asking = "touching" /\ AsksNext("contained")
        /\ candidates' = Touching(base, main, FirstOf(differing))
        /\ UNCHANGED <<status, base, differing>>
    BY <1>8 DEF AskTouching
  <2>2. UNCHANGED <<commits, head, main, detached, upstream, branch, link, edited>>
    BY <2>1 DEF AsksNext, worktree
  <2>3. Touching(base, main, FirstOf(differing))' = Touching(base, main, FirstOf(differing))
    BY <2>1, <2>2 DEF Touching, Tree
  <2>4. Learnt => Learnt'
    BY <2>1, <2>2, <2>3
       DEF AsksNext, Learnt, IsAncestor, MergeBases, ChangedSince, Contained, Tree, Paths
  <2> QED  BY <2>1, <2>4, AskingOn DEF Questions
<1>9. CASE AskContained
  <2>1. asking = "contained"
    BY <1>9 DEF AskContained
  <2>2. CASE candidates = {} /\ Landing("not-contained")
    <3>1. Learnt => Fits("not-contained")
      <4> SUFFICES ASSUME Learnt PROVE Fits("not-contained")
          OBVIOUS
      <4>1. /\ main # 0 /\ ~IsAncestor(head, main) /\ base \in MergeBases(head, main)
            /\ differing = ChangedSince(base, head) /\ ~Contained(main, differing)
            /\ \A c \in Touching(base, main, FirstOf(differing)) : ~Contained(c, differing)
          BY <2>1, <2>2 DEF Learnt
      <4>2. ~ContainedNow
          BY <4>1 DEF ContainedNow
      <4> QED  BY <4>1, <4>2 DEF Fits
    <3> QED  BY <1>1, <2>1, <2>2, <3>1, AnswersFit
  <2>3. ASSUME NEW newest \in candidates, Contained(newest, differing), Landing("contained")
        PROVE  LandingInv'
    <3>1. Learnt => Fits("contained")
      <4> SUFFICES ASSUME Learnt PROVE Fits("contained")
          OBVIOUS
      <4>1. /\ main # 0 /\ ~IsAncestor(head, main) /\ base \in MergeBases(head, main)
            /\ differing = ChangedSince(base, head)
            /\ newest \in Touching(base, main, FirstOf(differing))
          BY <2>1 DEF Learnt
      <4>2. newest \in commits[main].all
        <5>1. main \in DOMAIN commits
            BY <1>1, <4>1 DEF LandingTypes
        <5> QED  BY <1>1, <4>1, <5>1 DEF Rooted, Touching
      <4>3. AllThere
          BY <1>1, <2>3, <4>1, <4>2, ContainedIsThere
      <4> QED  BY <4>1, <4>3 DEF Fits
    <3> QED  BY <1>1, <2>1, <2>3, <3>1, AnswersFit
  <2>4. ASSUME NEW newest \in candidates, ~Contained(newest, differing),
               candidates' = candidates \ {newest}, UNCHANGED <<status, base, differing>>,
               AsksNext("contained")
        PROVE  LandingInv'
    <3>1. UNCHANGED <<commits, head, main, detached, upstream, branch, link, edited>>
        BY <2>4 DEF AsksNext, worktree
    <3>2. Touching(base, main, FirstOf(differing))' = Touching(base, main, FirstOf(differing))
        BY <2>4, <3>1 DEF Touching, Tree
    <3>3. \A c : Contained(c, differing)' <=> Contained(c, differing)
        BY <2>4, <3>1 DEF Contained, ChangedSince, Tree, Paths
    <3>4. Learnt => Learnt'
      <4>1. asking' = "contained"
          BY <2>4 DEF AsksNext
      <4>2. /\ IsAncestor(head, main)' <=> IsAncestor(head, main)
            /\ MergeBases(head, main)' = MergeBases(head, main)
            /\ ChangedSince(base, head)' = ChangedSince(base, head)
          BY <2>4, <3>1 DEF IsAncestor, MergeBases, ChangedSince, Tree, Paths
      <4> QED  BY <2>1, <2>4, <3>1, <3>2, <3>3, <4>1, <4>2 DEF Learnt
    <3> QED  BY <2>1, <2>4, <3>4, AskingOn DEF Questions
  <2> QED  BY <1>9, <2>2, <2>3, <2>4 DEF AskContained
<1>10. CASE GitFails
  <2>1. /\ UNCHANGED <<commits, head, detached, upstream, edited, link, main, branch, woken, tips,
                       unheard>>
        /\ asking' = "idle" /\ cached' = "unreadable"
    BY <1>10 DEF GitFails, Answered, worktree, history
  <2>2. LandingTypes' /\ Rooted' /\ MainIsATip' /\ NothingKeptWhileAsking'
    BY <1>1, <2>1 DEF LandingTypes, Questions, Rooted, MainIsATip, NothingKeptWhileAsking
  <2>3. LearntIsSo' /\ LandedIsSo' /\ LandingIsHeard'
    BY <2>1 DEF LearntIsSo, LandedIsSo, LandingIsHeard
  <2> QED  BY <2>2, <2>3 DEF LandingInv
<1>11. CASE ForgetAnswers
  <2>1. /\ UNCHANGED <<commits, head, detached, upstream, edited, link, main, branch, tips,
                       unheard>>
        /\ asking = "idle" /\ asking' = "idle" /\ cached' = "none" /\ woken' = FALSE
    BY <1>11 DEF ForgetAnswers, worktree, history
  <2>2. LandingTypes' /\ Rooted' /\ MainIsATip' /\ NothingKeptWhileAsking'
    BY <1>1, <2>1 DEF LandingTypes, Questions, Rooted, MainIsATip, NothingKeptWhileAsking
  <2>3. LearntIsSo' /\ LandedIsSo' /\ LandingIsHeard'
    BY <2>1 DEF LearntIsSo, LandedIsSo, LandingIsHeard
  <2> QED  BY <2>2, <2>3 DEF LandingInv
<1> QED
  BY <1>2, <1>3, <1>4, <1>5, <1>6, <1>7, <1>8, <1>9, <1>10, <1>11 DEF Questioning

-------------------------------------------------------------------------------
LEMMA LandingInit ==
    ASSUME WorktreesInit PROVE LandingInv
<1> DEFINE first == CHOOSE t \in Trees : \A p \in DOMAIN t : t[p] = 0
<1>1. first \in Trees
    BY WorktreesAssumption
<1> HIDE DEF first
<1>2. commits = <<[parents |-> <<>>, tree |-> first, all |-> {1}, line |-> {1}]>>
    BY DEF WorktreesInit, first
<1>3. /\ commits \in Seq(Commit) /\ DOMAIN commits = {1} /\ Len(commits) = 1
      /\ commits[1].all = {1} /\ commits[1].line = {1}
    BY <1>1, <1>2 DEF Commit
<1>4. /\ head = 1 /\ main \in {0, 1} /\ branch \in {0, 1} /\ edited = FALSE /\ woken = FALSE
      /\ unheard = FALSE /\ tips = {main} \ {0} /\ asking = "idle" /\ cached = "none"
      /\ link \in {"there", "unreadable"}
    BY DEF WorktreesInit
<1>5. LandingTypes
    BY <1>3, <1>4 DEF LandingTypes, Questions
<1>6. Rooted
    BY <1>3 DEF Rooted
<1>7. /\ MainIsATip /\ NothingKeptWhileAsking /\ LearntIsSo /\ LandedIsSo /\ LandingIsHeard
    BY <1>4 DEF MainIsATip, NothingKeptWhileAsking, LearntIsSo, LandedIsSo, LandingIsHeard
<1> QED  BY <1>5, <1>6, <1>7 DEF LandingInv

LEMMA PeopleKeepInv ==
    ASSUME LandingInv, People PROVE LandingInv'
<1>1. /\ LandingTypes' /\ Rooted' /\ MainIsATip'
      /\ UNCHANGED <<asking, learnt, cached>>
    BY PeopleKeepTypes DEF LandingInv
<1>2. NothingKeptWhileAsking'
    BY <1>1 DEF LandingInv, NothingKeptWhileAsking
<1>3. LearntIsSo' /\ LandedIsSo' /\ LandingIsHeard'
  <2>1. CASE woken' \/ unheard'
    BY <2>1 DEF LearntIsSo, LandedIsSo, LandingIsHeard
  <2>2. CASE Still
    BY <2>2, StillIsSo DEF LandingInv, LandingTypes
  <2> QED  BY <2>1, <2>2, PeopleAreHeard DEF LandingInv
<1> QED  BY <1>1, <1>2, <1>3 DEF LandingInv

LEMMA RestingKeepsInv ==
    ASSUME LandingInv, UNCHANGED landing PROVE LandingInv'
<1>1. /\ UNCHANGED <<commits, head, detached, upstream, edited, link, main, branch>>
      /\ UNCHANGED <<asking, learnt, cached, woken, tips, unheard>>
    BY DEF landing, worktree, history
<1>2. Still
    BY <1>1 DEF Still
<1>3. LandingTypes' /\ Rooted' /\ MainIsATip' /\ NothingKeptWhileAsking'
    BY <1>1 DEF LandingInv, LandingTypes, Rooted, MainIsATip, NothingKeptWhileAsking
<1>4. LearntIsSo' /\ LandedIsSo' /\ LandingIsHeard'
    BY <1>2, StillIsSo DEF LandingInv, LandingTypes
<1> QED  BY <1>3, <1>4 DEF LandingInv

THEOREM LandingInvariant == WorktreesSpec => []LandingInv
<1>1. LandingInv /\ [WorktreesNext]_landing => LandingInv'
  <2> SUFFICES ASSUME LandingInv, [WorktreesNext]_landing PROVE LandingInv'
    OBVIOUS
  <2>1. CASE Questioning
    BY <2>1, QuestionsKeepInv
  <2>2. CASE People
    BY <2>2, PeopleKeepInv
  <2>3. CASE UNCHANGED landing
    BY <2>3, RestingKeepsInv
  <2> QED  BY <2>1, <2>2, <2>3 DEF WorktreesNext, Questioning, People
<1>2. WorktreesInit => LandingInv
    BY LandingInit
<1> QED  BY <1>1, <1>2, PTL DEF WorktreesSpec

(* A worktree said to be landed has nothing of its own that the default       *)
(* branch has not held since the questions began, whoever fetched between     *)
(* two of them (observe/git.rs: landing).                                   *)
THEOREM OnlyTheLandedIsSaidToBe == WorktreesSpec => []LandedIsThere
<1>1. LandingInv => LandedIsThere
  <2> SUFFICES ASSUME LandingInv, cached = "landed", ~woken, ~unheard,
                      HeadOf(detached, upstream, branch) # "upstream-gone"
               PROVE  ~edited /\ \A p \in OwnWork : IsThere(p)
    BY DEF LandedIsThere
  <2>1. Landed
    BY DEF LandingInv, LandedIsSo
  <2>2. CASE \E t \in tips : head \in commits[t].all
    <3>1. PICK t \in tips : head \in commits[t].all
        BY <2>2
    <3>2. commits[head].all \subseteq commits[t].all
        BY <3>1 DEF LandingInv, LandingTypes, Rooted
    <3>3. OwnWork = {}
        BY <3>1, <3>2 DEF OwnWork
    <3> QED  BY <2>1, <3>3 DEF Landed
  <2>3. CASE \A p \in Paths : IsThere(p)
    BY <2>1, <2>3 DEF OwnWork, Landed
  <2> QED  BY <2>1, <2>2, <2>3 DEF Landed
<1> QED  BY <1>1, LandingInvariant, PTL

(* No answer that work has not landed outlives the fetch, merge or checkout   *)
(* that makes it land: the hook of each is relevant (event.rs: relevance).   *)
THEOREM LandingsAreHeard == WorktreesSpec => []LandingIsHeard
<1>1. LandingInv => LandingIsHeard
    BY DEF LandingInv
<1> QED  BY <1>1, LandingInvariant, PTL

-------------------------------------------------------------------------------
(* What is shared of what a session knows.                                  *)

Recorded(p) == stocks[p[1]].files[p].inode

(* A file that is known as it is, and was not written again.                 *)
Sound(p) ==
    /\ stocks[p[1]].part /\ Recorded(p) = disk[p] /\ disk[p] \notin {0} \cup passed

(* Two such files that are equal, and lie apart.                             *)
Unshared(p, q) ==
    /\ p # q /\ Sound(p) /\ Sound(q)
    /\ data[disk[p]].contents = data[disk[q]].contents
    /\ data[disk[p]].cluster # data[disk[q]].cluster

IsFresh(p) == fresh.all \/ \E f \in fresh.of : f.inode = disk[p]

PoolTypes ==
    /\ method \in Methods
    /\ data \in Seq([contents : DOMAIN LengthOf, cluster : Int])
    /\ disk \in [Places -> Nat]
    /\ stocks \in [Roots -> [part : BOOLEAN,
                             files : [Places -> [inode : Nat, length : Nat, cluster : Int]]]]
    /\ \A p \in Places : disk[p] <= Len(data) /\ Recorded(p) <= Len(data)
    /\ heard \in [Roots -> SUBSET Places]
    /\ fresh \in [all : BOOLEAN, of : SUBSET [inode : Nat, length : Nat]]
    /\ writes \in Nat

(* An inode is of one place for good.                                        *)
Homes ==
    /\ \A p, q \in Places : (disk[p] # 0 /\ disk[q] = disk[p]) => p = q
    /\ \A p, q \in Places : (disk[p] # 0 /\ Recorded(q) = disk[p]) => p = q
    /\ \A r \in Roots, p \in Places :
          (p[1] # r \/ ~stocks[r].part) => stocks[r].files[p] = None

(* What is known of a file that was not written again is what it is.         *)
Accurate == \A p \in Places : Sound(p) => stocks[p[1]].files[p] = Facts(p)

(* What a turn is about.                                                     *)
Turns ==
    /\ \A r \in Roots : heard[r] \subseteq FilesIn(r)
    /\ doing = "start" => fresh = AllOfThem /\ names \subseteq Roots
    /\ doing \in {"stock", "note"} => root \in Roots /\ names \subseteq FilesIn(root)
    /\ doing = "plan" => \A p \in Places, f \in fresh.of :
          f.inode = Recorded(p) => f.length = stocks[p[1]].files[p].length

(* The pairs are of files that are known, and none is kept and replaced.     *)
Paired ==
    doing = "settle" => \A x \in pairs :
      /\ \E k, o \in Indexed : k # o /\ x.kept = Item(k) /\ x.other = Item(o)
      /\ \A y \in pairs : x.kept # y.other

(* Two equal files that lie apart are under way to each other.               *)
UnderWay ==
    \A p, q \in Places : Unshared(p, q) =>
      \/ doing = "start"
      \/ doing = "plan" /\ (IsFresh(p) \/ IsFresh(q))
      \/ doing = "settle" /\ \E x \in pairs : x.pairing = "share" /\ x.other \in {Item(p), Item(q)}

PoolInv == PoolTypes /\ Homes /\ Accurate /\ Turns /\ Paired /\ UnderWay

-------------------------------------------------------------------------------
(* Places are numbered in their order.                                      *)
LEMMA KeysDiffer ==
    \A p, q \in Places :
        /\ Key(p) \in 1..Cardinality(Places)
        /\ Key(q) = Key(p) => p = q
<1> DEFINE Upto(x) == {s \in Places : s[1] < x[1] \/ (s[1] = x[1] /\ s[2] <= x[2])}
<1>1. \A p \in Places : p = <<p[1], p[2]>> /\ p[1] \in Nat /\ p[2] \in Nat
  BY PoolAssumption
<1>2. ASSUME NEW p \in Places
      PROVE  IsFiniteSet(Upto(p)) /\ Cardinality(Upto(p)) \in 1..Cardinality(Places)
  <2>1. Upto(p) \in SUBSET Places /\ p \in Upto(p)
    BY <1>1
  <2>2. IsFiniteSet(Upto(p)) /\ Cardinality(Upto(p)) <= Cardinality(Places)
    BY <2>1, PoolAssumption, FS_Subset
  <2>3. Cardinality(Upto(p)) \in Nat /\ Cardinality(Upto(p)) # 0 /\ Cardinality(Places) \in Nat
    BY <2>1, <2>2, PoolAssumption, FS_CardinalityType, FS_EmptySet
  <2> HIDE DEF Upto
  <2> QED BY <2>1, <2>2, <2>3
<1>3. ASSUME NEW p \in Places, NEW q \in Places,
             p[1] < q[1] \/ (p[1] = q[1] /\ p[2] < q[2])
      PROVE  Cardinality(Upto(p)) # Cardinality(Upto(q))
  <2>1. Upto(p) \in SUBSET Upto(q) /\ q \in Upto(q) /\ q \notin Upto(p)
    BY <1>1, <1>3
  <2>2. IsFiniteSet(Upto(q))
    BY <1>2
  <2> HIDE DEF Upto
  <2> QED BY <2>1, <2>2, FS_Subset
<1>4. ASSUME NEW p \in Places, NEW q \in Places, Cardinality(Upto(q)) = Cardinality(Upto(p))
      PROVE  p = q
  <2>1. \/ p[1] = q[1] /\ p[2] = q[2]
        \/ p[1] < q[1] \/ (p[1] = q[1] /\ p[2] < q[2])
        \/ q[1] < p[1] \/ (q[1] = p[1] /\ q[2] < p[2])
    BY <1>1
  <2>2. CASE p[1] = q[1] /\ p[2] = q[2]
    BY <1>1, <2>2, Zenon
  <2> HIDE DEF Upto
  <2> QED BY <1>3, <1>4, <2>1, <2>2
<1> HIDE DEF Upto
<1>5. \A p \in Places : Key(p) = Cardinality(Upto(p))
  BY DEF Key, Upto
<1> QED
  BY <1>2, <1>4, <1>5

LEMMA Located == ASSUME NEW p \in Places PROVE p[1] \in Roots /\ Key(p) \in Nat
<1>1. Cardinality(Places) \in Nat
  BY PoolAssumption, FS_CardinalityType
<1>2. Key(p) \in 1..Cardinality(Places)
  BY KeysDiffer
<1>3. p[1] \in Roots
  BY DEF Roots
<1> QED BY <1>1, <1>2, <1>3

LEMMA ItemOf ==
    ASSUME NEW p \in Places
    PROVE  /\ PlaceOf(Item(p)) = p /\ Item(p).place = Key(p) /\ Item(p).file = Recorded(p)
           /\ Item(p).volume = 1 /\ Item(p).links = 1 /\ Item(p).owner = "caller"
           /\ Item(p).mode = "plain" /\ Item(p).method = method
           /\ Item(p).len = stocks[p[1]].files[p].length
           /\ Item(p).cluster = stocks[p[1]].files[p].cluster
           /\ Item(p).extras = IF method = "dedupe-range" THEN "unobserved" ELSE "plain"
<1>1. Item(p).place = Key(p)
  BY DEF Item
<1>2. PlaceOf(Item(p)) = p
  BY <1>1, KeysDiffer DEF PlaceOf
<1> QED BY <1>1, <1>2 DEF Item, Recorded

LEMMA OneItem == \A p, q \in Places : Item(p) = Item(q) => p = q
  BY ItemOf, KeysDiffer

(* Of some numbers one is the least.                                        *)
LEMMA LeastExists == ASSUME NEW S, S \subseteq Nat, S # {} PROVE \E n \in S : \A m \in S : n <= m
<1>1. PICK n \in S : \A m \in S : ~(<<m, n>> \in OpToRel(<, Nat))
  BY NatLessThanWellFounded, WFMin
<1>2. \A m \in S : ~(m < n)
  BY <1>1 DEF OpToRel
<1> QED BY <1>2

LEMMA TwoAreMany ==
    ASSUME NEW S, IsFiniteSet(S), NEW x \in S, NEW y \in S, x # y PROVE Cardinality(S) > 1
<1>1. {x, y} \in SUBSET S /\ {x, y} = {x} \cup {y}
  OBVIOUS
<1>2. IsFiniteSet({x}) /\ Cardinality({x}) = 1
  BY FS_Singleton
<1>3. Cardinality({x, y}) = 2
  BY <1>1, <1>2, FS_AddElement
<1>4. Cardinality({x, y}) <= Cardinality(S)
  BY <1>1, FS_Subset
<1>5. Cardinality(S) \in Nat
  BY FS_CardinalityType
<1> QED BY <1>3, <1>4, <1>5

(* There are finitely many families of finitely many files.                 *)
LEMMA FamiliesFinite == ASSUME NEW S, IsFiniteSet(S) PROVE IsFiniteSet(Families(S))
<1> DEFINE f == [r \in S |-> Family(r)]
<1>1. f \in Surjection(S, Families(S))
  BY DEF Surjection, Families
<1> QED BY <1>1, FS_Surjection

(* Among finitely many files one is preferred to every other.               *)
LEMMA KeeperIsOne ==
    ASSUME NEW S, IsFiniteSet(S), S # {}, \A r \in S : r.place \in Nat
    PROVE  Keeper(S) \in S /\ \A s \in S : Preferred(S, Keeper(S), s)
<1>1. \A r \in S : FamilySize(S, r) \in Nat /\ FamilySize(S, r) <= Cardinality(S)
  <2> SUFFICES ASSUME NEW r \in S
               PROVE FamilySize(S, r) \in Nat /\ FamilySize(S, r) <= Cardinality(S)
    OBVIOUS
  <2> DEFINE T == {s \in S : Family(s) = Family(r)}
  <2>1. T \in SUBSET S
    OBVIOUS
  <2>2. IsFiniteSet(T) /\ Cardinality(T) <= Cardinality(S)
    BY <2>1, FS_Subset
  <2>3. Cardinality(T) \in Nat
    BY <2>2, FS_CardinalityType
  <2> QED BY <2>2, <2>3 DEF FamilySize
<1>2. Cardinality(S) \in Nat
  BY FS_CardinalityType
<1>3. PICK m \in S : \A s \in S : FamilySize(S, m) >= FamilySize(S, s)
  <2> DEFINE T == {Cardinality(S) - FamilySize(S, s) : s \in S}
  <2>1. T \subseteq Nat /\ T # {}
    BY <1>1, <1>2
  <2>2. PICK n \in T : \A k \in T : n <= k
    BY <2>1, LeastExists
  <2>3. PICK s \in S : n = Cardinality(S) - FamilySize(S, s)
    BY <2>2
  <2>4. \A k \in S : Cardinality(S) - FamilySize(S, s) <= Cardinality(S) - FamilySize(S, k)
    BY <2>2, <2>3
  <2> QED BY <1>1, <1>2, <2>4
<1> DEFINE Large == {s \in S : FamilySize(S, s) = FamilySize(S, m)}
           Best == IF \E s \in Large : Fixed(s) THEN {s \in Large : Fixed(s)} ELSE Large
           Numbers == {s.place : s \in Best}
<1>4. Best # {} /\ Best \subseteq Large /\ Large \subseteq S /\ m \in Large
  OBVIOUS
<1>5. Numbers \subseteq Nat /\ Numbers # {}
  BY <1>4
<1>6. PICK n \in Numbers : \A k \in Numbers : n <= k
  BY <1>5, LeastExists
<1>7. PICK r \in Best : n = r.place
  BY <1>6
<1>8. \A s \in Best : r.place <= s.place
  BY <1>6, <1>7
<1>9. r \in S /\ FamilySize(S, r) = FamilySize(S, m)
  BY <1>4, <1>7
<1>10. ASSUME NEW s \in S PROVE Preferred(S, r, s)
  <2>1. FamilySize(S, r) > FamilySize(S, s) \/ FamilySize(S, r) = FamilySize(S, s)
    BY <1>1, <1>3, <1>9
  <2>2. ASSUME FamilySize(S, r) = FamilySize(S, s)
        PROVE  (Fixed(r) /\ ~Fixed(s)) \/ ((Fixed(r) <=> Fixed(s)) /\ r.place <= s.place)
    <3>1. s \in Large
      BY <1>9, <2>2
    <3>2. CASE Fixed(r) /\ ~Fixed(s)
      BY <3>2
    <3>3. CASE Fixed(r) /\ Fixed(s)
      BY <1>7, <1>8, <3>1, <3>3
    <3>4. CASE ~Fixed(r)
      <4>1. Best = Large /\ ~Fixed(s)
        BY <1>7, <3>1, <3>4
      <4> QED BY <1>8, <3>1, <3>4, <4>1
    <3> QED BY <3>2, <3>3, <3>4
  <2> QED BY <2>1, <2>2 DEF Preferred
<1> QED
  BY <1>9, <1>10 DEF Keeper

-------------------------------------------------------------------------------
LEMMA SameEnd == ASSUME NEW m \in Nat, NEW n \in Nat, 1..m = 1..n PROVE m = n
<1>1. m = 0 \/ m \in 1..m
  OBVIOUS
<1>2. n = 0 \/ n \in 1..n
  OBVIOUS
<1> QED BY <1>1, <1>2

(* It holds when a session starts: inodes are numbered as files lie.        *)
LEMMA PoolStarts == ASSUME PoolInit PROVE PoolInv
<1> DEFINE n == Cardinality(Places)
<1>1. n \in Nat
  BY PoolAssumption, FS_CardinalityType
<1>2. PICK contents \in [1..n -> DOMAIN LengthOf] :
        data = [i \in 1..n |-> [contents |-> contents[i], cluster |-> i]]
  <2>1. PICK contents \in First :
          data = [i \in DOMAIN contents |-> [contents |-> contents[i], cluster |-> i]]
    BY DEF PoolInit
  <2>2. contents \in [1..n -> DOMAIN LengthOf]
    BY <2>1, PoolAssumption
  <2> QED BY <2>1, <2>2
<1>3. data \in Seq([contents : DOMAIN LengthOf, cluster : Int]) /\ Len(data) = n
  <2> HIDE DEF n
  <2>1. data \in [1..n -> [contents : DOMAIN LengthOf, cluster : Int]]
    BY <1>1, <1>2
  <2>2. data \in Seq([contents : DOMAIN LengthOf, cluster : Int])
    <3> DEFINE R == [contents : DOMAIN LengthOf, cluster : Int]
    <3> HIDE DEF R
    <3>1. data \in [1..n -> R]
      BY <2>1 DEF R
    <3>2. data \in UNION {[1..m -> R] : m \in Nat}
      BY <1>1, <3>1
    <3>3. data \in Seq(R)
      BY <3>2, SeqDef, Zenon
    <3> QED BY <3>3 DEF R
  <2>3. Len(data) \in Nat /\ DOMAIN data = 1..Len(data) /\ DOMAIN data = 1..n
    BY <2>1, <2>2, LenProperties
  <2>4. Len(data) = n
    <3>1. 1..Len(data) = 1..n
      BY <2>3
    <3> QED BY <1>1, <2>3, <3>1, SameEnd
  <2> QED BY <2>2, <2>4
<1>4. /\ \A p \in Places : disk[p] \in 1..n
      /\ \A p, q \in Places : disk[q] = disk[p] => p = q
      /\ disk \in [Places -> Nat]
  <2>1. /\ DOMAIN disk = Places
        /\ \A p \in Places : disk[p] = Key(p)
        /\ disk = [p \in Places |-> disk[p]]
    BY DEF PoolInit
  <2>2. /\ \A p \in Places : disk[p] \in 1..n
        /\ \A p, q \in Places : disk[q] = disk[p] => p = q
    BY <2>1, KeysDiffer
  <2> HIDE DEF n
  <2>3. \A p \in Places : disk[p] \in Nat
    BY <1>1, <2>2
  <2> QED BY <2>1, <2>2, <2>3
<1>5. /\ \A r \in Roots : stocks[r] = Apart
      /\ stocks \in [Roots -> [part : BOOLEAN,
                               files : [Places -> [inode : Nat, length : Nat, cluster : Int]]]]
  BY DEF PoolInit, Apart, None
<1>6. /\ \A r \in Roots, p \in Places : ~stocks[r].part /\ stocks[r].files[p] = None
      /\ \A p \in Places : Recorded(p) = 0 /\ ~Sound(p)
  <2>1. \A r \in Roots, p \in Places : ~stocks[r].part /\ stocks[r].files[p] = None
    BY <1>5 DEF Apart
  <2> QED BY <2>1, Located DEF Recorded, Sound, None
<1>7. PoolTypes
  <2>1. method \in Methods /\ writes \in Nat /\ heard \in [Roots -> SUBSET Places]
        /\ fresh \in [all : BOOLEAN, of : SUBSET [inode : Nat, length : Nat]]
    BY DEF PoolInit, AllOfThem
  <2>2. \A p \in Places : disk[p] <= Len(data) /\ Recorded(p) <= Len(data)
    <3> HIDE DEF n
    <3> QED BY <1>1, <1>3, <1>4, <1>6
  <2> QED BY <1>3, <1>4, <1>5, <2>1, <2>2 DEF PoolTypes
<1>8. Homes
  BY <1>4, <1>6 DEF Homes
<1>9. Accurate /\ UnderWay
  BY <1>6 DEF Accurate, UnderWay, Unshared
<1>10. Turns /\ Paired
  BY DEF PoolInit, Turns, Paired
<1> QED BY <1>7, <1>8, <1>9, <1>10 DEF PoolInv

-------------------------------------------------------------------------------
(* What builds do.                                                          *)

(* A file that stays sound is what it was, and two lie apart as they did.   *)
LEMMA SoundGoesOn ==
    ASSUME PoolInv, UNCHANGED <<method, stocks>>,
           \A s \in Places : Sound(s)' =>
              Sound(s) /\ disk'[s] = disk[s] /\ data'[disk[s]] = data[disk[s]]
    PROVE  Accurate' /\ \A p, q \in Places : Unshared(p, q)' => Unshared(p, q)
<1>1. ASSUME NEW s \in Places, Sound(s)' PROVE stocks'[s[1]].files[s] = Facts(s)'
  <2>1. stocks[s[1]].files[s] = Facts(s)
    BY <1>1 DEF PoolInv, Accurate
  <2>2. /\ Sound(s) /\ disk'[s] = disk[s] /\ data'[disk[s]] = data[disk[s]]
        /\ method' = method /\ stocks' = stocks
    BY <1>1
  <2> QED BY <2>1, <2>2 DEF Facts
<1>2. ASSUME NEW p \in Places, NEW q \in Places, Unshared(p, q)' PROVE Unshared(p, q)
  <2>1. Sound(p)' /\ Sound(q)'
    BY <1>2 DEF Unshared
  <2> QED BY <1>2, <2>1 DEF Unshared
<1> QED
  BY <1>1, <1>2 DEF Accurate

(* While the turn rests, nothing that is not under way comes to lie apart.  *)
LEMMA TurnRests ==
    ASSUME PoolInv, UNCHANGED <<method, stocks, doing, root, names, fresh, pairs>>,
           \A s \in Places : Sound(s)' =>
              Sound(s) /\ disk'[s] = disk[s] /\ data'[disk[s]] = data[disk[s]]
    PROVE  Accurate' /\ Paired' /\ UnderWay'
<1>1. Accurate' /\ \A p, q \in Places : Unshared(p, q)' => Unshared(p, q)
  BY SoundGoesOn
<1>2. /\ \A p \in Places : Item(p)' = Item(p)
      /\ Indexed' = Indexed /\ Indexed \subseteq Places
  BY DEF Item, Indexed
<1>3. Paired'
  BY <1>2 DEF PoolInv, Paired
<1>4. UnderWay'
  <2> SUFFICES ASSUME NEW p \in Places, NEW q \in Places, Unshared(p, q)'
               PROVE  \/ doing' = "start"
                      \/ doing' = "plan" /\ (IsFresh(p)' \/ IsFresh(q)')
                      \/ /\ doing' = "settle"
                         /\ \E x \in pairs' : /\ x.pairing = "share"
                                              /\ x.other \in {Item(p)', Item(q)'}
    BY DEF UnderWay
  <2>1. Unshared(p, q) /\ disk'[p] = disk[p] /\ disk'[q] = disk[q]
    BY <1>1 DEF Unshared
  <2>2. \/ doing = "start"
        \/ doing = "plan" /\ (IsFresh(p) \/ IsFresh(q))
        \/ doing = "settle" /\ \E x \in pairs : x.pairing = "share" /\ x.other \in {Item(p), Item(q)}
    BY <2>1 DEF PoolInv, UnderWay
  <2>3. (IsFresh(p)' <=> IsFresh(p)) /\ (IsFresh(q)' <=> IsFresh(q))
    BY <2>1 DEF IsFresh
  <2> QED BY <1>2, <2>2, <2>3
<1> QED BY <1>1, <1>3, <1>4

(* What is known is said of the files there are.                            *)
LEMMA FilesRest ==
    ASSUME PoolInv, UNCHANGED <<method, disk, data, stocks, passed>>
    PROVE  /\ Homes' /\ Accurate'
           /\ \A p, q \in Places : Unshared(p, q)' <=> Unshared(p, q)
           /\ \A p \in Places : Recorded(p)' = Recorded(p) /\ Item(p)' = Item(p)
           /\ \A p \in Places : Sound(p)' <=> Sound(p)
           /\ \A p \in Places : disk[p] <= Len(data)' /\ Recorded(p) <= Len(data)'
           /\ Indexed' = Indexed
<1>1. \A p \in Places : Recorded(p)' = Recorded(p) /\ Item(p)' = Item(p) /\ Facts(p)' = Facts(p)
  BY DEF Recorded, Item, Facts
<1>2. \A p \in Places : Sound(p)' <=> Sound(p)
  BY <1>1 DEF Sound
<1>3. \A p, q \in Places : Unshared(p, q)' <=> Unshared(p, q)
  BY <1>2 DEF Unshared
<1>4. Homes'
  BY <1>1 DEF PoolInv, Homes, None
<1>5. Accurate'
  BY <1>1, <1>2 DEF PoolInv, Accurate
<1> QED
  BY <1>1, <1>2, <1>3, <1>4, <1>5 DEF PoolInv, PoolTypes, Indexed

LEMMA LocksKeep ==
    ASSUME PoolInv, NEW r \in Roots, BuildTakes(r) \/ BuildLeaves(r) PROVE PoolInv'
<1>1. UNCHANGED <<method, disk, data, stocks, passed, doing, root, names, fresh, pairs, heard,
                  again, writes>>
  BY DEF BuildTakes, BuildLeaves, Beside
<1>2. PoolTypes' /\ Turns'
  BY <1>1, FilesRest DEF PoolInv, PoolTypes, Turns, Recorded, FilesIn, AllOfThem
<1>3. Accurate' /\ Paired' /\ UnderWay'
  BY <1>1, FilesRest, TurnRests
<1> QED BY <1>1, <1>2, <1>3, FilesRest DEF PoolInv

LEMMA LoseKeeps == ASSUME PoolInv, Lose PROVE PoolInv'
<1>1. /\ UNCHANGED <<method, disk, data, stocks, passed, doing, root, names, fresh, pairs,
                     again, writes>>
      /\ heard' = [r \in Roots |-> FilesIn(r)]
  BY DEF Lose, Beside
<1>2. heard' \in [Roots -> SUBSET Places] /\ \A r \in Roots : heard'[r] \subseteq FilesIn(r)
  BY <1>1 DEF FilesIn
<1>3. PoolTypes' /\ Turns'
  BY <1>1, <1>2, FilesRest DEF PoolInv, PoolTypes, Turns, Recorded, FilesIn, AllOfThem
<1>4. Accurate' /\ Paired' /\ UnderWay'
  BY <1>1, FilesRest, TurnRests
<1> QED BY <1>1, <1>3, <1>4, FilesRest DEF PoolInv

(* A build changes one file, and what was made of it before is told.        *)
RewrittenSo(p) ==
    /\ data' \in Seq([contents : DOMAIN LengthOf, cluster : Int]) /\ disk' \in [Places -> Nat]
    /\ Len(data') \in Nat /\ Len(data) <= Len(data') /\ disk'[p] <= Len(data')
    /\ \A s \in Places : s # p => disk'[s] = disk[s]
    /\ disk'[p] = disk[p] \/ disk'[p] = 0 \/ disk'[p] > Len(data)
    /\ passed \subseteq passed'
    /\ \/ disk'[p] # Recorded(p) \/ disk'[p] = 0 \/ disk'[p] \in passed'
    /\ \A s \in Places : (s # p /\ disk[s] # 0) => data'[disk[s]] = data[disk[s]]

LEMMA RewritesKeep == ASSUME PoolInv, NEW p \in Places, BuildRewrites(p) PROVE PoolInv'
<1>1. /\ UNCHANGED <<method, stocks, doing, root, names, fresh, pairs, again>>
      /\ writes' = writes + 1 /\ p[1] \in Roots
      /\ heard' = [heard EXCEPT ![p[1]] = @ \cup {p}]
  BY Located DEF BuildRewrites, Beside
<1>2. PoolTypes /\ Homes
  BY DEF PoolInv
<1>3. /\ Len(data) \in Nat /\ DOMAIN data = 1..Len(data)
      /\ \A s \in Places : disk[s] \in Nat /\ disk[s] <= Len(data)
                           /\ Recorded(s) \in Nat /\ Recorded(s) <= Len(data)
  BY <1>2, Located DEF PoolTypes, Recorded
<1>4. RewrittenSo(p)
  <2>1. ASSUME NEW c \in Rewritten, data' = Append(data, [contents |-> c, cluster |-> -writes']),
               disk' = [disk EXCEPT ![p] = Len(data')], passed' = passed
        PROVE  RewrittenSo(p)
    <3>1. [contents |-> c, cluster |-> -writes'] \in [contents : DOMAIN LengthOf, cluster : Int]
      BY <1>1, <1>2, PoolAssumption DEF PoolTypes
    <3>2. /\ data' \in Seq([contents : DOMAIN LengthOf, cluster : Int])
          /\ Len(data') = Len(data) + 1
          /\ \A i \in 1..Len(data) : data'[i] = data[i]
      BY <1>2, <2>1, <3>1 DEF PoolTypes
    <3>3. disk' \in [Places -> Nat] /\ disk'[p] = Len(data) + 1
          /\ \A s \in Places : s # p => disk'[s] = disk[s]
      BY <1>2, <1>3, <2>1, <3>2 DEF PoolTypes
    <3>4. disk'[p] # Recorded(p) /\ disk'[p] > Len(data)
      BY <1>3, <3>3
    <3>5. \A s \in Places : (s # p /\ disk[s] # 0) => data'[disk[s]] = data[disk[s]]
      BY <1>3, <3>2
    <3> QED BY <1>3, <2>1, <3>2, <3>3, <3>4, <3>5 DEF RewrittenSo
  <2>2. ASSUME disk[p] # 0, NEW c \in Rewritten, disk' = disk,
               data' = [data EXCEPT ![disk[p]] = [contents |-> c, cluster |-> -writes']],
               passed' = passed \cup ({disk[p]} \cap Known)
        PROVE  RewrittenSo(p)
    <3>1. [contents |-> c, cluster |-> -writes'] \in [contents : DOMAIN LengthOf, cluster : Int]
      BY <1>1, <1>2, PoolAssumption DEF PoolTypes
    <3>2. disk[p] \in 1..Len(data)
      BY <1>3, <2>2
    <3>3. /\ data' \in Seq([contents : DOMAIN LengthOf, cluster : Int])
          /\ Len(data') = Len(data)
          /\ \A i \in 1..Len(data) : i # disk[p] => data'[i] = data[i]
      BY <1>2, <2>2, <3>1, <3>2 DEF PoolTypes
    <3>4. disk'[p] # Recorded(p) \/ disk'[p] \in passed'
      BY <2>2 DEF Known, Recorded
    <3>5. \A s \in Places : (s # p /\ disk[s] # 0) => data'[disk[s]] = data[disk[s]]
      BY <1>2, <1>3, <2>2, <3>3 DEF Homes
    <3> QED BY <1>2, <1>3, <2>2, <3>3, <3>4, <3>5 DEF PoolTypes, RewrittenSo
  <2>3. ASSUME disk[p] # 0, disk' = [disk EXCEPT ![p] = 0], data' = data, passed' = passed
        PROVE  RewrittenSo(p)
    BY <1>2, <1>3, <2>3 DEF PoolTypes, RewrittenSo
  <2> QED BY <2>1, <2>2, <2>3 DEF BuildRewrites
<1>5. \A s \in Places : Recorded(s)' = Recorded(s)
  BY <1>1 DEF Recorded
<1>6. ASSUME NEW s \in Places, Sound(s)'
      PROVE  Sound(s) /\ disk'[s] = disk[s] /\ data'[disk[s]] = data[disk[s]]
  <2>1. s # p
    BY <1>4, <1>5, <1>6 DEF Sound, RewrittenSo
  <2> QED BY <1>1, <1>4, <1>5, <1>6, <2>1 DEF Sound, RewrittenSo
<1>7. PoolTypes'
  <2>1. heard' \in [Roots -> SUBSET Places]
    BY <1>1, <1>2 DEF PoolTypes
  <2>2. \A s \in Places : disk'[s] <= Len(data') /\ Recorded(s)' <= Len(data')
    BY <1>3, <1>4, <1>5 DEF RewrittenSo
  <2> QED BY <1>1, <1>2, <1>4, <2>1, <2>2 DEF PoolTypes, RewrittenSo
<1>8. Homes'
  <2>1. ASSUME NEW s \in Places, NEW t \in Places, disk'[s] # 0, disk'[t] = disk'[s]
        PROVE  s = t
    BY <1>2, <1>3, <1>4, <2>1 DEF Homes, RewrittenSo
  <2>2. ASSUME NEW s \in Places, NEW t \in Places, disk'[s] # 0, Recorded(t)' = disk'[s]
        PROVE  s = t
    BY <1>2, <1>3, <1>4, <1>5, <2>2 DEF Homes, RewrittenSo
  <2> QED BY <1>1, <1>2, <2>1, <2>2 DEF Homes, None
<1>9. Accurate' /\ Paired' /\ UnderWay'
  BY <1>1, <1>6, TurnRests
<1>10. Turns'
  <2>1. \A r \in Roots : heard'[r] \subseteq FilesIn(r)
    BY <1>1, <1>2 DEF PoolInv, Turns, PoolTypes, FilesIn
  <2> QED BY <1>1, <1>5, <2>1 DEF PoolInv, Turns, FilesIn, AllOfThem
<1> QED BY <1>7, <1>8, <1>9, <1>10 DEF PoolInv

-------------------------------------------------------------------------------
(* What a session takes in.                                                 *)

LEMMA ProcessKeeps == ASSUME PoolInv, NEW r \in Roots, Process(r) PROVE PoolInv'
<1>1. /\ UNCHANGED <<method, disk, data, stocks, passed, fresh, pairs, writes>>
      /\ doing = "wait" /\ doing' \in {"stock", "note"} /\ root' = r /\ names' = heard[r]
      /\ heard' = [heard EXCEPT ![r] = {}]
  BY DEF Process, Turn
<1>2. PoolTypes'
  BY <1>1, FilesRest DEF PoolInv, PoolTypes
<1>3. Turns'
  BY <1>1 DEF PoolInv, PoolTypes, Turns, FilesIn
<1>4. Paired' /\ UnderWay'
  BY <1>1, FilesRest DEF PoolInv, Paired, UnderWay
<1> QED BY <1>1, <1>2, <1>3, <1>4, FilesRest DEF PoolInv

LEMMA DoneKeeps == ASSUME PoolInv, Done PROVE PoolInv'
<1>1. /\ UNCHANGED <<method, disk, data, stocks, passed, heard, pairs, writes>>
      /\ doing = "settle" /\ pairs = {} /\ doing' = "wait" /\ fresh' = Only({})
  BY DEF Done, Turn
<1>2. PoolTypes'
  BY <1>1, FilesRest DEF PoolInv, PoolTypes, Only
<1>3. Turns'
  BY <1>1 DEF PoolInv, Turns, FilesIn
<1>4. Paired' /\ UnderWay'
  BY <1>1, FilesRest DEF PoolInv, Paired, UnderWay
<1> QED BY <1>1, <1>2, <1>3, <1>4, FilesRest DEF PoolInv

(* A cache that was made anew is unknown.                                   *)
LEMMA AppearKeeps == ASSUME PoolInv, NEW r \in Roots, Appear(r) PROVE PoolInv'
<1>1. /\ UNCHANGED <<method, data, doing, root, names, fresh, pairs, passed, writes>>
      /\ doing = "wait" /\ PoolTypes /\ Homes
      /\ disk' = [p \in Places |-> IF p \in FilesIn(r) THEN 0 ELSE disk[p]]
      /\ stocks' = [stocks EXCEPT ![r] = Apart]
      /\ heard' = [heard EXCEPT ![r] = {}]
  BY DEF Appear, PoolInv
<1>2. \A p \in Places :
        /\ p[1] \in Roots
        /\ p[1] = r => disk'[p] = 0 /\ Recorded(p)' = 0
        /\ p[1] # r => disk'[p] = disk[p] /\ stocks'[p[1]] = stocks[p[1]]
                       /\ Recorded(p)' = Recorded(p)
  <2>1. \A p \in Places : p[1] \in Roots
    BY Located
  <2> QED BY <1>1, <2>1 DEF Recorded, FilesIn, Apart, None, PoolTypes
<1>3. PoolTypes'
  <2>1. disk' \in [Places -> Nat] /\ heard' \in [Roots -> SUBSET Places]
    BY <1>1 DEF PoolTypes
  <2>2. Apart \in [part : BOOLEAN, files : [Places -> [inode : Nat, length : Nat, cluster : Int]]]
    BY DEF Apart, None
  <2>3. stocks' \in [Roots -> [part : BOOLEAN,
                              files : [Places -> [inode : Nat, length : Nat, cluster : Int]]]]
    BY <1>1, <2>2 DEF PoolTypes
  <2>4. \A p \in Places : disk'[p] <= Len(data') /\ Recorded(p)' <= Len(data')
    <3>1. Len(data) \in Nat /\ \A p \in Places : disk[p] <= Len(data) /\ Recorded(p) <= Len(data)
      BY <1>1 DEF PoolTypes
    <3> QED BY <1>1, <1>2, <3>1
  <2> QED BY <1>1, <2>1, <2>3, <2>4 DEF PoolTypes
<1>4. Homes'
  <2>1. \A o \in Roots, p \in Places :
          (p[1] # o \/ ~stocks'[o].part) => stocks'[o].files[p] = None
    BY <1>1 DEF Homes, PoolTypes, Apart
  <2>2. \A p, q \in Places : (disk'[p] # 0 /\ disk'[q] = disk'[p]) => p = q
    BY <1>1, <1>2 DEF Homes
  <2>3. \A p, q \in Places : (disk'[p] # 0 /\ Recorded(q)' = disk'[p]) => p = q
    BY <1>1, <1>2 DEF Homes
  <2> QED BY <2>1, <2>2, <2>3 DEF Homes, None
<1>5. ASSUME NEW p \in Places, Sound(p)'
      PROVE  Sound(p) /\ disk'[p] = disk[p] /\ stocks'[p[1]] = stocks[p[1]]
  BY <1>1, <1>2, <1>5 DEF Sound
<1>6. Accurate'
  BY <1>1, <1>5 DEF PoolInv, Accurate, Facts
<1>7. Turns'
  BY <1>1 DEF PoolInv, PoolTypes, Turns, FilesIn
<1>8. Paired' /\ UnderWay'
  <2>1. \A p, q \in Places : Unshared(p, q)' => Unshared(p, q)
    BY <1>1, <1>5 DEF Unshared
  <2>2. \A p, q \in Places : ~Unshared(p, q)
    BY <1>1 DEF PoolInv, UnderWay
  <2> QED BY <1>1, <2>1, <2>2 DEF Paired, UnderWay
<1> QED BY <1>3, <1>4, <1>6, <1>7, <1>8 DEF PoolInv

LEMMA FactsAre ==
    ASSUME PoolTypes, NEW p \in Places
    PROVE  /\ Facts(p) \in [inode : Nat, length : Nat, cluster : Int]
           /\ Facts(p).inode = disk[p] /\ disk[p] <= Len(data)
           /\ disk[p] = 0 => Facts(p) = None
           /\ disk[p] # 0 => /\ disk[p] \in 1..Len(data) /\ data[disk[p]].contents \in DOMAIN LengthOf
                             /\ Facts(p).length = LengthOf[data[disk[p]].contents]
                             /\ Facts(p).cluster = IF method = "dedupe-range" THEN 0
                                                   ELSE data[disk[p]].cluster
<1>1. disk[p] \in Nat /\ disk[p] <= Len(data)
  BY DEF PoolTypes
<1>2. CASE disk[p] = 0
  BY <1>1, <1>2 DEF Facts, None
<1>3. CASE disk[p] # 0
  <2>1. disk[p] \in 1..Len(data)
    BY <1>1, <1>3 DEF PoolTypes
  <2>2. data[disk[p]] \in [contents : DOMAIN LengthOf, cluster : Int]
    <3> DEFINE R == [contents : DOMAIN LengthOf, cluster : Int]
    <3> HIDE DEF R
    <3>1. data \in Seq(R)
      BY DEF PoolTypes, R
    <3>2. data[disk[p]] \in R
      BY <2>1, <3>1, ElementOfSeq
    <3> QED BY <3>2 DEF R
  <2>3. LengthOf[data[disk[p]].contents] \in Nat /\ data[disk[p]].cluster \in Int
        /\ data[disk[p]].contents \in DOMAIN LengthOf
    BY <2>2, PoolAssumption
  <2> QED BY <1>1, <1>3, <2>1, <2>3 DEF Facts
<1> QED BY <1>2, <1>3

(* A root's files are seen anew, each is what it is or as it was known.    *)
TakesIn(r) ==
    /\ UNCHANGED <<method, disk, data, passed>>
    /\ stocks' = [o \in Roots |-> stocks'[o]] /\ \A o \in Roots : o # r => stocks'[o] = stocks[o]
    /\ stocks'[r] = [part |-> stocks'[r].part, files |-> [p \in Places |-> stocks'[r].files[p]]]
    /\ stocks'[r].part \in BOOLEAN
    /\ \A p \in Places :
          \/ stocks'[r].files[p] = None
          \/ /\ p[1] = r /\ stocks'[r].part
             /\ stocks'[r].files[p] \in {Facts(p), stocks[r].files[p]}

LEMMA TakenIn ==
    ASSUME PoolInv, NEW r \in Roots, TakesIn(r), UNCHANGED writes,
           heard' \in [Roots -> SUBSET Places],
           fresh' \in [all : BOOLEAN, of : SUBSET [inode : Nat, length : Nat]]
    PROVE  /\ PoolTypes' /\ Homes' /\ Accurate'
           /\ \A p \in Places : (Sound(p)' /\ Recorded(p) = disk[p]) => Sound(p)
<1> DEFINE Fact == [inode : Nat, length : Nat, cluster : Int]
<1>1. PoolTypes /\ Homes
  BY DEF PoolInv
<1>2. \A p \in Places : Facts(p) \in Fact /\ Facts(p)' = Facts(p) /\ Facts(p).inode = disk[p]
  BY <1>1, FactsAre DEF Facts, TakesIn
<1>3. \A o \in Roots, p \in Places : stocks[o].files[p] \in Fact
  BY <1>1 DEF PoolTypes
<1>4. None \in Fact /\ None.inode = 0
  BY DEF None
<1>5. \A p \in Places : stocks'[r].files[p] \in Fact
  BY <1>2, <1>3, <1>4 DEF TakesIn
<1>6. stocks' \in [Roots -> [part : BOOLEAN, files : [Places -> Fact]]]
  <2>1. [p \in Places |-> stocks'[r].files[p]] \in [Places -> Fact]
    BY <1>5
  <2>2. stocks'[r] \in [part : BOOLEAN, files : [Places -> Fact]]
    BY <2>1 DEF TakesIn
  <2>3. \A o \in Roots : stocks'[o] \in [part : BOOLEAN, files : [Places -> Fact]]
    BY <1>1, <2>2 DEF TakesIn, PoolTypes
  <2>4. stocks' = [o \in Roots |-> stocks'[o]]
    BY DEF TakesIn
  <2> QED BY <2>3, <2>4
<1>7. \A p \in Places : p[1] # r => Recorded(p)' = Recorded(p) /\ stocks'[p[1]] = stocks[p[1]]
  BY Located DEF TakesIn, Recorded
<1>8. \A p \in Places : p[1] = r => Recorded(p)' \in {0, disk[p], Recorded(p)}
  <2> SUFFICES ASSUME NEW p \in Places, p[1] = r
               PROVE  Recorded(p)' \in {0, disk[p], Recorded(p)}
    OBVIOUS
  <2>1. Recorded(p)' = stocks'[r].files[p].inode /\ Recorded(p) = stocks[r].files[p].inode
    BY DEF Recorded
  <2> QED BY <1>2, <1>4, <2>1 DEF TakesIn
<1>9. \A p \in Places : disk'[p] <= Len(data') /\ Recorded(p)' <= Len(data')
  <2>1. /\ Len(data) \in Nat /\ disk' = disk /\ data' = data
        /\ \A p \in Places : disk[p] <= Len(data) /\ Recorded(p) <= Len(data)
    BY <1>1 DEF PoolTypes, TakesIn
  <2> QED BY <1>7, <1>8, <2>1
<1>10. PoolTypes'
  BY <1>1, <1>6, <1>9 DEF PoolTypes, TakesIn
<1>11. Homes'
  <2>1. disk' = disk
    BY DEF TakesIn
  <2>2. \A p, q \in Places : (disk[p] # 0 /\ Recorded(q)' = disk[p]) => p = q
    BY <1>1, <1>7, <1>8 DEF Homes
  <2>3. \A o \in Roots, p \in Places :
          (p[1] # o \/ ~stocks'[o].part) => stocks'[o].files[p] = None
    BY <1>1 DEF Homes, TakesIn
  <2> QED BY <1>1, <2>1, <2>2, <2>3 DEF Homes, None
<1>12. ASSUME NEW p \in Places, Sound(p)', Recorded(p) = disk[p] PROVE Sound(p)
  <2>1. p[1] \in Roots /\ disk[p] \notin {0} \cup passed
    BY <1>12, Located DEF Sound, TakesIn
  <2>2. stocks[p[1]].files[p] # None
    BY <1>4, <1>12, <2>1 DEF Recorded
  <2>3. stocks[p[1]].part
    BY <1>1, <2>1, <2>2 DEF Homes
  <2> QED BY <1>12, <2>1, <2>3 DEF Sound
<1>13. ASSUME NEW p \in Places, Sound(p)' PROVE stocks'[p[1]].files[p] = Facts(p)'
  <2>1. /\ Recorded(p)' = disk[p] /\ disk[p] # 0 /\ p[1] \in Roots
        /\ stocks'[p[1]].files[p] # None
    BY <1>4, <1>13, Located DEF Sound, Recorded, TakesIn
  <2>2. CASE stocks'[p[1]].files[p] = Facts(p)
    BY <1>2, <2>2
  <2>3. CASE stocks'[p[1]].files[p] = stocks[p[1]].files[p]
    <3>1. Sound(p)
      BY <1>12, <1>13, <2>1, <2>3 DEF Recorded
    <3> QED BY <1>2, <2>3, <3>1 DEF PoolInv, Accurate
  <2> QED BY <1>7, <2>1, <2>2, <2>3 DEF TakesIn
<1> QED BY <1>10, <1>11, <1>12, <1>13 DEF Accurate

LEMMA StockedIs ==
    ASSUME PoolInv, NEW r \in Roots, UNCHANGED <<method, disk, data, passed>>,
           stocks' = [stocks EXCEPT ![r] = Stocked(r)]
    PROVE  TakesIn(r) /\ stocks'[r] = Stocked(r)
<1>1. stocks'[r] = Stocked(r) /\ stocks' = [o \in Roots |-> stocks'[o]]
      /\ \A o \in Roots : o # r => stocks'[o] = stocks[o]
  BY DEF PoolInv, PoolTypes
<1>2. CASE r \in busy
  BY <1>1, <1>2 DEF TakesIn, Stocked, Apart
<1>3. CASE r \notin busy
  BY <1>1, <1>3 DEF TakesIn, Stocked, FilesIn
<1> QED BY <1>1, <1>2, <1>3

LEMMA StockAllKeeps == ASSUME PoolInv, StockAll PROVE PoolInv'
<1>1. /\ UNCHANGED <<method, disk, data, passed, heard, fresh, pairs, writes>>
      /\ doing = "start" /\ fresh = AllOfThem /\ names \subseteq Roots
  BY DEF StockAll, Turn, PoolInv, Turns
<1>2. heard' \in [Roots -> SUBSET Places]
      /\ fresh' \in [all : BOOLEAN, of : SUBSET [inode : Nat, length : Nat]]
      /\ \A r \in Roots : heard'[r] \subseteq FilesIn(r)
  BY <1>1 DEF PoolInv, PoolTypes, Turns, FilesIn
<1>3. CASE names = {} /\ doing' = "plan" /\ stocks' = stocks /\ names' = names
  <2>1. PoolTypes'
    BY <1>1, <1>2, <1>3, FilesRest DEF PoolInv, PoolTypes
  <2>2. Turns' /\ Paired'
    BY <1>1, <1>2, <1>3 DEF Turns, Paired, FilesIn, AllOfThem
  <2>3. UnderWay'
    BY <1>1, <1>3 DEF UnderWay, IsFresh, AllOfThem
  <2> QED BY <1>1, <1>3, <2>1, <2>2, <2>3, FilesRest DEF PoolInv
<1>4. ASSUME NEW r \in names, names' = names \ {r}, doing' = doing,
             stocks' = [stocks EXCEPT ![r] = Stocked(r)]
      PROVE  PoolInv'
  <2>1. r \in Roots
    BY <1>1
  <2>2. PoolTypes' /\ Homes' /\ Accurate'
    BY <1>1, <1>2, <1>4, <2>1, StockedIs, TakenIn
  <2>3. Turns' /\ Paired' /\ UnderWay'
    BY <1>1, <1>2, <1>4 DEF Turns, Paired, UnderWay, FilesIn, AllOfThem
  <2> QED BY <2>2, <2>3 DEF PoolInv
<1> QED BY <1>3, <1>4 DEF StockAll

(* What was not there under its inode is fresh, of the length it has.        *)
LEMMA FreshOnes ==
    ASSUME NEW seen \in [Places -> [inode : Nat, length : Nat, cluster : Int]], NEW olds,
           NEW p \in Places
    PROVE  /\ NewIn(seen, olds) \subseteq [inode : Nat, length : Nat]
           /\ (seen[p].inode # 0 /\ seen[p].inode \notin olds) =>
                \E f \in NewIn(seen, olds) : f.inode = seen[p].inode
           /\ \A f \in NewIn(seen, olds) :
                \E q \in Places : /\ f.inode = seen[q].inode /\ f.length = seen[q].length
                                  /\ seen[q].inode # 0
<1>1. \A f \in NewIn(seen, olds) : \E q \in Places :
        /\ f = [inode |-> seen[q].inode, length |-> seen[q].length]
        /\ seen[q].inode \notin olds \cup {0}
  BY DEF NewIn
<1>2. ASSUME seen[p].inode # 0, seen[p].inode \notin olds
      PROVE  [inode |-> seen[p].inode, length |-> seen[p].length] \in NewIn(seen, olds)
  BY <1>2 DEF NewIn
<1> QED BY <1>1, <1>2

(* What a turn takes in is sound for it, or was before.                      *)
LEMMA TakesToPlan ==
    ASSUME PoolInv, NEW r \in Roots, TakesIn(r), UNCHANGED <<heard, writes>>,
           doing \in {"stock", "note"}, doing' = "plan",
           NEW N, fresh' = Only(N), N \subseteq [inode : Nat, length : Nat],
           \A p \in Places : Sound(p)' => (Recorded(p) = disk[p] \/ \E f \in N : f.inode = disk[p]),
           \A f \in N : \E q \in Places :
              /\ disk[q] # 0 /\ f.inode = disk[q] /\ Recorded(q)' = disk[q]
              /\ f.length = stocks'[q[1]].files[q].length
    PROVE  PoolInv'
<1>1. /\ heard' \in [Roots -> SUBSET Places] /\ \A o \in Roots : heard'[o] \subseteq FilesIn(o)
      /\ fresh' \in [all : BOOLEAN, of : SUBSET [inode : Nat, length : Nat]]
      /\ fresh'.of = N /\ ~fresh'.all
  BY DEF PoolInv, PoolTypes, Turns, Only
<1>2. /\ PoolTypes' /\ Homes' /\ Accurate'
      /\ \A p \in Places : (Sound(p)' /\ Recorded(p) = disk[p]) => Sound(p)
  BY <1>1, TakenIn
<1>3. Turns'
  <2>1. ASSUME NEW p \in Places, NEW f \in N, f.inode = Recorded(p)'
        PROVE  f.length = stocks'[p[1]].files[p].length
    <3>1. PICK q \in Places : /\ disk[q] # 0 /\ f.inode = disk[q]
                              /\ f.length = stocks'[q[1]].files[q].length
      OBVIOUS
    <3>2. disk'[q] # 0 /\ Recorded(p)' = disk'[q]
      BY <2>1, <3>1 DEF TakesIn
    <3>3. p = q
      BY <1>2, <3>2 DEF Homes
    <3> QED BY <3>1, <3>3
  <2>2. \A o \in Roots : heard'[o] \subseteq FilesIn(o)'
    BY <1>1 DEF FilesIn
  <2> QED BY <1>1, <2>1, <2>2 DEF Turns
<1>4. ASSUME NEW p \in Places, NEW q \in Places, Unshared(p, q)'
      PROVE  IsFresh(p)' \/ IsFresh(q)'
  <2>1. Sound(p)' /\ Sound(q)' /\ disk' = disk /\ data' = data
    BY <1>4 DEF Unshared, TakesIn
  <2>2. ~Unshared(p, q)
    BY DEF PoolInv, UnderWay
  <2>3. ~(Sound(p) /\ Sound(q))
    BY <1>4, <2>1, <2>2 DEF Unshared
  <2>4. (\E f \in N : f.inode = disk[p]) \/ (\E f \in N : f.inode = disk[q])
    BY <1>2, <2>1, <2>3
  <2> QED BY <1>1, <2>1, <2>4 DEF IsFresh
<1>5. Paired' /\ UnderWay'
  BY <1>4 DEF Paired, UnderWay
<1> QED BY <1>2, <1>3, <1>5 DEF PoolInv

LEMMA StockKeeps == ASSUME PoolInv, Stock PROVE PoolInv'
<1> DEFINE seen == Stocked(root).files
           olds == {stocks[root].files[p].inode : p \in Places}
           N == NewIn(seen, olds)
<1>1. /\ UNCHANGED <<method, disk, data, passed, heard, writes>>
      /\ doing = "stock" /\ doing' = "plan" /\ root \in Roots
      /\ fresh' = Only(N) /\ stocks' = [stocks EXCEPT ![root] = Stocked(root)]
  BY DEF Stock, Turn, PoolInv, Turns
<1>2. TakesIn(root) /\ stocks'[root] = Stocked(root)
  BY <1>1, StockedIs
<1>3. PoolTypes /\ Homes
  BY DEF PoolInv
<1>4. \A p \in Places : seen[p] = None \/ (p[1] = root /\ seen[p] = Facts(p))
  BY DEF Stocked, Apart, FilesIn
<1>5. seen \in [Places -> [inode : Nat, length : Nat, cluster : Int]]
  <2>1. \A p \in Places : seen[p] \in [inode : Nat, length : Nat, cluster : Int]
    BY <1>3, <1>4, FactsAre DEF None
  <2>2. seen = [p \in Places |-> seen[p]]
    BY DEF Stocked, Apart
  <2> HIDE DEF seen
  <2> QED BY <2>1, <2>2
<1>6. \A p \in Places : seen[p].inode # 0 => /\ p[1] = root /\ seen[p].inode = disk[p]
                                               /\ Recorded(p)' = disk[p]
                                               /\ stocks'[p[1]].files[p] = seen[p]
  <2> SUFFICES ASSUME NEW p \in Places, seen[p].inode # 0
               PROVE  /\ p[1] = root /\ seen[p].inode = disk[p] /\ Recorded(p)' = disk[p]
                      /\ stocks'[p[1]].files[p] = seen[p]
    OBVIOUS
  <2>1. p[1] = root /\ seen[p].inode = disk[p]
    BY <1>3, <1>4, FactsAre DEF None
  <2>2. stocks'[p[1]].files[p] = seen[p]
    BY <1>2, <2>1
  <2> QED BY <2>1, <2>2 DEF Recorded
<1>7. ASSUME NEW p \in Places, Sound(p)'
      PROVE  Recorded(p) = disk[p] \/ \E f \in N : f.inode = disk[p]
  <2>1. Recorded(p)' = disk[p] /\ disk[p] # 0 /\ p[1] \in Roots
    BY <1>1, <1>7, Located DEF Sound
  <2>2. CASE p[1] # root
    BY <1>2, <2>1, <2>2 DEF TakesIn, Recorded
  <2>3. CASE p[1] = root
    <3>1. seen[p].inode = disk[p]
      BY <1>2, <2>1, <2>3 DEF Recorded
    <3>2. CASE disk[p] \in olds
      <4>1. PICK q \in Places : stocks[root].files[q].inode = disk[p]
        BY <3>2
      <4>2. q[1] = root
        BY <1>1, <1>3, <2>1, <4>1 DEF Homes, None
      <4> QED BY <1>3, <2>1, <4>1, <4>2 DEF Homes, Recorded
    <3>3. CASE disk[p] \notin olds
      <4> HIDE DEF seen, olds
      <4> QED BY <1>5, <2>1, <3>1, <3>3, FreshOnes
    <3> QED BY <3>2, <3>3
  <2> QED BY <2>2, <2>3
<1>8. N \subseteq [inode : Nat, length : Nat]
      /\ \A f \in N : \E q \in Places :
              /\ disk[q] # 0 /\ f.inode = disk[q] /\ Recorded(q)' = disk[q]
              /\ f.length = stocks'[q[1]].files[q].length
  <2> HIDE DEF seen, olds
  <2>1. \A f \in N : f \in [inode : Nat, length : Nat]
    BY <1>5 DEF NewIn
  <2>2. \A f \in N : \E q \in Places : /\ f.inode = seen[q].inode /\ f.length = seen[q].length
                                       /\ seen[q].inode # 0
    BY DEF NewIn
  <2> QED BY <1>6, <2>1, <2>2
<1> HIDE DEF N
<1> QED BY <1>1, <1>2, <1>7, <1>8, TakesToPlan

LEMMA NoteKeeps == ASSUME PoolInv, Note PROVE PoolInv'
<1>1. /\ UNCHANGED <<method, disk, data, passed, heard, names, root, writes>>
      /\ doing = "note" /\ doing' = "plan" /\ root \in Roots /\ names \subseteq FilesIn(root)
  BY DEF Note, Turn, PoolInv, Turns
<1>2. PoolTypes /\ Homes
  BY DEF PoolInv
<1>3. CASE ~stocks[root].part
  <2>1. fresh' = Only({}) /\ stocks' = stocks
    BY <1>3 DEF Note
  <2>2. TakesIn(root)
    BY <1>1, <1>2, <1>3, <2>1 DEF TakesIn, Homes, PoolTypes
  <2>3. \A p \in Places : Sound(p)' => Recorded(p) = disk[p]
    BY <1>1, <2>1 DEF Sound, Recorded
  <2> QED BY <1>1, <2>1, <2>2, <2>3, TakesToPlan
<1>4. CASE stocks[root].part
  <2> DEFINE seen == PresentNow(names)
             olds == {stocks[root].files[p].inode : p \in names}
             N == NewIn(seen, olds)
  <2>1. /\ fresh' = Only(N)
        /\ stocks' = [stocks EXCEPT ![root].files =
                        [p \in Places |-> IF p \in names THEN seen[p] ELSE @[p]]]
    BY <1>4 DEF Note, FreshNoted
  <2>2. /\ stocks'[root].part /\ stocks' = [o \in Roots |-> stocks'[o]]
        /\ stocks'[root].files =
              [p \in Places |-> IF p \in names THEN seen[p] ELSE stocks[root].files[p]]
        /\ \A o \in Roots : o # root => stocks'[o] = stocks[o]
        /\ stocks'[root] = [part |-> stocks'[root].part, files |-> stocks'[root].files]
    <3> HIDE DEF seen
    <3> QED BY <1>1, <1>2, <1>4, <2>1 DEF PoolTypes
  <2>3. \A p \in Places : /\ p \in names => p[1] = root /\ seen[p] = Facts(p)
                          /\ p \notin names => seen[p] = None
    BY <1>1 DEF PresentNow, FilesIn
  <2>4. seen \in [Places -> [inode : Nat, length : Nat, cluster : Int]]
    <3>1. \A p \in Places : seen[p] \in [inode : Nat, length : Nat, cluster : Int]
      BY <1>2, <2>3, FactsAre DEF None
    <3>2. seen = [p \in Places |-> seen[p]]
      BY DEF PresentNow
    <3> HIDE DEF seen
    <3> QED BY <3>1, <3>2
  <2> HIDE DEF seen
  <2>5. TakesIn(root)
    <3>1. ASSUME NEW p \in Places
          PROVE  \/ stocks'[root].files[p] = None
                 \/ /\ p[1] = root /\ stocks'[root].part
                    /\ stocks'[root].files[p] \in {Facts(p), stocks[root].files[p]}
      <4>1. CASE p \in names
        BY <2>2, <2>3, <4>1
      <4>2. CASE p \notin names /\ p[1] = root
        BY <2>2, <4>2
      <4>3. CASE p \notin names /\ p[1] # root
        BY <1>1, <1>2, <2>2, <4>3 DEF Homes
      <4> QED BY <4>1, <4>2, <4>3
    <3>2. stocks'[root].files = [p \in Places |-> stocks'[root].files[p]]
      BY <2>2
    <3> QED BY <1>1, <2>2, <3>1, <3>2 DEF TakesIn
  <2>6. \A p \in Places : seen[p].inode # 0 =>
          /\ p \in names /\ p[1] = root /\ seen[p].inode = disk[p]
          /\ Recorded(p)' = disk[p] /\ stocks'[p[1]].files[p] = seen[p]
    <3> SUFFICES ASSUME NEW p \in Places, seen[p].inode # 0
                 PROVE  /\ p \in names /\ p[1] = root /\ seen[p].inode = disk[p]
                        /\ Recorded(p)' = disk[p] /\ stocks'[p[1]].files[p] = seen[p]
      OBVIOUS
    <3>1. p \in names /\ p[1] = root /\ seen[p].inode = disk[p]
      BY <1>2, <2>3, FactsAre DEF None
    <3>2. stocks'[p[1]].files[p] = seen[p]
      BY <2>2, <3>1
    <3> QED BY <3>1, <3>2 DEF Recorded
  <2>7. ASSUME NEW p \in Places, Sound(p)'
        PROVE  Recorded(p) = disk[p] \/ \E f \in N : f.inode = disk[p]
    <3>1. Recorded(p)' = disk[p] /\ disk[p] # 0 /\ p[1] \in Roots
      BY <1>1, <2>7, Located DEF Sound
    <3>2. CASE p \notin names
      BY <2>2, <3>1, <3>2 DEF Recorded
    <3>3. CASE p \in names
      <4>1. seen[p].inode = disk[p]
        BY <1>2, <2>3, <3>3, FactsAre
      <4>2. CASE disk[p] \in olds
        <5>1. PICK q \in names : stocks[root].files[q].inode = disk[p]
          BY <4>2
        <5>2. q[1] = root /\ q \in Places
          BY <1>1, <5>1 DEF FilesIn
        <5> QED BY <1>2, <3>1, <5>1, <5>2 DEF Homes, Recorded
      <4>3. CASE disk[p] \notin olds
        <5> HIDE DEF olds
        <5> QED BY <2>4, <3>1, <4>1, <4>3, FreshOnes
      <4> QED BY <4>2, <4>3
    <3> QED BY <3>2, <3>3
  <2>8. N \subseteq [inode : Nat, length : Nat]
        /\ \A f \in N : \E q \in Places :
                /\ disk[q] # 0 /\ f.inode = disk[q] /\ Recorded(q)' = disk[q]
                /\ f.length = stocks'[q[1]].files[q].length
    <3> HIDE DEF olds
    <3>1. \A f \in N : f \in [inode : Nat, length : Nat]
      BY <2>4 DEF NewIn
    <3>2. \A f \in N : \E q \in Places : /\ f.inode = seen[q].inode /\ f.length = seen[q].length
                                         /\ seen[q].inode # 0
      BY DEF NewIn
    <3> QED BY <2>6, <3>1, <3>2
  <2> HIDE DEF N
  <2> QED BY <1>1, <2>1, <2>5, <2>7, <2>8, TakesToPlan
<1> QED BY <1>3, <1>4

-------------------------------------------------------------------------------
(* How what was taken in is compared.                                       *)

Parts == UNION {Split(g, [i \in g |-> PrintOf(i)]) : g \in {h \in Groups(Items) : Focused(h)}}

(* The files that are as long as one and have its contents.                  *)
PartOf(r) == {t \in Items : t.volume = r.volume /\ t.len = r.len /\ PrintOf(t) = PrintOf(r)}

LEMMA ItemsAre ==
    /\ IsFiniteSet(Items) /\ \A r \in Items : \E p \in Indexed : r = Item(p)
    /\ Indexed \subseteq Places /\ \A r \in Items : r.place \in Nat
<1>1. Indexed \subseteq Places
  BY DEF Indexed
<1>2. \A r \in Items : \E p \in Indexed : r = Item(p)
  BY DEF Items, OfLength
<1>3. IsFiniteSet(Items)
  <2> DEFINE S == {p \in Indexed : Item(p) \in Items}
             f == [p \in S |-> Item(p)]
  <2>1. S \in SUBSET Places
    BY <1>1
  <2>2. IsFiniteSet(S)
    BY <2>1, PoolAssumption, FS_Subset
  <2>3. f \in Surjection(S, Items)
    BY <1>2 DEF Surjection
  <2> QED BY <2>2, <2>3, FS_Surjection
<1>4. \A r \in Items : r.place \in Nat
  BY <1>1, <1>2, ItemOf, Located
<1> QED BY <1>1, <1>2, <1>3, <1>4

(* A part is told by any of its members, and keeps one of them.             *)
LEMMA PartsAre ==
    ASSUME NEW part \in Parts
    PROVE  /\ part \subseteq Items /\ Keeper(part) \in part
           /\ \A r \in part : part = PartOf(r)
<1>1. PICK g \in Groups(Items) : part \in Split(g, [i \in g |-> PrintOf(i)])
  BY DEF Parts
<1>2. PICK a \in Items : g = {r \in Items : <<r.volume, r.len>> = <<a.volume, a.len>>}
  BY DEF Groups
<1>3. PICK s \in g : part = {r \in g : PrintOf(r) = PrintOf(s)}
  <2> DEFINE print == [i \in g |-> PrintOf(i)]
  <2>1. PICK s \in g : part = {r \in g : print[r] = print[s]}
    BY <1>1 DEF Split
  <2> QED BY <2>1
<1>4. part \in SUBSET Items /\ s \in part
  BY <1>2, <1>3
<1>5. \A r \in part : part = PartOf(r)
  BY <1>2, <1>3 DEF PartOf
<1>6. IsFiniteSet(part)
  BY <1>4, ItemsAre, FS_Subset
<1>7. Keeper(part) \in part
  BY <1>4, <1>6, ItemsAre, KeeperIsOne
<1> QED BY <1>4, <1>5, <1>7

LEMMA PairsAre ==
    ASSUME NEW x \in Plan(Parts)
    PROVE  \E part \in Parts : /\ x.kept = Keeper(part) /\ x.other \in part \ {x.kept}
                               /\ x.pairing = Pair(x.kept, x.other)
<1>1. PICK part \in Parts :
        x \in {[kept |-> Keeper(part), other |-> r, pairing |-> Pair(Keeper(part), r)] :
                  r \in part \ {Keeper(part)}}
  BY DEF Plan
<1> QED BY <1>1

(* The files that lie apart are of one length and one print.                 *)
LEMMA UnsharedIs ==
    ASSUME PoolInv, NEW p \in Places, NEW q \in Places, Unshared(p, q)
    PROVE  /\ p \in Indexed /\ q \in Indexed
           /\ Recorded(p) = disk[p] /\ Recorded(q) = disk[q] /\ disk[p] # disk[q]
           /\ Item(p).len = Item(q).len /\ Item(p).len >= Minimum
           /\ PrintOf(Item(p)) = PrintOf(Item(q)) /\ PrintOf(Item(p)) # "unread"
           /\ ~(Item(p).cluster = Item(q).cluster /\ Item(p).cluster # 0)
           /\ Family(Item(p)) # Family(Item(q))
<1>1. /\ Sound(p) /\ Sound(q) /\ p # q /\ PoolTypes /\ Homes
      /\ data[disk[p]].contents = data[disk[q]].contents
      /\ data[disk[p]].cluster # data[disk[q]].cluster
  BY DEF Unshared, PoolInv
<1>2. /\ Recorded(p) = disk[p] /\ disk[p] # 0 /\ stocks[p[1]].part
      /\ Recorded(q) = disk[q] /\ disk[q] # 0 /\ stocks[q[1]].part
  BY <1>1 DEF Sound
<1>3. p \in Indexed /\ q \in Indexed /\ disk[p] # disk[q]
  BY <1>1, <1>2 DEF Indexed, Recorded, Homes
<1>4. stocks[p[1]].files[p] = Facts(p) /\ stocks[q[1]].files[q] = Facts(q)
  BY <1>1 DEF PoolInv, Accurate
<1>5. /\ Item(p).len = LengthOf[data[disk[p]].contents]
      /\ Item(q).len = LengthOf[data[disk[q]].contents]
      /\ Item(p).cluster = IF method = "dedupe-range" THEN 0 ELSE data[disk[p]].cluster
      /\ Item(q).cluster = IF method = "dedupe-range" THEN 0 ELSE data[disk[q]].cluster
      /\ Item(p).file = disk[p] /\ Item(q).file = disk[q]
      /\ PlaceOf(Item(p)) = p /\ PlaceOf(Item(q)) = q
      /\ data[disk[p]].contents \in DOMAIN LengthOf
  BY <1>1, <1>2, <1>4, FactsAre, ItemOf
<1>6. Item(p).len = Item(q).len /\ Item(p).len >= Minimum
  BY <1>1, <1>5, PoolAssumption
<1>7. PrintOf(Item(p)) = data[disk[p]].contents /\ PrintOf(Item(q)) = data[disk[q]].contents
  BY <1>5 DEF PrintOf
<1>8. data[disk[p]].contents # "unread"
  BY <1>5, PoolAssumption
<1>9. ~(Item(p).cluster = Item(q).cluster /\ Item(p).cluster # 0)
  BY <1>1, <1>5
<1>10. Family(Item(p)) # Family(Item(q))
  BY <1>3, <1>5, <1>9 DEF Family
<1> QED BY <1>1, <1>2, <1>3, <1>6, <1>7, <1>8, <1>9, <1>10

(* Two of them that are fresh are of one part.                              *)
LEMMA TheirPart ==
    ASSUME PoolInv, doing = "plan", NEW p \in Places, NEW q \in Places, Unshared(p, q),
           IsFresh(p) \/ IsFresh(q)
    PROVE  \E part \in Parts : Item(p) \in part /\ Item(q) \in part
<1> DEFINE n == Item(p).len
           g == {r \in Items : <<r.volume, r.len>> = <<Item(p).volume, Item(p).len>>}
           print == [i \in g |-> PrintOf(i)]
           part == {r \in g : print[r] = print[Item(p)]}
<1>1. /\ p \in Indexed /\ q \in Indexed /\ p # q
      /\ Recorded(p) = disk[p] /\ Recorded(q) = disk[q]
      /\ Item(q).len = n /\ n >= Minimum
      /\ PrintOf(Item(p)) = PrintOf(Item(q)) /\ PrintOf(Item(p)) # "unread"
      /\ Family(Item(p)) # Family(Item(q))
  BY UnsharedIs DEF Unshared
<1>2. /\ n = stocks[p[1]].files[p].length /\ n = stocks[q[1]].files[q].length
      /\ Item(p).volume = 1 /\ Item(q).volume = 1
      /\ Item(p).file = disk[p] /\ Item(q).file = disk[q]
  BY <1>1, ItemOf
<1>3. p \in OfLength(n) /\ q \in OfLength(n)
  BY <1>1, <1>2 DEF OfLength
<1>4. Cardinality(OfLength(n)) > 1
  <2>1. OfLength(n) \in SUBSET Places
    BY ItemsAre DEF OfLength
  <2>2. IsFiniteSet(OfLength(n))
    BY <2>1, PoolAssumption, FS_Subset
  <2> QED BY <1>1, <1>3, <2>2, TwoAreMany
<1>5. n \in Lengths
  <2>1. CASE fresh.all
    BY <1>1, <1>2, <1>4, <2>1 DEF Lengths
  <2>2. CASE ~fresh.all
    <3>1. \E f \in fresh.of : f.inode = Recorded(p) \/ f.inode = Recorded(q)
      BY <1>1, <2>2 DEF IsFresh
    <3>2. \E f \in fresh.of : f.length = n
      BY <1>2, <3>1 DEF PoolInv, Turns
    <3> QED BY <1>4, <2>2, <3>2 DEF Lengths
  <2> QED BY <2>1, <2>2, SMTT(20)
<1>6. Item(p) \in Items /\ Item(q) \in Items
  BY <1>3, <1>5 DEF Items
<1>7. Item(p) \in g /\ Item(q) \in g /\ g \in SUBSET Items
  BY <1>1, <1>2, <1>6
<1>8. part \in SUBSET Items /\ Item(p) \in part /\ Item(q) \in part
  BY <1>1, <1>7
<1>9. ASSUME NEW S \in SUBSET Items, Item(p) \in S, Item(q) \in S
      PROVE  Cardinality(Families(S)) > 1
  <2>1. IsFiniteSet(S)
    BY ItemsAre, FS_Subset
  <2>2. Family(Item(p)) \in Families(S) /\ Family(Item(q)) \in Families(S)
    BY <1>9 DEF Families
  <2> QED BY <1>1, <2>1, <2>2, FamiliesFinite, TwoAreMany
<1>10. g \in Groups(Items)
  <2>1. \A r \in g : r.len >= Minimum
    BY <1>1
  <2>2. Cardinality(Families(g)) > 1
    BY <1>7, <1>9
  <2> QED BY <1>6, <2>1, <2>2 DEF Groups
<1>11. Focused(g)
  BY <1>2, <1>7 DEF Focused, IsFresh
<1>12. part \in Split(g, print)
  <2>1. Cardinality(Families(part)) > 1
    BY <1>8, <1>9
  <2>2. Item(p) \in {t \in g : print[t] # "unread"}
    BY <1>1, <1>7
  <2> QED BY <2>1, <2>2 DEF Split
<1>13. part \in Parts
  BY <1>10, <1>11, <1>12 DEF Parts
<1> QED BY <1>8, <1>13

(* The one that is kept is shared with whatever does not share its blocks.   *)
LEMMA IsShared ==
    ASSUME PoolInv, NEW part \in Parts, NEW o \in Places, Sound(o),
           Item(o) \in part, Item(o) # Keeper(part),
           ~(Keeper(part).cluster = Item(o).cluster /\ Item(o).cluster # 0)
    PROVE  \E x \in Plan(Parts) : x.pairing = "share" /\ x.other = Item(o)
<1> DEFINE kept == Keeper(part)
<1>1. kept \in part /\ part = PartOf(Item(o)) /\ kept \in Items
  BY PartsAre
<1>2. PICK k \in Indexed : kept = Item(k)
  BY <1>1, ItemsAre
<1>3. k \in Places /\ k # o
  BY <1>2, ItemsAre
<1>4. /\ kept.volume = Item(o).volume /\ kept.len = Item(o).len
      /\ kept.file = Recorded(k) /\ Item(o).file = Recorded(o)
      /\ Item(o).owner = "caller" /\ Item(o).links = 1 /\ Item(o).mode = "plain"
      /\ kept.extras = Item(o).extras /\ Item(o).method = method
      /\ Item(o).extras = IF method = "dedupe-range" THEN "unobserved" ELSE "plain"
  BY <1>1, <1>2, <1>3, ItemOf DEF PartOf
<1>5. kept.file # Item(o).file
  BY <1>3, <1>4 DEF PoolInv, Homes, Sound
<1>6. Replaces(method) => Item(o).extras = "plain"
  BY <1>4 DEF Replaces
<1>7. Pair(kept, Item(o)) = "share"
  <2> HIDE DEF kept
  <2> QED BY <1>4, <1>5, <1>6 DEF Pair, kept
<1>8. [kept |-> kept, other |-> Item(o), pairing |-> Pair(kept, Item(o))] \in Plan(Parts)
  BY DEF Plan
<1> QED BY <1>7, <1>8

LEMMA CompareKeeps == ASSUME PoolInv, Compare PROVE PoolInv'
<1>1. /\ UNCHANGED <<method, disk, data, stocks, passed, heard, fresh, writes>>
      /\ doing = "plan" /\ doing' = "settle" /\ pairs' = Plan(Parts)
  BY DEF Compare, Turn, Parts
<1>2. PoolTypes' /\ Turns'
  BY <1>1, FilesRest DEF PoolInv, PoolTypes, Turns, FilesIn
<1>3. Paired'
  <2>1. ASSUME NEW x \in pairs' PROVE \E k, o \in Indexed : k # o /\ x.kept = Item(k) /\ x.other = Item(o)
    <3>1. PICK part \in Parts : x.kept = Keeper(part) /\ x.other \in part \ {x.kept}
      BY <1>1, <2>1, PairsAre
    <3>2. x.kept \in Items /\ x.other \in Items /\ x.kept # x.other
      BY <3>1, PartsAre
    <3> QED BY <3>2, ItemsAre
  <2>2. ASSUME NEW x \in pairs', NEW y \in pairs', x.kept = y.other PROVE FALSE
    <3>1. PICK part \in Parts : x.kept = Keeper(part) /\ x.other \in part \ {x.kept}
      BY <1>1, <2>2, PairsAre
    <3>2. PICK same \in Parts : y.kept = Keeper(same) /\ y.other \in same \ {y.kept}
      BY <1>1, <2>2, PairsAre
    <3>3. part = same
      BY <2>2, <3>1, <3>2, PartsAre
    <3> QED BY <2>2, <3>1, <3>2, <3>3
  <2> QED BY <1>1, <2>1, <2>2, FilesRest, ItemsAre DEF Paired
<1>4. ASSUME NEW p \in Places, NEW q \in Places, Unshared(p, q)
      PROVE  \E x \in pairs' : x.pairing = "share" /\ x.other \in {Item(p), Item(q)}
  <2>1. IsFresh(p) \/ IsFresh(q)
    BY <1>1, <1>4 DEF PoolInv, UnderWay
  <2>2. PICK part \in Parts : Item(p) \in part /\ Item(q) \in part
    BY <1>1, <1>4, <2>1, TheirPart
  <2>3. /\ ~(Item(p).cluster = Item(q).cluster /\ Item(p).cluster # 0)
        /\ Sound(p) /\ Sound(q) /\ Item(p) # Item(q)
    BY <1>4, UnsharedIs, OneItem DEF Unshared
  <2>4. CASE Item(p) # Keeper(part)
             /\ ~(Keeper(part).cluster = Item(p).cluster /\ Item(p).cluster # 0)
    BY <1>1, <2>2, <2>3, <2>4, IsShared
  <2>5. CASE Item(q) # Keeper(part)
             /\ ~(Keeper(part).cluster = Item(q).cluster /\ Item(q).cluster # 0)
    BY <1>1, <2>2, <2>3, <2>5, IsShared
  <2> QED BY <2>3, <2>4, <2>5
<1>5. UnderWay'
  BY <1>1, <1>4, FilesRest DEF UnderWay
<1> QED BY <1>1, <1>2, <1>3, <1>5, FilesRest DEF PoolInv

-------------------------------------------------------------------------------
(* How a pair is settled.                                                   *)

(* What follows of the turn where files stay sound, or one pair was settled. *)
LEMMA SettledOne ==
    ASSUME PoolInv, UNCHANGED <<method, stocks, doing, heard, names, fresh, root>>,
           doing = "settle", NEW pair \in pairs, pairs' = pairs \ {pair},
           \A p, q \in Places : Unshared(p, q)' =>
              \E x \in pairs' : x.pairing = "share" /\ x.other \in {Item(p), Item(q)}
    PROVE  Turns' /\ Paired' /\ UnderWay'
<1>1. \A p \in Places : Item(p)' = Item(p)
  BY DEF Item
<1>2. Indexed' = Indexed /\ Indexed \subseteq Places
  BY DEF Indexed
<1>3. Paired'
  BY <1>1, <1>2 DEF PoolInv, Paired
<1>4. UnderWay'
  BY <1>1 DEF UnderWay
<1>5. Turns'
  BY DEF PoolInv, Turns, FilesIn
<1> QED BY <1>3, <1>4, <1>5

LEMMA OneChanged ==
    ASSUME NEW S, NEW f \in [S -> Nat], NEW x \in S, NEW v \in Nat
    PROVE  /\ [f EXCEPT ![x] = v] \in [S -> Nat]
           /\ [f EXCEPT ![x] = v][x] = v
           /\ \A y \in S : y # x => [f EXCEPT ![x] = v][y] = f[y]
OBVIOUS

LEMMA SettleKeeps == ASSUME PoolInv, Settle PROVE PoolInv'
<1>1. PICK pair \in pairs :
        LET r == PlaceOf(pair.other)[1]
            lease == IF held.root = r THEN held ELSE [root |-> r, got |-> r \notin busy]
            there(i) == PrintOf(i) # "unread" IN
        /\ pairs' = pairs \ {pair}
        /\ IF pair.pairing # "share"
           THEN UNCHANGED <<held, disk, data, passed>>
           ELSE IF /\ lease.got /\ there(pair.kept) /\ there(pair.other)
                   /\ PrintOf(pair.kept) = PrintOf(pair.other)
                THEN /\ passed' = IF pair.kept.file \in passed
                                  THEN passed \cup {pair.other.file} ELSE passed
                     /\ IF Replaces(method)
                        THEN /\ data' = Append(data, data[pair.kept.file])
                             /\ disk' = [disk EXCEPT ![PlaceOf(pair.other)] = Len(data')]
                        ELSE /\ data' = [data EXCEPT ![pair.other.file].cluster =
                                                        data[pair.kept.file].cluster]
                             /\ UNCHANGED disk
                ELSE passed' = passed \cup {pair.other.file} /\ UNCHANGED <<disk, data>>
  BY DEF Settle
<1>2. /\ UNCHANGED <<method, busy, heard, again, stocks, doing, root, names, fresh, writes, losses>>
      /\ doing = "settle" /\ PoolTypes /\ Homes
  BY DEF Settle, Turn, PoolInv
<1>3. PICK k \in Indexed, o \in Indexed : k # o /\ pair.kept = Item(k) /\ pair.other = Item(o)
  BY <1>2 DEF PoolInv, Paired
<1>4. /\ k \in Places /\ o \in Places /\ stocks[k[1]].part /\ stocks[o[1]].part
      /\ Recorded(k) # 0 /\ Recorded(o) # 0
      /\ pair.kept.file = Recorded(k) /\ pair.other.file = Recorded(o)
      /\ PlaceOf(pair.kept) = k /\ PlaceOf(pair.other) = o
  BY <1>3, ItemOf DEF Indexed, Recorded
<1>5. /\ Len(data) \in Nat
      /\ \A p \in Places : /\ disk[p] \in Nat /\ disk[p] <= Len(data)
                           /\ Recorded(p) \in Nat /\ Recorded(p) <= Len(data)
                           /\ Recorded(p)' = Recorded(p)
  BY <1>2, Located DEF PoolTypes, Recorded
<1>6. ASSUME NEW p \in Places, NEW q \in Places, Unshared(p, q), p # o, q # o
      PROVE  \E x \in pairs' : x.pairing = "share" /\ x.other \in {Item(p), Item(q)}
  <2>1. PICK x \in pairs : x.pairing = "share" /\ x.other \in {Item(p), Item(q)}
    BY <1>2, <1>6 DEF PoolInv, UnderWay
  <2>2. x # pair
    BY <1>3, <1>4, <1>6, <2>1, OneItem
  <2> QED BY <1>1, <2>1, <2>2
<1>7. CASE pair.pairing # "share"
  <2>1. UNCHANGED <<disk, data, passed>>
    BY <1>1, <1>7
  <2>2. Homes' /\ Accurate' /\ \A p, q \in Places : Unshared(p, q)' <=> Unshared(p, q)
    BY <1>2, <2>1, FilesRest
  <2>3. PoolTypes'
    BY <1>2, <2>1, FilesRest DEF PoolTypes
  <2>4. ASSUME NEW p \in Places, NEW q \in Places, Unshared(p, q)'
        PROVE  \E x \in pairs' : x.pairing = "share" /\ x.other \in {Item(p), Item(q)}
    <3>1. PICK x \in pairs : x.pairing = "share" /\ x.other \in {Item(p), Item(q)}
      BY <1>2, <2>2, <2>4 DEF PoolInv, UnderWay
    <3> QED BY <1>1, <1>7, <3>1
  <2>5. pairs' = pairs \ {pair}
    BY <1>1
  <2>6. Turns' /\ Paired' /\ UnderWay'
    BY <1>2, <2>4, <2>5, SettledOne
  <2> QED BY <2>2, <2>3, <2>6 DEF PoolInv
<1>8. CASE pair.pairing = "share" /\ passed' = passed \cup {pair.other.file}
           /\ UNCHANGED <<disk, data>>
  <2>1. \A p \in Places : Sound(p)' => Sound(p) /\ p # o
    BY <1>2, <1>4, <1>5, <1>8 DEF Sound
  <2>2. Accurate' /\ \A p, q \in Places : Unshared(p, q)' => Unshared(p, q)
    BY <1>2, <1>8, <2>1, SoundGoesOn
  <2>3. PoolTypes' /\ Homes'
    BY <1>2, <1>5, <1>8 DEF PoolTypes, Homes, None
  <2>4. \A p, q \in Places : Unshared(p, q)' =>
          \E x \in pairs' : x.pairing = "share" /\ x.other \in {Item(p), Item(q)}
    BY <1>6, <2>1, <2>2 DEF Unshared
  <2>5. pairs' = pairs \ {pair}
    BY <1>1
  <2>6. Turns' /\ Paired' /\ UnderWay'
    BY <1>2, <2>4, <2>5, SettledOne
  <2> QED BY <2>2, <2>3, <2>6 DEF PoolInv
<1>9. ASSUME PrintOf(pair.kept) # "unread", PrintOf(pair.other) # "unread",
             PrintOf(pair.kept) = PrintOf(pair.other)
      PROVE  /\ disk[k] = Recorded(k) /\ disk[o] = Recorded(o)
             /\ data[disk[k]].contents = data[disk[o]].contents
             /\ disk[k] \in 1..Len(data) /\ disk[o] \in 1..Len(data) /\ disk[k] # disk[o]
  <2>1. disk[k] = Recorded(k) /\ disk[o] = Recorded(o)
        /\ data[disk[k]].contents = data[disk[o]].contents
    BY <1>4, <1>9 DEF PrintOf
  <2> QED BY <1>2, <1>3, <1>4, <1>5, <2>1 DEF Homes
<1>10. CASE /\ pair.pairing = "share" /\ Replaces(method)
            /\ disk[k] = Recorded(k) /\ disk[k] \in 1..Len(data)
            /\ data' = Append(data, data[disk[k]]) /\ disk' = [disk EXCEPT ![o] = Len(data')]
            /\ passed \subseteq passed'
  <2>1. /\ data' \in Seq([contents : DOMAIN LengthOf, cluster : Int]) /\ Len(data') = Len(data) + 1
        /\ \A i \in 1..Len(data) : data'[i] = data[i]
    <3> DEFINE R == [contents : DOMAIN LengthOf, cluster : Int]
    <3> HIDE DEF R
    <3>1. data \in Seq(R)
      BY <1>2 DEF PoolTypes, R
    <3>2. data[disk[k]] \in R
      BY <1>10, <3>1, ElementOfSeq
    <3>3. data' \in Seq(R) /\ Len(data') = Len(data) + 1 /\ \A i \in 1..Len(data) : data'[i] = data[i]
      BY <1>10, <3>1, <3>2
    <3> QED BY <3>3 DEF R
  <2>2. disk' \in [Places -> Nat] /\ disk'[o] = Len(data) + 1
        /\ \A p \in Places : p # o => disk'[p] = disk[p]
    <3>1. o \in Places /\ Len(data) + 1 \in Nat
      BY <1>4, <1>5
    <3>2. disk \in [Places -> Nat]
      BY <1>2 DEF PoolTypes
    <3>3. disk' = [disk EXCEPT ![o] = Len(data) + 1]
      BY <1>10, <2>1
    <3>4. /\ [disk EXCEPT ![o] = Len(data) + 1] \in [Places -> Nat]
          /\ [disk EXCEPT ![o] = Len(data) + 1][o] = Len(data) + 1
          /\ \A p \in Places : p # o => [disk EXCEPT ![o] = Len(data) + 1][p] = disk[p]
      BY <3>1, <3>2, OneChanged
    <3> QED BY <3>3, <3>4, Zenon
  <2>3. PoolTypes' /\ Homes'
    <3>1. ASSUME NEW p \in Places PROVE disk'[p] <= Len(data') /\ Recorded(p)' <= Len(data')
      <4>1. /\ disk[p] \in Nat /\ Recorded(p) \in Nat /\ Len(data) \in Nat
            /\ disk[p] <= Len(data) /\ Recorded(p) <= Len(data) /\ Recorded(p)' = Recorded(p)
        BY <1>5
      <4>2. Len(data') = Len(data) + 1 /\ disk'[p] \in {disk[p], Len(data) + 1}
        BY <2>1, <2>2
      <4> QED BY <4>1, <4>2
    <3>2. PoolTypes'
      BY <1>2, <2>1, <2>2, <3>1 DEF PoolTypes
    <3>3. \A p, q \in Places : (disk'[p] # 0 /\ disk'[q] = disk'[p]) => p = q
      BY <1>2, <1>5, <2>2 DEF Homes
    <3>4. \A p, q \in Places : (disk'[p] # 0 /\ Recorded(q)' = disk'[p]) => p = q
      BY <1>2, <1>5, <2>2 DEF Homes
    <3> QED BY <1>2, <3>2, <3>3, <3>4 DEF Homes, None
  <2>4. ASSUME NEW p \in Places, Sound(p)'
        PROVE  Sound(p) /\ p # o /\ disk'[p] = disk[p] /\ data'[disk[p]] = data[disk[p]]
    <3>1. p # o
      BY <1>4, <1>5, <2>2, <2>4 DEF Sound
    <3>2. Sound(p) /\ disk'[p] = disk[p]
      BY <1>2, <1>5, <1>10, <2>2, <2>4, <3>1 DEF Sound
    <3> QED BY <1>5, <2>1, <3>1, <3>2 DEF Sound
  <2>5. Accurate' /\ \A p, q \in Places : Unshared(p, q)' => Unshared(p, q)
    BY <1>2, <2>4, SoundGoesOn
  <2>6. \A p, q \in Places : Unshared(p, q)' =>
          \E x \in pairs' : x.pairing = "share" /\ x.other \in {Item(p), Item(q)}
    BY <1>6, <2>4, <2>5 DEF Unshared
  <2>7. pairs' = pairs \ {pair}
    BY <1>1
  <2>8. Turns' /\ Paired' /\ UnderWay'
    BY <1>2, <2>6, <2>7, SettledOne
  <2> QED BY <2>3, <2>5, <2>8 DEF PoolInv
<1>11. CASE /\ pair.pairing = "share" /\ ~Replaces(method)
            /\ disk[k] = Recorded(k) /\ disk[o] = Recorded(o) /\ disk[k] # disk[o]
            /\ disk[k] \in 1..Len(data) /\ disk[o] \in 1..Len(data)
            /\ data[disk[k]].contents = data[disk[o]].contents
            /\ data' = [data EXCEPT ![disk[o]].cluster = data[disk[k]].cluster]
            /\ disk' = disk /\ passed \subseteq passed'
            /\ disk[k] \in passed => disk[o] \in passed'
  <2>1. method = "dedupe-range"
    BY <1>2, <1>11, PoolAssumption DEF PoolTypes, Replaces
  <2>2. /\ data' \in Seq([contents : DOMAIN LengthOf, cluster : Int]) /\ Len(data') = Len(data)
        /\ \A i \in 1..Len(data) : /\ i # disk[o] => data'[i] = data[i]
                                   /\ data'[i].contents = data[i].contents
        /\ data'[disk[o]].cluster = data[disk[k]].cluster
    <3> DEFINE R == [contents : DOMAIN LengthOf, cluster : Int]
               new == [data[disk[o]] EXCEPT !.cluster = data[disk[k]].cluster]
    <3>1. data[disk[k]] \in R /\ data[disk[o]] \in R
      <4> HIDE DEF R
      <4>1. data \in Seq(R)
        BY <1>2 DEF PoolTypes, R
      <4> QED BY <1>11, <4>1, ElementOfSeq
    <3>2. /\ new \in R /\ new.contents = data[disk[o]].contents
          /\ new.cluster = data[disk[k]].cluster
      BY <3>1
    <3>3. data' = [data EXCEPT ![disk[o]] = new]
      BY <1>11
    <3> HIDE DEF R, new
    <3>4. data \in Seq(R)
      BY <1>2 DEF PoolTypes, R
    <3>5. data' \in Seq(R) /\ Len(data') = Len(data) /\ data'[disk[o]] = new
          /\ \A i \in 1..Len(data) : i # disk[o] => data'[i] = data[i]
      BY <1>11, <3>2, <3>3, <3>4
    <3> QED BY <3>2, <3>5 DEF R
  <2>3. PoolTypes' /\ Homes'
    BY <1>2, <1>5, <1>11, <2>2 DEF PoolTypes, Homes, None
  <2>4. ASSUME NEW p \in Places, Sound(p)' PROVE Sound(p) /\ disk[p] \in 1..Len(data)
    BY <1>2, <1>5, <1>11, <2>4 DEF Sound
  <2>5. \A p \in Places : (p # o /\ disk[p] # 0) => disk[p] # disk[o]
    BY <1>2, <1>4 DEF Homes
  <2>6. Accurate'
    <3> SUFFICES ASSUME NEW p \in Places, Sound(p)' PROVE stocks'[p[1]].files[p] = Facts(p)'
      BY DEF Accurate
    <3>1. stocks[p[1]].files[p] = Facts(p) /\ disk[p] \in 1..Len(data)
      BY <2>4 DEF PoolInv, Accurate
    <3> QED BY <1>2, <1>11, <2>1, <2>2, <3>1 DEF Facts
  <2>7. ASSUME NEW q \in Places, q # o, Sound(q)', Sound(o)',
               data'[disk[o]].contents = data'[disk[q]].contents,
               data'[disk[o]].cluster # data'[disk[q]].cluster
        PROVE  \E x \in pairs' : x.pairing = "share" /\ x.other = Item(q)
    <3>1. /\ Sound(q) /\ disk[q] \in 1..Len(data) /\ disk[q] # disk[o]
          /\ data'[disk[q]] = data[disk[q]]
      BY <1>4, <2>2, <2>4, <2>5, <2>7
    <3>2. q # k /\ data[disk[q]].contents = data[disk[k]].contents
          /\ data[disk[q]].cluster # data[disk[k]].cluster
      BY <1>11, <2>2, <2>7, <3>1
    <3>3. disk[k] \notin passed
      BY <1>4, <1>11, <2>7 DEF Sound
    <3>4. Sound(k)
      BY <1>4, <1>11, <3>3 DEF Sound
    <3>5. Unshared(k, q)
      BY <3>1, <3>2, <3>4 DEF Unshared
    <3>6. PICK x \in pairs : x.pairing = "share" /\ x.other \in {Item(k), Item(q)}
      BY <1>2, <1>4, <3>5 DEF PoolInv, UnderWay
    <3>7. x.other = Item(q)
      BY <1>2, <1>3, <3>6 DEF PoolInv, Paired
    <3>8. x # pair
      BY <1>3, <1>4, <2>7, <3>7, OneItem
    <3> QED BY <1>1, <3>6, <3>7, <3>8
  <2>8. ASSUME NEW p \in Places, NEW q \in Places, Unshared(p, q)'
        PROVE  \E x \in pairs' : x.pairing = "share" /\ x.other \in {Item(p), Item(q)}
    <3>1. /\ p # q /\ Sound(p)' /\ Sound(q)'
          /\ data'[disk[p]].contents = data'[disk[q]].contents
          /\ data'[disk[p]].cluster # data'[disk[q]].cluster
      BY <1>11, <2>8 DEF Unshared
    <3>2. CASE p = o
      BY <2>7, <3>1, <3>2
    <3>3. CASE q = o
      BY <2>7, <3>1, <3>3
    <3>4. CASE p # o /\ q # o
      <4>1. /\ Sound(p) /\ Sound(q) /\ data'[disk[p]] = data[disk[p]]
            /\ data'[disk[q]] = data[disk[q]]
        BY <2>2, <2>4, <2>5, <3>1, <3>4, SMTT(20)
      <4>2. Unshared(p, q)
        BY <3>1, <4>1 DEF Unshared
      <4> QED BY <1>6, <3>4, <4>2
    <3> QED BY <3>2, <3>3, <3>4
  <2>9. pairs' = pairs \ {pair}
    BY <1>1
  <2>10. Turns' /\ Paired' /\ UnderWay'
    BY <1>2, <2>8, <2>9, SettledOne
  <2> QED BY <2>3, <2>6, <2>10 DEF PoolInv
<1>12. CASE /\ pair.pairing = "share"
            /\ PrintOf(pair.kept) # "unread" /\ PrintOf(pair.other) # "unread"
            /\ PrintOf(pair.kept) = PrintOf(pair.other)
            /\ passed' = IF pair.kept.file \in passed
                         THEN passed \cup {pair.other.file} ELSE passed
            /\ IF Replaces(method)
               THEN /\ data' = Append(data, data[pair.kept.file])
                    /\ disk' = [disk EXCEPT ![PlaceOf(pair.other)] = Len(data')]
               ELSE /\ data' = [data EXCEPT ![pair.other.file].cluster =
                                               data[pair.kept.file].cluster]
                    /\ UNCHANGED disk
  <2>1. /\ disk[k] = Recorded(k) /\ disk[o] = Recorded(o)
        /\ data[disk[k]].contents = data[disk[o]].contents
        /\ disk[k] \in 1..Len(data) /\ disk[o] \in 1..Len(data) /\ disk[k] # disk[o]
    BY <1>9, <1>12
  <2>2. passed \subseteq passed' /\ (disk[k] \in passed => disk[o] \in passed')
    BY <1>4, <1>12, <2>1
  <2>3. CASE Replaces(method)
    BY <1>4, <1>10, <1>12, <2>1, <2>2, <2>3
  <2>4. CASE ~Replaces(method)
    BY <1>4, <1>11, <1>12, <2>1, <2>2, <2>4
  <2> QED BY <2>3, <2>4
<1> QED BY <1>1, <1>7, <1>8, <1>12

-------------------------------------------------------------------------------
LEMMA PoolNextKeeps == ASSUME PoolInv, PoolNext PROVE PoolInv'
  BY LocksKeep, AppearKeeps, ProcessKeeps, RewritesKeep, LoseKeeps, StockAllKeeps, StockKeeps,
     NoteKeeps, CompareKeeps, SettleKeeps, DoneKeeps DEF PoolNext

LEMMA PoolStutters == ASSUME PoolInv, UNCHANGED pool PROVE PoolInv'
<1>1. UNCHANGED <<method, disk, data, stocks, passed, doing, root, names, fresh, pairs, heard,
                  again, writes>>
  BY DEF pool
<1>2. PoolTypes' /\ Turns'
  BY <1>1, FilesRest DEF PoolInv, PoolTypes, Turns, FilesIn
<1>3. Paired' /\ UnderWay'
  BY <1>1, FilesRest, TurnRests
<1> QED BY <1>1, <1>2, <1>3, FilesRest DEF PoolInv

(* Whatever files there are, however they are written, lost track of and     *)
(* shared: what a session knows is sound, and what lies apart is under way.  *)
THEOREM PoolInvariant == PoolSpec => []PoolInv
<1>1. PoolInit => PoolInv
  BY PoolStarts
<1>2. PoolInv /\ [PoolNext]_pool => PoolInv'
  BY PoolNextKeeps, PoolStutters
<1> QED BY <1>1, <1>2, PTL DEF PoolSpec

(* Sharing only what is fresh leaves out nothing that is sound.              *)
THEOREM NothingStaysUnshared == PoolSpec => []NothingLeftUnshared
<1>1. PoolInv => NothingLeftUnshared
  <2> SUFFICES ASSUME PoolInv, doing = "wait", NEW p \in Indexed, NEW q \in Indexed, p # q,
                      {disk[p], disk[q]} \cap ({0} \cup passed) = {},
                      stocks[p[1]].files[p].inode = disk[p], stocks[q[1]].files[q].inode = disk[q],
                      data[disk[p]].contents = data[disk[q]].contents
               PROVE  data[disk[p]].cluster = data[disk[q]].cluster
    BY DEF NothingLeftUnshared
  <2>1. p \in Places /\ q \in Places /\ stocks[p[1]].part /\ stocks[q[1]].part
    BY DEF Indexed
  <2>2. Sound(p) /\ Sound(q)
    BY <2>1 DEF Sound, Recorded
  <2>3. ~Unshared(p, q)
    BY <2>1 DEF PoolInv, UnderWay
  <2> QED BY <2>2, <2>3 DEF Unshared
<1> QED BY <1>1, PoolInvariant, PTL

-------------------------------------------------------------------------------
(* How a plan is done with.                                                 *)

Parting(records, print) ==
    UNION {Split(g, [r \in g |-> print[r.place]]) : g \in Groups(records)}

(* The files that are as long as one and were read as it was.                *)
Class(records, print, r) ==
    {t \in records : t.volume = r.volume /\ t.len = r.len /\ print[t.place] = print[r.place]}

(* What becomes of one.                                                      *)
After(records, print, r) ==
    LET planned == Planned(records, print)
    IN IF \E p \in planned : p.other = r /\ p.pairing = "share"
       THEN [r EXCEPT !.cluster =
                (CHOOSE p \in planned : p.other = r /\ p.pairing = "share").kept.cluster]
       ELSE r

LEMMA PartingIs ==
    ASSUME NEW records, IsFiniteSet(records), \A r \in records : r.place \in Nat, NEW print,
           NEW part \in Parting(records, print)
    PROVE  /\ part \subseteq records /\ Keeper(part) \in part
           /\ \A s \in part : Preferred(part, Keeper(part), s)
           /\ \A r \in part : /\ part = Class(records, print, r)
                              /\ r.len >= Minimum /\ print[r.place] # "unread"
<1>1. PICK g \in Groups(records) : part \in Split(g, [r \in g |-> print[r.place]])
  BY DEF Parting
<1>2. PICK a \in records : /\ g = {r \in records : <<r.volume, r.len>> = <<a.volume, a.len>>}
                           /\ \A r \in g : r.len >= Minimum
  BY DEF Groups
<1>3. PICK q \in g : /\ part = {r \in g : print[r.place] = print[q.place]}
                     /\ print[q.place] # "unread"
  <2> DEFINE read == [r \in g |-> print[r.place]]
  <2>1. \E q \in g : part = {r \in g : read[r] = read[q]} /\ read[q] # "unread"
    BY <1>1 DEF Split
  <2> QED BY <2>1
<1>4. part \in SUBSET records /\ q \in part
  BY <1>2, <1>3
<1>5. \A r \in part : /\ part = Class(records, print, r)
                      /\ r.len >= Minimum /\ print[r.place] # "unread"
  BY <1>2, <1>3 DEF Class
<1>6. IsFiniteSet(part)
  BY <1>4, FS_Subset
<1>7. Keeper(part) \in part /\ \A s \in part : Preferred(part, Keeper(part), s)
  BY <1>4, <1>6, KeeperIsOne
<1> QED BY <1>4, <1>5, <1>7

LEMMA ClassIsPart ==
    ASSUME NEW records, IsFiniteSet(records), NEW print, NEW r \in records, NEW s \in records,
           s \in Class(records, print, r), Family(r) # Family(s),
           r.len >= Minimum, print[r.place] # "unread"
    PROVE  Class(records, print, r) \in Parting(records, print)
<1> DEFINE g == {t \in records : <<t.volume, t.len>> = <<r.volume, r.len>>}
           read == [t \in g |-> print[t.place]]
           part == {t \in g : read[t] = read[r]}
<1>1. r \in part /\ s \in part /\ part = Class(records, print, r)
      /\ part \in SUBSET records /\ part \in SUBSET g /\ g \in SUBSET records
  BY DEF Class
<1>2. ASSUME NEW S \in SUBSET records, r \in S, s \in S PROVE Cardinality(Families(S)) > 1
  <2>1. IsFiniteSet(S)
    BY FS_Subset
  <2>2. Family(r) \in Families(S) /\ Family(s) \in Families(S)
    BY <1>2 DEF Families
  <2> QED BY <2>1, <2>2, FamiliesFinite, TwoAreMany
<1>3. Cardinality(Families(part)) > 1 /\ Cardinality(Families(g)) > 1
  BY <1>1, <1>2
<1>4. g \in Groups(records)
  BY <1>3 DEF Groups
<1>5. part \in Split(g, read)
  BY <1>1, <1>3 DEF Split
<1> QED BY <1>1, <1>4, <1>5 DEF Parting

(* A file takes the cluster of the one that is kept of its class, or none.   *)
LEMMA AfterIs ==
    ASSUME NEW records, IsFiniteSet(records), \A r \in records : r.place \in Nat, NEW print,
           NEW r \in records
    PROVE  LET class == Class(records, print, r)
               kept == Keeper(class)
               shared == class \in Parting(records, print) /\ r # kept /\ Pair(kept, r) = "share"
           IN /\ shared => After(records, print, r) = [r EXCEPT !.cluster = kept.cluster]
              /\ ~shared => After(records, print, r) = r
<1> DEFINE class == Class(records, print, r)
           kept == Keeper(class)
           shared == class \in Parting(records, print) /\ r # kept /\ Pair(kept, r) = "share"
           planned == Planned(records, print)
           one(p) == p.other = r /\ p.pairing = "share"
<1>1. r \in class
  BY DEF Class
<1>2. planned = Plan(Parting(records, print))
  BY DEF Planned, Parting
<1>3. ASSUME NEW p \in planned, one(p) PROVE shared /\ p.kept = kept
  <2>1. PICK part \in Parting(records, print) :
          p \in {[kept |-> Keeper(part), other |-> t, pairing |-> Pair(Keeper(part), t)] :
                    t \in part \ {Keeper(part)}}
    BY <1>2 DEF Plan
  <2>2. /\ p.kept = Keeper(part) /\ p.other = r /\ r \in part /\ r # Keeper(part)
        /\ Pair(Keeper(part), r) = "share"
    BY <1>3, <2>1
  <2>3. part = class
    BY <2>2, PartingIs
  <2> QED BY <2>2, <2>3
<1>4. ASSUME shared PROVE \E p \in planned : one(p)
  <2>1. [kept |-> kept, other |-> r, pairing |-> Pair(kept, r)] \in planned
    BY <1>1, <1>2, <1>4 DEF Plan
  <2> QED BY <1>4, <2>1
<1>5. ASSUME shared PROVE After(records, print, r) = [r EXCEPT !.cluster = kept.cluster]
  <2> DEFINE chosen == CHOOSE p \in planned : one(p)
  <2>1. chosen \in planned /\ one(chosen)
    BY <1>4, <1>5
  <2>2. chosen.kept = kept
    BY <1>3, <2>1
  <2> HIDE DEF kept
  <2> QED BY <1>4, <1>5, <2>2 DEF After
<1>6. ASSUME ~shared PROVE After(records, print, r) = r
  <2>1. ~\E p \in planned : one(p)
    BY <1>3, <1>6
  <2> QED BY <2>1 DEF After
<1> QED BY <1>5, <1>6

(* How many share a cluster, where clusters are known.                       *)
LEMMA FamilyIsCluster ==
    ASSUME NEW S, IsFiniteSet(S), \A s \in S : s.cluster # 0, NEW r \in S
    PROVE  /\ FamilySize(S, r) = Cardinality({s \in S : s.cluster = r.cluster})
           /\ FamilySize(S, r) \in Nat /\ IsFiniteSet({s \in S : s.cluster = r.cluster})
<1> DEFINE T == {s \in S : s.cluster = r.cluster}
<1>1. {s \in S : Family(s) = Family(r)} = T
  BY DEF Family
<1>2. T \in SUBSET S
  OBVIOUS
<1>3. IsFiniteSet(T) /\ Cardinality(T) \in Nat
  BY <1>2, FS_Subset, FS_CardinalityType
<1> QED BY <1>1, <1>3 DEF FamilySize

LEMMA AfterKeeps ==
    ASSUME NEW records, Observed(records), NEW print, NEW r \in records
    PROVE  LET a == After(records, print, r)
           IN /\ a.place = r.place /\ a.file = r.file /\ a.volume = r.volume /\ a.len = r.len
              /\ a.method = r.method /\ a.links = r.links /\ a.owner = r.owner
              /\ a.mode = r.mode /\ a.extras = r.extras /\ a.cluster \in Nat \ {0}
              /\ a = [r EXCEPT !.cluster = a.cluster]
<1> DEFINE class == Class(records, print, r)
           kept == Keeper(class)
           a == After(records, print, r)
<1>1. IsFiniteSet(records) /\ \A t \in records : t.place \in Nat /\ t.cluster \in Nat \ {0}
  BY DEF Observed
<1>2. r = [r EXCEPT !.cluster = r.cluster]
  BY DEF Observed
<1>3. \/ a = r
      \/ class \in Parting(records, print) /\ a = [r EXCEPT !.cluster = kept.cluster]
  BY <1>1, AfterIs
<1>4. \E c \in Nat \ {0} : a = [r EXCEPT !.cluster = c]
  <2>1. CASE a = r
    BY <1>1, <1>2, <2>1
  <2>2. CASE class \in Parting(records, print) /\ a = [r EXCEPT !.cluster = kept.cluster]
    <3>1. kept \in records
      BY <1>1, <2>2, PartingIs
    <3> QED BY <1>1, <2>2, <3>1
  <2> QED BY <1>3, <2>1, <2>2
<1> HIDE DEF a
<1>5. PICK c \in Nat \ {0} : a = [r EXCEPT !.cluster = c]
  BY <1>4
<1>6. r \in [place : Nat, file : Nat, volume : Nat, len : Nat, method : STRING, links : Nat,
             owner : STRING, mode : STRING, extras : STRING, cluster : Nat \ {0}]
  BY DEF Observed
<1>7. /\ a.place = r.place /\ a.file = r.file /\ a.volume = r.volume /\ a.len = r.len
      /\ a.method = r.method /\ a.links = r.links /\ a.owner = r.owner
      /\ a.mode = r.mode /\ a.extras = r.extras /\ a.cluster = c
  BY <1>5, <1>6
<1> QED BY <1>5, <1>7 DEF a

(* What it is to be kept rather than another.                                *)
LEMMA PreferredMeans ==
    ASSUME NEW S, NEW r, NEW s, Preferred(S, r, s),
           FamilySize(S, r) \in Nat, FamilySize(S, s) \in Nat
    PROVE  /\ FamilySize(S, r) >= FamilySize(S, s)
           /\ FamilySize(S, r) = FamilySize(S, s) =>
                \/ Fixed(r) /\ ~Fixed(s)
                \/ (Fixed(r) <=> Fixed(s)) /\ r.place <= s.place
<1> DEFINE m == FamilySize(S, r)
           n == FamilySize(S, s)
<1>1. \/ m > n
      \/ m = n /\ Fixed(r) /\ ~Fixed(s)
      \/ m = n /\ (Fixed(r) <=> Fixed(s)) /\ r.place <= s.place
  BY Zenon DEF Preferred
<1> HIDE DEF m, n
<1>2. m \in Nat /\ n \in Nat
  BY DEF m, n
<1>3. m >= n /\ (m = n => \/ Fixed(r) /\ ~Fixed(s)
                          \/ (Fixed(r) <=> Fixed(s)) /\ r.place <= s.place)
  BY <1>1, <1>2
<1> QED BY <1>3 DEF m, n

(* When a pair is shared, and when one that is not is refused.               *)
LEMMA PairMeans ==
    ASSUME NEW kept, NEW other, kept.cluster # 0
    PROVE  Pair(kept, other) = "share" <=>
             /\ kept.file # other.file /\ kept.volume = other.volume /\ kept.len = other.len
             /\ kept.cluster # other.cluster
             /\ other.owner = "caller"
             /\ Replaces(other.method) =>
                  /\ ~(other.links > 1 \/ other.mode = "executable")
                  /\ kept.extras = other.extras
                  /\ kept.extras # "special" /\ kept.extras # "unobserved"
<1>1. {kept.extras, other.extras} \cap {"special", "unobserved"} # {} <=>
        kept.extras \in {"special", "unobserved"} \/ other.extras \in {"special", "unobserved"}
  OBVIOUS
<1> QED BY <1>1 DEF Pair

(* Of the files of one class, each after its own sharing.                    *)
LEMMA ClassAfter ==
    ASSUME NEW records, Observed(records), NEW print, NEW r \in records
    PROVE  LET records2 == {After(records, print, t) : t \in records}
           IN Class(records2, print, After(records, print, r)) =
                {After(records, print, t) : t \in Class(records, print, r)}
<1> DEFINE A(t) == After(records, print, t)
           records2 == {A(t) : t \in records}
<1>1. \A t \in records : /\ A(t).place = t.place /\ A(t).volume = t.volume
                         /\ A(t).len = t.len
  BY AfterKeeps
<1> HIDE DEF A
<1>2. Class(records2, print, A(r)) = {A(t) : t \in Class(records, print, r)}
  BY <1>1 DEF Class
<1> QED BY <1>2 DEF A

(* Finitely many files stay finitely many.                                   *)
LEMMA AfterFinite ==
    ASSUME NEW records, NEW print, NEW S, IsFiniteSet(S)
    PROVE  IsFiniteSet({After(records, print, t) : t \in S})
<1> DEFINE T == {After(records, print, t) : t \in S}
           f == [t \in S |-> After(records, print, t)]
<1>1. f \in Surjection(S, T)
  BY DEF Surjection
<1> QED BY <1>1, FS_Surjection

(* Once one of a class has taken the cluster of the file that was kept, that *)
(* cluster is the largest, and what is kept the next time lies in it.        *)
LEMMA KeptAgain ==
    ASSUME NEW records, Observed(records), NEW print, NEW r \in records,
           Class(records, print, r) \in Parting(records, print),
           NEW z \in Class(records, print, r), After(records, print, z) # z,
           NEW n \in Class(records, print, r),
           \A t \in {After(records, print, s) : s \in Class(records, print, r)} :
               Preferred({After(records, print, s) : s \in Class(records, print, r)},
                         After(records, print, n), t)
    PROVE  LET K == Keeper(Class(records, print, r))
           IN /\ After(records, print, n).cluster = K.cluster
              /\ z # K /\ Pair(K, z) = "share" /\ K \in records /\ After(records, print, K) = K
<1> DEFINE A(t) == After(records, print, t)
           S == Class(records, print, r)
           K == Keeper(S)
           T == {A(t) : t \in S}
           Joined(t) == t # K /\ Pair(K, t) = "share"
           F == {s \in S : s.cluster = K.cluster}
<1>1. /\ IsFiniteSet(records) /\ S \subseteq records
      /\ \A t \in records : t.place \in Nat /\ t.cluster \in Nat \ {0}
  BY DEF Class, Observed
<1>2. /\ K \in S /\ \A s \in S : Preferred(S, K, s) /\ S = Class(records, print, s)
  BY <1>1, PartingIs
<1>3. \A t \in S : /\ Joined(t) => A(t) = [t EXCEPT !.cluster = K.cluster]
                   /\ ~Joined(t) => A(t) = t
  BY <1>1, <1>2, AfterIs
<1>4. \A t \in S : /\ A(t).place = t.place /\ A(t).cluster \in Nat \ {0}
                   /\ Joined(t) => A(t).cluster = K.cluster
  <2> TAKE t \in S
  <2>1. A(t).place = t.place /\ A(t).cluster \in Nat \ {0} /\ A(t) = [t EXCEPT !.cluster = A(t).cluster]
    BY <1>1, AfterKeeps
  <2>2. ASSUME Joined(t) PROVE A(t).cluster = K.cluster
    <3>1. t \in [place : Nat, file : Nat, volume : Nat, len : Nat, method : STRING, links : Nat,
                 owner : STRING, mode : STRING, extras : STRING, cluster : Nat \ {0}]
      BY <1>1 DEF Observed
    <3>2. A(t) = [t EXCEPT !.cluster = K.cluster]
      BY <1>3, <2>2
    <3> HIDE DEF A, K
    <3> QED BY <3>1, <3>2
  <2> QED BY <2>1, <2>2
<1>5. Joined(z)
  BY <1>3
<1>6. A(K) = K
  BY <1>2, <1>3
<1>7. \A t \in S : Joined(t) => t.cluster # K.cluster
  BY <1>1, <1>2, PairMeans
<1>8. IsFiniteSet(S) /\ IsFiniteSet(T)
  <2>1. IsFiniteSet(S)
    BY <1>1, FS_Subset
  <2> QED BY <2>1, AfterFinite
<1>9. /\ K \in T /\ K = A(K) /\ \A t \in T : t.cluster # 0
      /\ \A t \in S : t.cluster # 0
  BY <1>1, <1>2, <1>4, <1>6
<1> DEFINE G == {t \in T : t.cluster = K.cluster}
<1>10. /\ FamilySize(S, K) = Cardinality(F) /\ IsFiniteSet(F) /\ Cardinality(F) \in Nat
       /\ FamilySize(T, K) = Cardinality(G) /\ IsFiniteSet(G) /\ Cardinality(G) \in Nat
  <2>1. IsFiniteSet(F) /\ FamilySize(S, K) = Cardinality(F)
    BY <1>2, <1>8, <1>9, FamilyIsCluster
  <2>2. IsFiniteSet(G) /\ FamilySize(T, K) = Cardinality(G)
    BY <1>8, <1>9, FamilyIsCluster
  <2> QED BY <2>1, <2>2, FS_CardinalityType
<1>11. Cardinality(G) >= Cardinality(F) + 1
  <2>1. A(z) \notin F
    <3> SUFFICES ASSUME A(z) \in F PROVE FALSE
      OBVIOUS
    <3>1. A(z) \in records /\ z \in records /\ A(z).place = z.place
      BY <1>1, <1>4
    <3>2. A(z) = z
      BY <3>1 DEF Observed
    <3> QED BY <1>5, <1>7, <3>2
  <2>2. F \cup {A(z)} \in SUBSET G
    <3>1. \A t \in F : t \in S /\ ~Joined(t)
      BY <1>7
    <3>2. \A t \in F : t \in T
      BY <1>3, <3>1
    <3>3. A(z) \in G
      BY <1>4, <1>5
    <3> QED BY <3>2, <3>3
  <2>3. Cardinality(F \cup {A(z)}) = Cardinality(F) + 1 /\ IsFiniteSet(F \cup {A(z)})
    BY <1>10, <2>1, FS_AddElement
  <2>4. Cardinality(F \cup {A(z)}) <= Cardinality(G)
    BY <1>10, <2>2, FS_Subset
  <2> HIDE DEF F, G, A
  <2> QED BY <1>10, <2>3, <2>4
<1>12. A(n) \in T /\ Preferred(T, A(n), K)
  BY <1>2, <1>9
<1>13. A(n).cluster = K.cluster
  <2> SUFFICES ASSUME A(n).cluster # K.cluster PROVE FALSE
    OBVIOUS
  <2> DEFINE H == {t \in T : t.cluster = A(n).cluster}
             I == {s \in S : s.cluster = n.cluster}
  <2>1. n \in S /\ ~Joined(n) /\ A(n) = n
    BY <1>3, <1>4
  <2>2. H \in SUBSET I
    <3> SUFFICES ASSUME NEW t \in S, A(t).cluster = n.cluster PROVE A(t) \in I
      BY <2>1
    <3>1. ~Joined(t)
      BY <1>4, <2>1
    <3> QED BY <1>3, <3>1
  <2>3. /\ IsFiniteSet(H) /\ FamilySize(T, A(n)) = Cardinality(H)
        /\ FamilySize(T, A(n)) \in Nat
    BY <1>8, <1>9, <1>12, FamilyIsCluster
  <2>4. /\ IsFiniteSet(I) /\ FamilySize(S, n) = Cardinality(I)
        /\ FamilySize(S, n) \in Nat
    BY <1>8, <1>9, <2>1, FamilyIsCluster
  <2>5. Cardinality(H) <= Cardinality(I)
    BY <2>2, <2>4, FS_Subset
  <2>6. FamilySize(S, K) \in Nat /\ FamilySize(T, K) \in Nat
    BY <1>10
  <2>7. FamilySize(S, K) >= FamilySize(S, n)
    BY <1>2, <2>1, <2>4, <2>6, PreferredMeans
  <2>8. FamilySize(T, A(n)) >= FamilySize(T, K)
    BY <1>12, <2>3, <2>6, PreferredMeans
  <2> HIDE DEF A, F, G, H, I, S, T, K
  <2> QED BY <1>10, <1>11, <2>3, <2>4, <2>5, <2>7, <2>8
<1> QED BY <1>1, <1>2, <1>5, <1>6, <1>13

(* No pair is planned of files that were not read as equal.                  *)
LEMMA PairedIsEqual ==
    ASSUME NEW records, IsFiniteSet(records), \A r \in records : r.place \in Nat, NEW print
    PROVE  \A p \in Planned(records, print) : print[p.kept.place] = print[p.other.place]
<1> TAKE p \in Planned(records, print)
<1>1. PICK part \in Parting(records, print) :
        \E t \in part : p = [kept |-> Keeper(part), other |-> t, pairing |-> Pair(Keeper(part), t)]
  BY DEF Planned, Plan, Parting
<1>2. p.kept \in part /\ p.other \in part
  BY <1>1, PartingIs
<1>3. part = Class(records, print, p.kept)
  BY <1>1, <1>2, PartingIs
<1> QED BY <1>2, <1>3 DEF Class

(* A plan is done with in one go.  Where the filesystem tells which files     *)
(* share their blocks, files are read once, every pair of the plan is shared, *)
(* and the next plan shares nothing.                                          *)
LEMMA Converged ==
    ASSUME NEW records, Observed(records), NEW print
    PROVE  /\ \A p \in Planned(AllShared(records, Planned(records, print)), print) :
                 p.pairing # "share"
           /\ \A p \in Planned(records, print) \cup Planned(AllShared(records, Planned(records, print)), print) :
                 print[p.kept.place] = print[p.other.place]
<1> DEFINE A(t) == After(records, print, t)
           planned == Planned(records, print)
           records2 == {A(t) : t \in records}
           C(t) == Class(records, print, t)
           D(t) == Class(records2, print, t)
<1>1. /\ IsFiniteSet(records) /\ IsFiniteSet(records2)
      /\ \A r \in records : r.place \in Nat /\ r.cluster \in Nat \ {0}
  BY AfterFinite DEF Observed
<1>2. \A r \in records :
        /\ A(r).place = r.place /\ A(r).file = r.file /\ A(r).volume = r.volume
        /\ A(r).len = r.len /\ A(r).method = r.method /\ A(r).links = r.links
        /\ A(r).owner = r.owner /\ A(r).mode = r.mode /\ A(r).extras = r.extras
        /\ A(r).cluster \in Nat \ {0}
  BY AfterKeeps
<1>3. AllShared(records, planned) = records2
  BY DEF AllShared, After
<1>4. /\ \A p \in planned : print[p.kept.place] = print[p.other.place]
      /\ \A p \in Planned(records2, print) : print[p.kept.place] = print[p.other.place]
  <2>1. \A r \in records2 : r.place \in Nat
    BY <1>1, <1>2
  <2> HIDE DEF records2
  <2> QED BY <1>1, <2>1, PairedIsEqual
<1>5. ASSUME NEW p \in Planned(records2, print), p.pairing = "share" PROVE FALSE
  <2>1. PICK part \in Parting(records2, print) :
          \E t \in part \ {Keeper(part)} :
              p = [kept |-> Keeper(part), other |-> t, pairing |-> Pair(Keeper(part), t)]
    BY DEF Planned, Plan, Parting
  <2>2. PICK b \in part : b # Keeper(part) /\ Pair(Keeper(part), b) = "share"
    BY <1>5, <2>1
  <2>3. /\ part \subseteq records2 /\ Keeper(part) \in part
        /\ \A t \in part : Preferred(part, Keeper(part), t)
        /\ \A t \in part : part = D(t) /\ t.len >= Minimum /\ print[t.place] # "unread"
    <3>1. \A r \in records2 : r.place \in Nat
      BY <1>1, <1>2
    <3> HIDE DEF records2
    <3> QED BY <1>1, <2>1, <3>1, PartingIs
  <2>4. PICK k \in records : Keeper(part) = A(k)
    BY <2>3
  <2>5. PICK y \in records : b = A(y)
    BY <2>2, <2>3
  <2> DEFINE S == C(k)
             K == Keeper(S)
  <2>6. /\ part = {A(t) : t \in S} /\ k \in S /\ S \subseteq records
        /\ k.len >= Minimum /\ print[k.place] # "unread"
    <3>1. part = D(A(k))
      BY <2>3, <2>4
    <3>2. D(A(k)) = {A(t) : t \in S}
      BY ClassAfter
    <3>3. A(k).len >= Minimum /\ print[A(k).place] # "unread"
      BY <2>3, <2>4
    <3> QED BY <1>2, <3>1, <3>2, <3>3 DEF Class
  <2>7. y \in S
    <3>1. PICK t \in S : A(y) = A(t)
      BY <2>2, <2>5, <2>6
    <3>2. y = t
      BY <1>2, <2>6, <3>1 DEF Observed
    <3> QED BY <3>1, <3>2
  <2>8. \A t \in S : C(t) = S
    BY DEF Class
  <2>9. /\ A(k).file # A(y).file /\ A(k).volume = A(y).volume /\ A(k).len = A(y).len
        /\ A(k).cluster # A(y).cluster
        /\ A(y).owner = "caller"
        /\ Replaces(A(y).method) =>
             /\ ~(A(y).links > 1 \/ A(y).mode = "executable")
             /\ A(k).extras = A(y).extras
             /\ A(k).extras # "special" /\ A(k).extras # "unobserved"
    BY <1>2, <2>2, <2>4, <2>5, PairMeans
  <2>10. CASE \A t \in S : A(t) = t
    <3>1. part = S /\ K = k
      BY <2>4, <2>6, <2>7, <2>10
    <3>2. Family(k) # Family(y)
      BY <1>1, <2>6, <2>7, <2>9, <2>10 DEF Family
    <3>3. S \in Parting(records, print)
      BY <1>1, <2>6, <2>7, <3>2, ClassIsPart
    <3>4. Pair(K, y) = "share" /\ y # K
      BY <2>2, <2>4, <2>5, <2>6, <2>7, <2>10, <3>1
    <3>5. A(y) = [y EXCEPT !.cluster = K.cluster]
      BY <1>1, <2>7, <2>8, <3>3, <3>4, AfterIs
    <3>6. A(y).cluster = K.cluster
      <4>1. y \in [place : Nat, file : Nat, volume : Nat, len : Nat, method : STRING, links : Nat,
                   owner : STRING, mode : STRING, extras : STRING, cluster : Nat \ {0}]
        BY DEF Observed
      <4> HIDE DEF A, K
      <4> QED BY <3>5, <4>1
    <3> QED BY <2>6, <2>9, <2>10, <3>1, <3>6
  <2>11. CASE \E z \in S : A(z) # z
    <3>1. PICK z \in S : A(z) # z
      BY <2>11
    <3>2. S \in Parting(records, print)
      BY <1>1, <2>6, <2>8, <3>1, AfterIs
    <3>3. /\ A(k).cluster = K.cluster /\ z # K /\ Pair(K, z) = "share"
          /\ K \in records /\ A(K) = K
      <4>1. \A t \in {A(s) : s \in S} : Preferred({A(s) : s \in S}, A(k), t)
        BY <2>3, <2>4, <2>6
      <4>2. /\ Class(records, print, k) \in Parting(records, print)
            /\ z \in Class(records, print, k) /\ After(records, print, z) # z
            /\ k \in Class(records, print, k)
        BY <2>6, <3>1, <3>2
      <4>3. \A t \in {After(records, print, s) : s \in Class(records, print, k)} :
              Preferred({After(records, print, s) : s \in Class(records, print, k)},
                        After(records, print, k), t)
        BY <4>1
      <4> QED BY ONLY Observed(records), <4>2, <4>3, KeptAgain
    <3>4. /\ K \in S /\ \A s \in S : Preferred(S, K, s)
      BY <1>1, <3>2, PartingIs
    <3>5. \A t \in S : /\ t # K /\ Pair(K, t) = "share" => A(t) = [t EXCEPT !.cluster = K.cluster]
                       /\ ~(t # K /\ Pair(K, t) = "share") => A(t) = t
      BY <1>1, <2>6, <2>8, <3>2, AfterIs
    <3>6. ~(y # K /\ Pair(K, y) = "share") /\ A(y) = y
      <4>1. SUFFICES ASSUME y # K, Pair(K, y) = "share" PROVE FALSE
        BY <2>7, <3>5
      <4>2. A(y) = [y EXCEPT !.cluster = K.cluster]
        BY <2>7, <3>5, <4>1
      <4>3. y \in [place : Nat, file : Nat, volume : Nat, len : Nat, method : STRING, links : Nat,
                   owner : STRING, mode : STRING, extras : STRING, cluster : Nat \ {0}]
        BY DEF Observed
      <4>4. A(y).cluster = K.cluster
        <5> HIDE DEF A, K
        <5> QED BY <4>2, <4>3
      <4> QED BY <2>9, <3>3, <4>4
    <3>7. y # K /\ y.cluster # K.cluster
      BY <2>9, <3>3, <3>6
    <3>8. /\ K.volume = k.volume /\ K.len = k.len /\ y.volume = k.volume /\ z.volume = k.volume
      BY <2>7, <3>1, <3>4 DEF Class
    <3>9. /\ Replaces(z.method) <=> Replaces(y.method)
          /\ Replaces(k.method) <=> Replaces(y.method)
          /\ K.file # y.file
      BY <2>6, <2>7, <3>1, <3>3, <3>7, <3>8 DEF Observed
    <3>10. K.cluster # 0 /\ y.len = K.len
      BY <1>1, <2>7, <3>3, <3>4 DEF Class
    <3>11. Replaces(y.method) /\ K.extras # k.extras /\ K.extras # "special" /\ K.extras # "unobserved"
      <4>1. ~/\ K.file # y.file /\ K.volume = y.volume /\ K.len = y.len
             /\ K.cluster # y.cluster
             /\ y.owner = "caller"
             /\ Replaces(y.method) =>
                  /\ ~(y.links > 1 \/ y.mode = "executable")
                  /\ K.extras = y.extras
                  /\ K.extras # "special" /\ K.extras # "unobserved"
        BY <3>6, <3>7, <3>10, PairMeans
      <4>2. Replaces(z.method) => K.extras # "special" /\ K.extras # "unobserved"
        BY <3>3, <3>10, PairMeans
      <4>3. /\ y.owner = "caller" /\ k.extras = A(k).extras
            /\ Replaces(y.method) =>
                  /\ ~(y.links > 1 \/ y.mode = "executable")
                  /\ k.extras = y.extras
        BY <1>2, <2>9, <3>6
      <4> HIDE DEF A, K
      <4> QED BY <3>7, <3>8, <3>9, <3>10, <4>1, <4>2, <4>3
    <3>12. ~(k # K /\ Pair(K, k) = "share") /\ A(k) = k
      <4>1. Pair(K, k) = "share" => K.extras = k.extras
        BY <3>9, <3>10, <3>11, PairMeans
      <4> QED BY <2>6, <3>5, <3>11, <4>1
    <3>13. k.cluster = K.cluster
      BY <3>3, <3>12
    <3>14. /\ FamilySize(S, K) \in Nat /\ FamilySize(S, k) = FamilySize(S, K)
           /\ FamilySize(part, K) \in Nat /\ FamilySize(part, k) = FamilySize(part, K)
      <4>1. IsFiniteSet(S) /\ IsFiniteSet(part)
        BY <1>1, <2>3, <2>6, FS_Subset
      <4>2. Family(k) = Family(K)
        BY <3>13, <1>1, <3>3 DEF Family
      <4>3. FamilySize(S, k) = FamilySize(S, K) /\ FamilySize(part, k) = FamilySize(part, K)
        BY <4>2 DEF FamilySize
      <4>4. {s \in S : Family(s) = Family(K)} \in SUBSET S
            /\ {s \in part : Family(s) = Family(K)} \in SUBSET part
        OBVIOUS
      <4>5. FamilySize(S, K) \in Nat /\ FamilySize(part, K) \in Nat
        BY <4>1, <4>4, FS_Subset, FS_CardinalityType DEF FamilySize
      <4> QED BY <4>3, <4>5
    <3>15. \/ Fixed(K) /\ ~Fixed(k)
           \/ (Fixed(K) <=> Fixed(k)) /\ K.place <= k.place
      BY <2>6, <3>4, <3>14, PreferredMeans
    <3>16. \/ Fixed(k) /\ ~Fixed(K)
           \/ (Fixed(k) <=> Fixed(K)) /\ k.place <= K.place
      <4>1. K \in part
        BY <2>6, <3>3, <3>4
      <4>2. Preferred(part, k, K)
        BY <2>3, <2>4, <3>12, <4>1
      <4> QED BY <3>14, <4>2, PreferredMeans
    <3>17. K.place = k.place
      <4>1. K.place \in Nat /\ k.place \in Nat
        BY <1>1, <3>3
      <4> HIDE DEF K
      <4> QED BY <3>15, <3>16, <4>1
    <3> QED BY <3>3, <3>11, <3>17 DEF Observed
  <2> QED BY <2>10, <2>11
<1> QED BY <1>3, <1>4, <1>5

(* A run of the command leaves the next one nothing to do: for any finite     *)
(* files of any owners, names, modes, attributes and clusters, what has been  *)
(* shared is not shared again, and what was not read as equal is never paired *)
(* (core/share.rs: groups, split, keeper, pair; cli/dedupe.rs).               *)
THEOREM SharingConvergesOnce == DedupeSpec => []SharingConverges
<1> DEFINE Planning == Planned(observed, prints)
           Shares == \E p \in Planning : p.pairing = "share"
           Equal == \A p \in Planning : prints[p.kept.place] = prints[p.other.place]
           Inv == Equal /\ IF ran THEN ~Shares ELSE Observed(observed)
<1>1. DedupeInit => Inv
  BY DedupeAssumption, Converged DEF DedupeInit
<1>2. Inv /\ [Run]_dedupe => Inv'
  <2>1. ASSUME Inv, Run PROVE Inv'
    <3>1. CASE ~ran
      BY <2>1, <3>1, Converged DEF Run
    <3>2. CASE ran
      <4>1. AllShared(observed, Planning) = observed
        BY <2>1, <3>2 DEF AllShared
      <4> QED BY <2>1, <3>2, <4>1 DEF Run
    <3> QED BY <3>1, <3>2
  <2>2. ASSUME Inv, UNCHANGED dedupe PROVE Inv'
    BY <2>2 DEF dedupe
  <2> QED BY <2>1, <2>2
<1>3. Inv => SharingConverges
  BY DEF SharingConverges
<1> QED BY <1>1, <1>2, <1>3, PTL DEF DedupeSpec
===============================================================================
