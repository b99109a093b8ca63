-------------------------------- MODULE Commands --------------------------------
(***************************************************************************)
(* The two commands that delete (cli/main.rs: clean; cli/auto.rs: run),     *)
(* from what they show to the code they exit with: a person chooses, sees   *)
(* a preview and confirms, or a policy selects; a plan is made, and each of  *)
(* its candidates is checked once more before it is removed.  Builds,        *)
(* owners and other cleaners go on meanwhile.  One check, one removal, and   *)
(* the pruning and the sharing of the rest are one step each here.          *)
(***************************************************************************)
EXTENDS Ownership, Naturals, FiniteSets, Sequences

Seqs == INSTANCE SequencesExt

CONSTANTS
    Directories,   \* recognized artifacts below the roots, numbers in the order a scan lists them
    TierAt,        \* [directory -> its tier]
    Invocations,   \* the commands that are given
    MaxChanges

ASSUME CommandsAssumption ==
    /\ Directories \subseteq Nat /\ IsFiniteSet(Directories)
    /\ \A i \in Invocations :
         i.wanted \subseteq Directories /\ i.given \in Seq({i.given[k] : k \in DOMAIN i.given})

VARIABLES
    command,
    there, standing, busy,                          \* the world
    step, candidates, chosen, position, plan, preview, outcomes, remaining, exit,
    deleted, halved, changes                        \* history

world == <<there, standing, busy>>
commands == <<command, world, step, candidates, chosen, position, plan, preview, outcomes,
              remaining, exit, deleted, halved, changes>>

Executes == command.mode = "execute"
Lets(settlement) == AdmitsSettlement("settled", settlement)

(* An id is derived from where a candidate is, which directory it is, and    *)
(* what was measured in it.                                                 *)
Id(candidate) == [place |-> candidate.place, identity |-> candidate.identity,
                  contents |-> candidate.contents]
Seen(d, contents) ==
    [place |-> d, identity |-> there[d].identity, contents |-> contents, standing |-> standing[d]]
InOrder(found) ==
    CHOOSE s \in Seqs!SetToSeqs(found) : \A i, j \in DOMAIN s : i < j => s[i].place < s[j].place
Listed(places, contents) ==
    InOrder({Seen(d, contents[d]) : d \in {e \in places : there[e].identity # 0}})

(* What an automatic run calls a failure.                                    *)
FailedToDelete(all) == "failed" \in Seqs!ToSet(all)

(* What a person asked for and did not get is a failure.                     *)
Failed(all) == {"rejected", "failed"} \cap Seqs!ToSet(all) # {}

-------------------------------------------------------------------------------
CommandInit ==
    /\ command \in Invocations
    /\ there \in [Directories -> [identity : {1}, contents : {"old", "unreadable"}]]
    /\ standing \in [Directories -> {"released", "active"}]
    /\ busy = {}
    /\ step = "begin" /\ candidates = <<>> /\ chosen = <<>> /\ position = 1 /\ plan = <<>>
    /\ preview = <<>> /\ outcomes = <<>> /\ remaining = {} /\ exit = 0
    /\ deleted = {} /\ halved = {} /\ changes = 0

Rest(rest) == UNCHANGED <<command, world, deleted, halved, changes, rest>>
Goes(to) == step' = to /\ UNCHANGED exit
Exit(code) == step' = "done" /\ exit' = code

(* Roots that are rejected, or a policy that cannot be read or understood.   *)
RefuseCommand ==
    /\ step = "begin" /\ Exit(1)
    /\ Rest(<<candidates, chosen, position, plan, preview, outcomes, remaining>>)

(* A cleaning shows what it measured; without ids, a document is all of it.  *)
Discover ==
    /\ step = "begin" /\ command.name = "clean"
    /\ candidates' = Listed(command.wanted, [d \in Directories |-> there[d].contents])
    /\ IF command.given = <<>> /\ command.json THEN Exit(0) ELSE Goes("choose")
    /\ Rest(<<chosen, position, plan, preview, outcomes, remaining>>)

(* Ids are given, or picked at a terminal of what may be deleted.            *)
Choose ==
    /\ step = "choose"
    /\ \/ /\ command.given # <<>> /\ chosen' = command.given /\ Goes("plan")
       \/ /\ command.given = <<>> /\ ~command.terminal
          /\ Exit(IF Executes THEN 1 ELSE 0) /\ UNCHANGED chosen
       \/ /\ command.given = <<>> /\ command.terminal
          /\ \E picked \in SUBSET {c \in Seqs!ToSet(candidates) :
                 TierAt[c.place] \in command.tiers /\ Lets(c.standing)} :
               /\ chosen' = [i \in 1..Cardinality(picked) |-> Id(InOrder(picked)[i])]
               /\ IF picked = {} THEN Exit(0) ELSE Goes("plan")
    /\ Rest(<<candidates, position, plan, preview, outcomes, remaining>>)

(* Every id once, of a candidate that was found and measured.                *)
Plannable(found, ids) ==
    /\ Seqs!IsInjective(ids)
    /\ \A i \in DOMAIN ids : \E k \in DOMAIN found :
         Id(found[k]) = ids[i] /\ found[k].contents # "unreadable"
Planned(found, ids) ==
    [i \in DOMAIN ids |-> found[CHOOSE k \in DOMAIN found : Id(found[k]) = ids[i]]]

Plan ==
    /\ step = "plan"
    /\ IF ~Plannable(candidates, chosen) THEN Exit(1) /\ UNCHANGED plan
       ELSE /\ plan' = Planned(candidates, chosen)
            /\ IF ~Executes \/ command.yes THEN Goes("apply")
               ELSE IF command.terminal THEN Goes("preview") ELSE Exit(1)
    /\ Rest(<<candidates, chosen, position, preview, outcomes, remaining>>)

-------------------------------------------------------------------------------
(* Mutant: what is there now is not measured again.                         *)
PassesUnmeasured(c) ==
    /\ there[c.place].identity = c.identity
    /\ TierAt[c.place] \in command.tiers /\ Lets(standing[c.place])
    /\ c.place \notin busy

(* The gates of a deletion, of what is there now and was recorded.           *)
Passes(c) ==
    /\ there[c.place].identity = c.identity
    /\ TierAt[c.place] \in command.tiers /\ Lets(standing[c.place])
    /\ c.place \notin busy
    /\ there[c.place].contents = c.contents

(* One candidate of the plan; a removal may fail when half is gone.          *)
Settle(c, mode, results) ==
    \/ /\ ~Passes(c)
       /\ results' = Append(results, "rejected") /\ UNCHANGED <<there, deleted, halved>>
    \/ /\ Passes(c) /\ mode = "dry-run"
       /\ results' = Append(results, "would-delete") /\ UNCHANGED <<there, deleted, halved>>
    \/ /\ Passes(c) /\ mode = "execute"
       /\ results' = Append(results, "deleted")
       /\ there' = [there EXCEPT ![c.place].identity = 0]
       /\ deleted' = deleted \cup {[id |-> Id(Seen(c.place, there[c.place].contents)),
                                    standing |-> standing[c.place], busy |-> c.place \in busy]}
       /\ UNCHANGED halved
    \/ /\ Passes(c) /\ mode = "execute"
       /\ results' = Append(results, "failed")
       /\ there' = [there EXCEPT ![c.place].contents = "new"]
       /\ halved' = halved \cup {c.place} /\ UNCHANGED deleted

Each(from) == step = from /\ position <= Len(plan) /\ position' = position + 1 /\ Goes(from)
Past(from) == step = from /\ position > Len(plan) /\ position' = 1

(* What would be deleted is tried before anybody is asked to confirm it.     *)
Preview ==
    /\ \/ Each("preview") /\ Settle(plan[position], "dry-run", preview)
       \/ /\ Past("preview") /\ UNCHANGED <<preview, there, deleted, halved>>
          /\ IF Failed(preview) THEN Exit(1) ELSE Goes("ask")
    /\ UNCHANGED <<command, standing, busy, candidates, chosen, plan, outcomes, remaining, changes>>

(* A phrase is typed, the right one or another.                              *)
Confirm ==
    /\ step = "ask" /\ (Goes("apply") \/ Exit(0))
    /\ Rest(<<candidates, chosen, position, plan, preview, outcomes, remaining>>)

Apply ==
    /\ \/ Each("apply") /\ Settle(plan[position], command.mode, outcomes)
       \/ /\ Past("apply") /\ UNCHANGED <<outcomes, there, deleted, halved>>
          /\ IF command.name = "auto" THEN Goes("prune")
             ELSE Exit(IF Failed(outcomes) THEN 1 ELSE 0)
    /\ UNCHANGED <<command, standing, busy, candidates, chosen, plan, preview, remaining, changes>>

-------------------------------------------------------------------------------
(* A policy selects by kind and tier, and measures nothing yet.              *)
SightAll ==
    /\ step = "begin" /\ command.name = "auto"
    /\ candidates' = Listed({d \in command.wanted : TierAt[d] \in command.tiers},
                            [d \in Directories |-> "unmeasured"])
    /\ Goes("let-go")
    /\ Rest(<<chosen, position, plan, preview, outcomes, remaining>>)

(* Each is asked about again: its locks and its owner, of whom git's answer  *)
(* is still the one of the sighting.                                        *)
LetsGo(c) ==
    /\ Lets(c.standing) /\ c.place \notin busy
    /\ Lets(IF c.place \in command.byGit THEN c.standing ELSE standing[c.place])
Partition ==
    /\ step = "let-go"
    /\ IF position > Len(candidates)
       THEN position' = 1 /\ Goes("measure") /\ UNCHANGED <<chosen, remaining>>
       ELSE LET c == candidates[position]
            IN /\ position' = position + 1 /\ Goes("let-go")
               /\ IF LetsGo(c) THEN chosen' = Append(chosen, c) /\ UNCHANGED remaining
                  ELSE remaining' = remaining \cup {c.place} /\ UNCHANGED chosen
    /\ Rest(<<candidates, plan, preview, outcomes>>)

(* What was let go is measured where it lies; what cannot be is rejected     *)
(* alone.  Whatever is planned is what was measured.                        *)
Reap ==
    /\ step = "measure"
    /\ IF position > Len(chosen)
       THEN position' = 1 /\ Goes("apply") /\ UNCHANGED <<plan, outcomes>>
       ELSE LET c == chosen[position]
                now == there[c.place]
            IN /\ position' = position + 1 /\ Goes("measure")
               /\ IF now.identity = 0 \/ now.contents = "unreadable"
                  THEN outcomes' = Append(outcomes, "rejected") /\ UNCHANGED plan
                  ELSE /\ plan' = Append(plan, [c EXCEPT !.contents = now.contents])
                       /\ UNCHANGED outcomes
    /\ Rest(<<candidates, chosen, preview, remaining>>)

(* The rest is pruned, then shared; either may fail.                         *)
Pass(from, to) ==
    /\ step = from /\ Goes(to)
    /\ \/ UNCHANGED halved
       \/ Executes /\ \E d \in remaining : halved' = halved \cup {d}
    /\ UNCHANGED <<command, world, candidates, chosen, position, plan, preview, outcomes,
                   remaining, deleted, changes>>
PruneRest == Pass("prune", "share")
ShareRest == Pass("share", "log")

(* A run that is carried out is appended to a log, which may not be possible. *)
Log ==
    /\ step = "log"
    /\ \/ Exit(IF FailedToDelete(outcomes) \/ halved \cap remaining # {} THEN 1 ELSE 0)
       \/ Executes /\ Exit(1)
    /\ Rest(<<candidates, chosen, position, plan, preview, outcomes, remaining>>)

-------------------------------------------------------------------------------
(* What others do meanwhile.                                                *)
Others ==
    /\ step # "done" /\ changes < MaxChanges /\ changes' = changes + 1
    /\ UNCHANGED <<command, step, candidates, chosen, position, plan, preview, outcomes,
                   remaining, exit, deleted, halved>>
Build(d) ==
    /\ Others /\ d \notin busy /\ there[d].identity # 0
    /\ busy' = busy \cup {d} /\ there' = [there EXCEPT ![d].contents = "new"]
    /\ UNCHANGED standing
Finish(d) ==
    /\ Others /\ d \in busy /\ busy' = busy \ {d} /\ UNCHANGED <<there, standing>>
Claim(d) ==
    /\ Others /\ \E s \in {"landed", "active", "kept"} : standing' = [standing EXCEPT ![d] = s]
    /\ UNCHANGED <<there, busy>>
Renew(d) ==
    /\ Others /\ d \notin busy
    /\ there' \in {[there EXCEPT ![d] = [identity |-> 2, contents |-> "old"]],
                   [there EXCEPT ![d].identity = 0]}
    /\ UNCHANGED <<standing, busy>>

CommandNext ==
    \/ RefuseCommand \/ Discover \/ Choose \/ Plan \/ Preview \/ Confirm \/ Apply
    \/ SightAll \/ Partition \/ Reap \/ PruneRest \/ ShareRest \/ Log
    \/ \E d \in Directories : Build(d) \/ Finish(d) \/ Claim(d) \/ Renew(d)

CommandSpec == CommandInit /\ [][CommandNext]_commands

-------------------------------------------------------------------------------
(* What is deleted is what was shown: a cleaning deletes only by an id that  *)
(* was chosen, of that very directory and contents, and unless --yes was     *)
(* said after a preview in which all of the plan passed; an automatic run    *)
(* only what it found let go, in the directory it found.  Either needs the   *)
(* owner to have let go by then, and nobody at work ("active, unclaimed, and *)
(* kept ones are never deleted", docs/usage.md).                            *)
DeletedAsShown ==
    \A r \in deleted :
       /\ Executes /\ r.id.place \in command.wanted /\ TierAt[r.id.place] \in command.tiers
       /\ Lets(r.standing) /\ ~r.busy
       /\ command.name = "clean" =>
            /\ r.id \in Seqs!ToSet(chosen)
            /\ ~command.yes => Len(preview) = Len(plan) /\ ~Failed(preview)
       /\ command.name = "auto" =>
            \E i \in DOMAIN chosen :
               /\ chosen[i].place = r.id.place /\ chosen[i].identity = r.id.identity
               /\ Lets(chosen[i].standing)

(* The code a command exits with tells what became of it: after a success a  *)
(* cleaning has deleted all that was chosen, or nothing at all, and nothing  *)
(* is left half removed; no automatic run that broke something succeeds.     *)
ExitTells ==
    (step = "done" /\ exit = 0) =>
       /\ halved = {}
       /\ command.name = "clean" /\ deleted # {} =>
            Seqs!ToSet(chosen) = {r.id : r \in deleted}
===============================================================================
