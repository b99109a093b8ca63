------------------------------- MODULE Worktrees -------------------------------
(***************************************************************************)
(* Whether the work of a linked worktree has landed (cli/observe/git.rs):   *)
(* git is asked one question after another, of refs and a HEAD that people  *)
(* move meanwhile, and the answer is kept (cli/owners.rs) until a hook      *)
(* hears of a change that may make it another (core/event.rs, cli/hook.rs). *)
(* A commit is the values of its paths; the remote has one default branch,  *)
(* main, and perhaps the branch that is the worktree's upstream.            *)
(***************************************************************************)
EXTENDS Ownership, FiniteSets, Sequences

LOCAL PathSets == INSTANCE FiniteSetsExt

CONSTANTS Trees, MaxCommits, MaxMoves

(* One of the trees is what the first commit holds.                          *)
ASSUME WorktreesAssumption == \E t \in Trees : \A p \in DOMAIN t : t[p] = 0

VARIABLES
    commits,                          \* what was committed, the oldest first
    head, detached, upstream, edited,  \* the worktree
    link,                             \* the git directory its .git file names
    main, branch,                      \* the remote's branches as last fetched, 0 when gone
    asking, status, base, differing, candidates,  \* the questions and their answers
    cached, woken,                    \* the answer that is kept, and whether a hook was heard
    tips, unheard, moves              \* history

worktree == <<head, detached, upstream, edited, link>>
learnt == <<status, base, differing, candidates>>
history == <<tips, unheard, moves>>
landing == <<commits, worktree, main, branch, asking, learnt, cached, woken, history>>

-------------------------------------------------------------------------------
(* What git answers of commits (external).                                  *)
Tree(c) == commits[c].tree
Paths == DOMAIN Tree(1)
IsAncestor(c, of) == c \in commits[of].all
MergeBases(c, with) ==
    LET common == commits[c].all \cap commits[with].all
    IN {b \in common : \A d \in common \ {b} : ~IsAncestor(b, d)}
ChangedSince(b, c) == {p \in Paths : Tree(b)[p] # Tree(c)[p]}
(* Along the first parents, those that made the path another.                *)
Touching(b, tip, path) ==
    {c \in commits[tip].line \ commits[b].all :
        Tree(c)[path] # Tree(commits[c].parents[1])[path]}

Committed(parents, tree) ==
    LET n == Len(commits) + 1
    IN Append(commits, [parents |-> parents, tree |-> tree,
                        all |-> {n} \cup UNION {commits[parents[i]].all : i \in DOMAIN parents},
                        line |-> {n} \cup commits[parents[1]].line])

HeadOf(isDetached, hasUpstream, tip) ==
    IF isDetached THEN "detached"
    ELSE IF ~hasUpstream THEN "no-upstream"
    ELSE IF tip = 0 THEN "upstream-gone" ELSE "tracking"

Linked(hasChanges, atHead, landed) ==
    WorktreeSettlement([kind |-> "linked", changes |-> IF hasChanges THEN "dirty" ELSE "clean",
                        head |-> atHead, landing |-> landed])

(* The path that git names first.                                           *)
FirstOf(paths) == PathSets!Min(paths)

(* Mutant: the first of the paths stands for all.                            *)
ContainedFirst(at, paths) == FirstOf(paths) \notin ChangedSince(at, head)

(* None of the paths that changed differs from what is there.                *)
Contained(at, paths) == paths \cap ChangedSince(at, head) = {}

-------------------------------------------------------------------------------
(* Hooks.  An update names a reference, and nothing when it deletes it.      *)
RemoteMain == "refs/remotes/origin/main"
RemoteTopic == "refs/remotes/origin/branch"
Remote(updates) == {u \in updates : u.reference \in {RemoteMain, RemoteTopic}}
Deletes(u) == u.new = 0

(* Mutant: only what moves the default branch matters.                       *)
RelevanceOfDefaults(event, argument, updates, defaults) ==
    IF event # "reference-transaction" THEN "relevant"
    ELSE IF argument = "committed" /\ \E u \in updates : ~Deletes(u) /\ u.reference = RemoteMain
         THEN "relevant" ELSE "irrelevant"
Relevance(event, argument, updates, defaults) ==
    CASE event = "post-merge" -> "relevant"
      [] event = "post-checkout" -> IF argument = "branch" THEN "relevant" ELSE "irrelevant"
      [] event = "reference-transaction" ->
           IF argument # "committed" \/ Remote(updates) = {} THEN "irrelevant"
           ELSE IF \E u \in Remote(updates) : Deletes(u) THEN "relevant"
           ELSE IF defaults = {} THEN "needs-defaults"
           ELSE IF \E u \in Remote(updates) : {u.reference} \in defaults
                THEN "relevant" ELSE "irrelevant"

(* The default branches are asked for only when they matter; when git does   *)
(* not say, anything may have landed.                                       *)
Relevant(event, argument, updates, readable) ==
    LET first == Relevance(event, argument, updates, {})
    IN \/ first = "relevant"
       \/ first = "needs-defaults"
            /\ (readable => Relevance(event, argument, updates, {{RemoteMain}}) = "relevant")

Hook(event, argument, updates) ==
    \E readable \in BOOLEAN : woken' = (woken \/ Relevant(event, argument, updates, readable))

-------------------------------------------------------------------------------
WorktreesInit ==
    /\ commits = <<[parents |-> <<>>, tree |-> CHOOSE t \in Trees : \A p \in DOMAIN t : t[p] = 0,
                    all |-> {1}, line |-> {1}]>>
    /\ head = 1 /\ detached \in BOOLEAN /\ upstream \in BOOLEAN /\ edited = FALSE
    /\ detached => ~upstream
    /\ link \in {"there", "unreadable"} /\ main \in {0, 1} /\ branch = IF upstream THEN 1 ELSE 0
    /\ asking = "idle" /\ status = "none" /\ base = 0 /\ differing = {} /\ candidates = {}
    /\ cached = "none" /\ woken = FALSE
    /\ tips = {main} \ {0} /\ unheard = FALSE /\ moves = 0

(* The answer is kept, also that there is none.                              *)
Answered(answer) == asking' = "idle" /\ cached' = answer

(* A worktree whose git directory is gone was forgotten; one whose .git      *)
(* cannot be read is protected.                                             *)
Begin ==
    /\ asking = "idle" /\ cached = "none" /\ ~woken
    /\ tips' = {main} \ {0} /\ unheard' = FALSE
    /\ CASE link = "there" -> asking' = "status" /\ UNCHANGED cached
         [] link = "gone" -> Answered(WorktreeSettlement([kind |-> "orphaned"]))
         [] link = "unreadable" -> Answered("unreadable")
    /\ UNCHANGED <<commits, worktree, main, branch, learnt, woken, moves>>

AsksNext(next) ==
    /\ asking' = next
    /\ UNCHANGED <<commits, worktree, main, branch, cached, woken, history>>

Status ==
    /\ asking = "status"
    /\ status' = [dirty |-> edited, head |-> HeadOf(detached, upstream, branch)]
    /\ base' = 0 /\ differing' = {} /\ candidates' = {}
    /\ AsksNext("ancestor")

(* Whatever git answers last decides.                                       *)
Landing(landed) ==
    /\ Answered(Linked(status.dirty, status.head, landed))
    /\ status' = "none" /\ base' = 0 /\ differing' = {} /\ candidates' = {}
    /\ UNCHANGED <<commits, worktree, main, branch, woken, history>>

AskAncestor ==
    /\ asking = "ancestor"
    /\ IF main = 0 THEN Landing("no-default-branch")
       ELSE IF IsAncestor(head, main) THEN Landing("no-own-work")
       ELSE UNCHANGED learnt /\ AsksNext("base")

AskBase ==
    /\ asking = "base"
    /\ base' \in MergeBases(head, main)
    /\ UNCHANGED <<status, differing, candidates>> /\ AsksNext("changed")

AskChanged ==
    /\ asking = "changed"
    /\ differing' = ChangedSince(base, head)
    /\ IF differing' = {} THEN Landing("no-own-work")
       ELSE /\ UNCHANGED <<status, base, candidates>>
            /\ AsksNext("default")

(* The default branch itself, and then each that touched the first path.     *)
AskDefault ==
    /\ asking = "default"
    /\ IF Contained(main, differing) THEN Landing("contained")
       ELSE UNCHANGED learnt /\ AsksNext("touching")
AskTouching ==
    /\ asking = "touching"
    /\ candidates' = Touching(base, main, FirstOf(differing))
    /\ UNCHANGED <<status, base, differing>> /\ AsksNext("contained")
AskContained ==
    /\ asking = "contained"
    /\ \/ candidates = {} /\ Landing("not-contained")
       \/ \E newest \in candidates :
            /\ \A c \in candidates : c <= newest
            /\ IF Contained(newest, differing) THEN Landing("contained")
               ELSE /\ candidates' = candidates \ {newest}
                    /\ UNCHANGED <<status, base, differing>>
                    /\ AsksNext("contained")

(* Git fails, or prints what is not understood: nothing is known.            *)
GitFails ==
    /\ asking # "idle" /\ Answered("unreadable")
    /\ status' = "none" /\ base' = 0 /\ differing' = {} /\ candidates' = {}
    /\ UNCHANGED <<commits, worktree, main, branch, woken, history>>

(* A hook was heard: the answers of its repository are forgotten.            *)
ForgetAnswers ==
    /\ asking = "idle" /\ woken
    /\ woken' = FALSE /\ cached' = "none"
    /\ UNCHANGED <<commits, worktree, main, branch, asking, learnt, history>>

-------------------------------------------------------------------------------
(* What people do, and the hooks git runs for it.                            *)
Move ==
    /\ moves < MaxMoves /\ link = "there"
    /\ moves' = moves + 1
    /\ UNCHANGED <<asking, learnt, cached>>

(* A commit of other contents, which no hook that is heard announces.        *)
Work ==
    /\ Move /\ Len(commits) < MaxCommits
    /\ \E tree \in Trees \ {Tree(head)} : commits' = Committed(<<head>>, tree)
    /\ head' = Len(commits') /\ edited' = FALSE /\ unheard' = TRUE
    /\ UNCHANGED <<detached, upstream, link, main, branch, woken, tips>>

(* The worktree is edited, or the edits are taken back file by file.         *)
EditTree ==
    /\ Move /\ edited' = ~edited
    /\ IF edited THEN Hook("post-checkout", "file", {}) ELSE UNCHANGED woken
    /\ unheard' = TRUE
    /\ UNCHANGED <<commits, head, detached, upstream, link, main, branch, tips>>

(* Another commit is checked out, on a branch or none.                       *)
Checkout ==
    /\ Move /\ ~edited
    /\ head' \in DOMAIN commits /\ detached' \in BOOLEAN
    /\ upstream' = IF detached' THEN FALSE ELSE upstream
    /\ Hook("post-checkout", "branch", {})
    /\ UNCHANGED <<commits, edited, link, main, branch, tips, unheard>>

(* The default branch is merged into HEAD.                                   *)
Merge ==
    /\ Move /\ ~edited /\ main # 0 /\ ~IsAncestor(main, head)
    /\ IF IsAncestor(head, main) THEN head' = main /\ UNCHANGED commits
       ELSE /\ Len(commits) < MaxCommits
            /\ \E tree \in Trees :
                 /\ \A p \in Paths : tree[p] \in {Tree(head)[p], Tree(main)[p]}
                 /\ commits' = Committed(<<head, main>>, tree)
            /\ head' = Len(commits')
    /\ Hook("post-merge", "0", {})
    /\ UNCHANGED <<detached, upstream, edited, link, main, branch, tips, unheard>>

(* A fetch in one transaction: the default branch goes on, with HEAD merged  *)
(* into it, with its changes in one commit, or with others' work; the other  *)
(* branch follows HEAD or is gone.  A transaction may be called off.         *)
Fetch ==
    /\ Move /\ main # 0
    /\ \/ UNCHANGED <<commits, main>>
       \/ /\ Len(commits) < MaxCommits
          /\ \E tree \in Trees, parents \in {<<main>>, <<main, head>>} :
               commits' = Committed(parents, tree)
          /\ main' = Len(commits')
    /\ branch' \in IF branch = 0 THEN {0} ELSE {branch, head, 0}
    /\ LET updates == (IF main' # main THEN {[reference |-> RemoteMain, new |-> main']} ELSE {})
                        \cup (IF branch' # branch THEN {[reference |-> RemoteTopic, new |-> branch']}
                              ELSE {})
       IN updates # {} /\ Hook("reference-transaction", "committed", updates)
    /\ tips' = tips \cup {main'}
    /\ UNCHANGED <<worktree, unheard>>
CalledOff ==
    /\ Move /\ Hook("reference-transaction", "aborted", {[reference |-> RemoteMain, new |-> main]})
    /\ UNCHANGED <<commits, worktree, main, branch, tips, unheard>>

(* The worktree is removed from the repository.                              *)
Removed ==
    /\ Move /\ link' = "gone" /\ unheard' = TRUE
    /\ UNCHANGED <<commits, head, detached, upstream, edited, main, branch, woken, tips>>

WorktreesNext ==
    \/ Begin \/ Status \/ AskAncestor \/ AskBase \/ AskChanged \/ AskDefault \/ AskTouching
    \/ AskContained \/ GitFails \/ ForgetAnswers
    \/ Work \/ EditTree \/ Checkout \/ Merge \/ Fetch \/ CalledOff \/ Removed

WorktreesSpec == WorktreesInit /\ [][WorktreesNext]_landing

-------------------------------------------------------------------------------
(* What HEAD holds that its own commits put there, and whether the default   *)
(* branch has held it since the questions began.                            *)
OwnWork ==
    {p \in Paths : \E c \in commits[head].all \ UNION {commits[t].all : t \in tips} :
                     /\ Tree(c)[p] = Tree(head)[p]
                     /\ Tree(commits[c].parents[1])[p] # Tree(c)[p]}
IsThere(p) == \E t \in tips : \E c \in commits[t].all : Tree(c)[p] = Tree(head)[p]

(* "A clean git worktree whose work is already in the remote's default       *)
(* branch" (docs/usage.md), by merge, by squash or by the same change made    *)
(* again, whoever fetches between two questions: unless the worktree was     *)
(* committed to or edited since they began, which no hook tells.             *)
LandedIsThere ==
    (cached = "landed" /\ ~woken /\ ~unheard /\ HeadOf(detached, upstream, branch) # "upstream-gone")
       => ~edited /\ \A p \in OwnWork : IsThere(p)

(* What git would answer now, were nothing moving.                           *)
LandedNow ==
    /\ link = "there" /\ ~edited
    /\ \/ HeadOf(detached, upstream, branch) = "upstream-gone"
       \/ main # 0 /\ detached /\ IsAncestor(head, main)
       \/ /\ main # 0 /\ ~IsAncestor(head, main)
          /\ \A b \in MergeBases(head, main) :
               LET own == ChangedSince(b, head)
                   all == {main} \cup Touching(b, main, FirstOf(own))
               IN own # {} /\ \E c \in all : Contained(c, own)

(* Work that lands is heard of: no answer that it has not is kept when a      *)
(* fetch, a merge or a checkout, of all that moved since, has made it land   *)
(* (event.rs: relevance; owners.rs: forget).                                *)
LandingIsHeard ==
    (cached = "active" /\ asking = "idle" /\ ~woken /\ ~unheard) => ~LandedNow
===============================================================================
