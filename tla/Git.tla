-------------------------------- MODULE Git --------------------------------
(***************************************************************************)
(* go/git: processes that rewrite, merge and check out branches of one     *)
(* repository, each in a worktree of its own, while others commit to it.   *)
(* Every git command is one step; every one of them may fail.              *)
(***************************************************************************)
EXTENDS GitObjects

CONSTANTS
  Procs,          \* callers of the package
  Dir,            \* Dir[p]: the worktree that p's Repo is rooted at
  Branches, NoBranch,
  Paths,          \* where worktrees may be
  Starts,         \* the initial values of the branches, one choice per behaviour
  Workloads,      \* the calls each process may make, one choice per behaviour
  Changes,        \* what a commit by others may change
  MaxCalls,       \* bound: calls
  MaxForeign      \* bound: commits by others

ASSUME GitAssumption ==
  /\ Dir \in [Procs -> Paths]
  /\ \A p, q \in Procs : p # q => Dir[p] # Dir[q]
  /\ NoBranch \notin Branches
  /\ {MaxCalls, MaxForeign} \subseteq Nat

\* What a caller may ask for; nobody removes the worktree a caller works in.
IsCall(c) ==
  CASE c.op = "MoveRef" ->
         c \in [op : {"MoveRef"}, ref : Branches, old : {c.old}, new : {c.new}, dry : BOOLEAN]
    [] c.op = "DeleteBranch" -> c \in [op : {"DeleteBranch"}, ref : Branches, old : {c.old}, dry : BOOLEAN]
    [] c.op = "Resign" ->
         c \in [op : {"Resign"}, ref : Branches, base : Branches, sign : BOOLEAN, dry : BOOLEAN]
    [] c.op = "Rebase" -> c \in [op : {"Rebase"}, upstream : Branches, dry : BOOLEAN]
    [] c.op = "Merge" ->
         c \in [op : {"Merge"}, heads : Seq(Branches), ff : {"allow", "never", "only"}, dry : BOOLEAN, sign : BOOLEAN]
    [] c.op = "CreateBranch" ->
         c \in [op : {"CreateBranch"}, ref : Branches, start : Branches, force : BOOLEAN, dry : BOOLEAN]
    [] c.op = "WorktreeAdd" ->
         c \in [op : {"WorktreeAdd"}, path : Paths, ref : Branches, branch : Branches \cup {NoBranch},
                force : BOOLEAN, dry : BOOLEAN]
    [] c.op = "WorktreeRemove" ->
         c \in [op : {"WorktreeRemove"}, path : Paths \ {Dir[p] : p \in Procs}, dry : BOOLEAN]
    [] OTHER -> FALSE
ASSUME CallsAssumption ==
  /\ \A heads \in Starts : DOMAIN heads = Branches
  /\ \A asks \in Workloads : \A p \in Procs : \A c \in asks[p] : IsCall(c)
ASSUME HistoriesAssumption ==
  /\ \A heads \in Starts : \A b \in Branches : IsHistory(heads[b])
  /\ \A asks \in Workloads : \A p \in Procs : \A c \in asks[p] : c.op = "MoveRef" => IsHistory(c.new)

VARIABLES
  refs,     \* refs[b]: the head of branch b, or Absent
  backups,  \* the backup refs: <<branch, head>>
  wts,      \* wts[w]: the registered worktree at path w
  job,      \* job[p]: p's call
  last,     \* last[p]: p's last call, its outcome and whether the abort it owed ran
  calls, foreign, makes

repo == <<refs, backups, wts>>
vars == <<repo, job, last, calls, foreign, makes>>

\* A worktree is on a branch; stopped in a rebase, on none.
On(b) == [branch |-> b, merging |-> FALSE, rebasing |-> NoBranch]
Idle == [pc |-> "idle"]
NoCall == [op |-> "none", result |-> [kind |-> "none"]]

Init ==
  /\ refs \in Starts
  /\ backups = {}
  /\ \E f \in [Procs -> {b \in Branches : refs[b] # Absent}] :
       /\ \A p, q \in Procs : p # q => f[p] # f[q]
       /\ wts = [w \in {Dir[p] : p \in Procs} |-> On(f[CHOOSE p \in Procs : Dir[p] = w])]
  /\ job = [p \in Procs |-> Idle] /\ last = [p \in Procs |-> NoCall]
  /\ calls = 0 /\ foreign = 0
  /\ makes \in Workloads

Wt(p) == wts[Dir[p]]
HeadOf(w) == refs[wts[w].branch]
CheckedOut(b) == \E w \in DOMAIN wts : b \in {wts[w].branch, wts[w].rebasing}

At(p, pc) == job[p].pc = pc
Go(p, j) == job' = [job EXCEPT ![p] = j] /\ UNCHANGED last
\* aborted is history: FALSE of a call whose abort did not run.
End(p, result, aborted) ==
  /\ job' = [job EXCEPT ![p] = Idle]
  /\ last' = [last EXCEPT ![p] = [op |-> job[p].op, call |-> job[p].call, result |-> result, aborted |-> aborted]]
Done(p, result) == End(p, result, TRUE)
Error(kind) == [kind |-> kind]
Outcome(j, new) == [kind |-> "ok", ref |-> j.ref, old |-> j.old, new |-> new]

\* Where a call starts.
First(op) ==
  CASE op \in {"MoveRef", "DeleteBranch"} -> "resolve" [] op = "Resign" -> "old"
    [] op = "Rebase" -> "current" [] op = "Merge" -> "merge" [] op = "CreateBranch" -> "start"
    [] op = "WorktreeAdd" -> "add" [] op = "WorktreeRemove" -> "remove"
Call(p) ==
  /\ At(p, "idle")
  /\ calls < MaxCalls /\ calls' = calls + 1
  /\ \E c \in makes[p] :
       Go(p, [pc |-> First(c.op), op |-> c.op, call |-> c, wt |-> Wt(p),
              ref |-> IF "ref" \in DOMAIN c THEN c.ref ELSE NoBranch,
              old |-> IF "old" \in DOMAIN c THEN c.old ELSE Absent,
              new |-> IF "new" \in DOMAIN c THEN c.new ELSE Absent])
  /\ UNCHANGED <<repo, foreign, makes>>

\* A git command that fails where the failure is returned at once.
GitFails(p) ==
  /\ job[p].pc \notin {"idle", "merge", "rebase", "abort", "undo", "undoFailed"}
  /\ Done(p, Error("error"))
  /\ UNCHANGED <<repo, calls, foreign, makes>>
Die(p) ==
  /\ ~At(p, "idle")
  /\ job' = [job EXCEPT ![p] = Idle] /\ last' = [last EXCEPT ![p] = NoCall]
  /\ UNCHANGED <<repo, calls, foreign, makes>>

(***************************************************************************)
(* MoveRef and DeleteBranch: read, back up, compare and swap.              *)
(***************************************************************************)
resolveRef(p) ==
  /\ At(p, "resolve")
  /\ LET j == job[p] IN
       IF refs[j.ref] = Absent THEN Done(p, Error("error"))
       ELSE IF refs[j.ref] # j.old THEN Done(p, Error("stale"))
       ELSE IF j.call.dry THEN Done(p, Outcome(j, j.new))
       ELSE Go(p, [j EXCEPT !.pc = "backup"])
  /\ UNCHANGED <<repo, calls, foreign, makes>>

\* Mutation: the new head is backed up.
backupNew(p) ==
  /\ At(p, "backup")
  /\ backups' = backups \cup {<<job[p].ref, job[p].new>>}
  /\ Go(p, [job[p] EXCEPT !.pc = IF job[p].op = "DeleteBranch" THEN "delete" ELSE "move"])
  /\ UNCHANGED <<refs, wts, calls, foreign, makes>>

backupRef(p) ==
  /\ At(p, "backup")
  /\ backups' = backups \cup {<<job[p].ref, job[p].old>>}
  /\ Go(p, [job[p] EXCEPT !.pc = CASE job[p].op = "Rebase" -> "rebase"
                                   [] job[p].op = "DeleteBranch" -> "delete" [] OTHER -> "move"])
  /\ UNCHANGED <<refs, wts, calls, foreign, makes>>

\* Mutation: update-ref without the old value.
moveAnyway(p) ==
  /\ At(p, "move")
  /\ refs' = [refs EXCEPT ![job[p].ref] = job[p].new]
  /\ Done(p, Outcome(job[p], job[p].new))
  /\ UNCHANGED <<backups, wts, calls, foreign, makes>>

casMove(p) ==
  /\ At(p, "move")
  /\ IF refs[job[p].ref] = job[p].old
     THEN refs' = [refs EXCEPT ![job[p].ref] = job[p].new] /\ Done(p, Outcome(job[p], job[p].new))
     ELSE UNCHANGED refs /\ Done(p, Error("error"))
  /\ UNCHANGED <<backups, wts, calls, foreign, makes>>

casDelete(p) ==
  /\ At(p, "delete")
  /\ IF refs[job[p].ref] = job[p].old
     THEN refs' = [refs EXCEPT ![job[p].ref] = Absent] /\ Done(p, Outcome(job[p], Absent))
     ELSE UNCHANGED refs /\ Done(p, Error("error"))
  /\ UNCHANGED <<backups, wts, calls, foreign, makes>>

\* branch -f does not move a branch that is checked out.
CreateBranch(p) ==
  /\ At(p, "start")
  /\ LET c == job[p].call
         taken == refs[c.ref] # Absent /\ (~c.force \/ CheckedOut(c.ref))
     IN  IF refs[c.start] = Absent \/ (taken /\ ~c.dry)
         THEN Done(p, Error("error")) /\ UNCHANGED refs
         ELSE /\ Done(p, [kind |-> "ok"])
              /\ refs' = IF c.dry THEN refs ELSE [refs EXCEPT ![c.ref] = refs[c.start]]
  /\ UNCHANGED <<backups, wts, calls, foreign, makes>>

(***************************************************************************)
(* Resign: the head, the range and the report are three reads.             *)
(***************************************************************************)
resignOld(p) ==
  /\ At(p, "old")
  /\ IF refs[job[p].ref] = Absent THEN Done(p, Error("error"))
     ELSE Go(p, [job[p] EXCEPT !.pc = "range", !.old = refs[job[p].ref]])
  /\ UNCHANGED <<repo, calls, foreign, makes>>

\* The list of commits as it was captured: whole, or only its beginning.
Captured(commits) == {commits} \cup {SubSeq(commits, 1, k) : k \in 1 .. Len(commits) - 1}

resignRange(p) ==
  /\ At(p, "range")
  /\ LET j == job[p]
         base == refs[j.call.base]
         head == refs[j.ref]
     IN  IF base = Absent \/ head = Absent THEN Done(p, Error("error"))
         ELSE \E commits \in Captured(commitRange(base, head)) :
           LET cut == commits # commitRange(base, head) IN
           IF commits = <<>> THEN Done(p, Error("error"))
           ELSE IF j.call.sign /\ rangeFullySigned(commits)
           THEN Go(p, [pc |-> "report", op |-> j.op, call |-> j.call, wt |-> j.wt, ref |-> j.ref, old |-> j.old,
                       new |-> j.old, head |-> head, cut |-> cut, commits |-> commits, noOp |-> TRUE,
                       target |-> [c \in ToSet(commits) |-> c]])
           ELSE \E code \in IF j.call.sign THEN {"G", "E"} ELSE {"N"} :
             LET target == remap(commits, code)
             IN  Go(p, [pc |-> "report", op |-> j.op, call |-> j.call, wt |-> j.wt, ref |-> j.ref, old |-> j.old,
                        new |-> target[Last(commits)], head |-> head, cut |-> cut, commits |-> commits, noOp |-> FALSE,
                        target |-> target])
  /\ UNCHANGED <<repo, calls, foreign, makes>>

\* Whatever the report finds, the call goes on.
resignReported(p) ==
  /\ At(p, "report")
  /\ LET j == job[p]
         post == resignReport(j.commits, j.target, refs[j.call.base], j.new)
     IN  IF refs[j.call.base] = Absent THEN Done(p, Error("error"))
         ELSE IF j.noOp \/ j.call.dry THEN Done(p, [kind |-> "ok", post |-> post])
         ELSE Go(p, [j EXCEPT !.pc = "resolve"])
  /\ UNCHANGED <<repo, calls, foreign, makes>>

(***************************************************************************)
(* Rebase, of the branch checked out in p's worktree.                      *)
(***************************************************************************)
currentBranch(p) ==
  /\ At(p, "current")
  /\ LET j == job[p]
         b == Wt(p).branch
     IN  IF b = NoBranch \/ refs[b] = Absent THEN Done(p, Error("error"))
         ELSE IF j.call.dry
         THEN IF refs[j.call.upstream] = Absent THEN Done(p, Error("error"))
              ELSE Done(p, [kind |-> "ok", commits |-> commitRange(refs[j.call.upstream], refs[b])])
         ELSE Go(p, [j EXCEPT !.pc = "backup", !.ref = b, !.old = refs[b]])
  /\ UNCHANGED <<repo, calls, foreign, makes>>

\* git rebase moves the branch itself; stopped, it leaves HEAD detached.
rebase(p) ==
  /\ At(p, "rebase")
  /\ LET j == job[p]
         upstream == refs[j.call.upstream]
         head == refs[j.ref]
         new == Rebased(head, upstream)
     IN  \/ Go(p, [j EXCEPT !.pc = "abort"]) /\ UNCHANGED <<refs, wts>>
         \/ /\ upstream # Absent /\ head # Absent /\ Wt(p).branch = j.ref /\ ~Wt(p).merging
            /\ IF Conflicting(head, upstream)
               THEN /\ wts' = [wts EXCEPT ![Dir[p]] = [On(NoBranch) EXCEPT !.rebasing = j.ref]]
                    /\ Go(p, [j EXCEPT !.pc = "abort", !.new = head]) /\ UNCHANGED refs
               ELSE /\ refs' = [refs EXCEPT ![j.ref] = new]
                    /\ Go(p, [j EXCEPT !.pc = "newHead", !.new = new]) /\ UNCHANGED wts
  /\ UNCHANGED <<backups, calls, foreign, makes>>

newHead(p) ==
  /\ At(p, "newHead")
  /\ IF job[p].op = "Merge" THEN Done(p, [kind |-> "ok", new |-> HeadOf(Dir[p])])
     ELSE IF refs[job[p].ref] = Absent THEN Done(p, Error("error"))
     ELSE Done(p, Outcome(job[p], refs[job[p].ref]))
  /\ UNCHANGED <<repo, calls, foreign, makes>>

(***************************************************************************)
(* Merge into the branch checked out in p's worktree.                      *)
(***************************************************************************)
MergeHeads(p) == [i \in DOMAIN job[p].call.heads |-> refs[job[p].call.heads[i]]]
SetHead(w, c) == refs' = [refs EXCEPT ![wts[w].branch] = c] /\ UNCHANGED wts
LeaveMerging(w) == wts' = [wts EXCEPT ![w].merging = TRUE] /\ UNCHANGED refs

merge(p) ==
  /\ At(p, "merge")
  /\ LET j == job[p]
         c == j.call
         head == HeadOf(Dir[p])
         heads == Missing(head, MergeHeads(p))
         noFF == c.dry \/ c.ff = "never"
         forward == Len(heads) = 1 /\ isAncestor(head, heads[1]) /\ ~noFF
         next == IF c.dry THEN "undo" ELSE "newHead"
         failed == IF c.dry THEN "undoFailed" ELSE "abort"
     IN  \/ Go(p, [j EXCEPT !.pc = failed]) /\ UNCHANGED <<refs, wts>>     \* refused
         \/ /\ ~Wt(p).merging /\ Wt(p).rebasing = NoBranch
            /\ Absent \notin ToSet(MergeHeads(p)) \cup {head}
            /\ CASE heads = <<>> -> Go(p, [j EXCEPT !.pc = next]) /\ UNCHANGED <<refs, wts>>
                 [] forward -> SetHead(Dir[p], heads[1]) /\ Go(p, [j EXCEPT !.pc = next])
                 [] (c.dry \/ c.ff # "only") ->
                      IF ~MergesCleanly(head, heads)
                      THEN LeaveMerging(Dir[p]) /\ Go(p, [j EXCEPT !.pc = failed])
                      ELSE IF c.dry THEN LeaveMerging(Dir[p]) /\ Go(p, [j EXCEPT !.pc = next])
                      ELSE \/ /\ SetHead(Dir[p], Merged(head, heads, IF c.sign THEN "G" ELSE "N"))
                              /\ Go(p, [j EXCEPT !.pc = next])
                           \/ LeaveMerging(Dir[p]) /\ Go(p, [j EXCEPT !.pc = failed])   \* the commit failed
                 [] OTHER -> Go(p, [j EXCEPT !.pc = failed]) /\ UNCHANGED <<refs, wts>>
  /\ UNCHANGED <<backups, calls, foreign, makes>>

\* A dry run aborts whatever merge is in progress; a merge that git did not even
\* run is an error.
undoDryRun(p) ==
  /\ job[p].pc \in {"undo", "undoFailed"}
  /\ \E ran \in BOOLEAN, result \in {[kind |-> "ok", wouldMerge |-> At(p, "undo")], Error("error")} :
       /\ At(p, "undo") => result.kind = "ok"
       /\ wts' = IF ran THEN [wts EXCEPT ![Dir[p]].merging = FALSE] ELSE wts
       /\ End(p, result, ran)
  /\ UNCHANGED <<refs, backups, calls, foreign, makes>>

\* Mutation: only a conflict is aborted.
abortConflict(p) ==
  /\ At(p, "abort")
  /\ wts' = IF job[p].op = "Merge" /\ MergesCleanly(HeadOf(Dir[p]), MergeHeads(p)) THEN wts
            ELSE [wts EXCEPT ![Dir[p]] = job[p].wt]
  /\ Done(p, Error("error"))
  /\ UNCHANGED <<refs, backups, calls, foreign, makes>>

\* merge --abort ends a merge.  rebase --abort ends a rebase, and puts the branch
\* back where the rebase began, wherever it is by now.  A failure is ignored.
abort(p) ==
  /\ At(p, "abort")
  /\ LET w == Wt(p) IN
       \/ UNCHANGED <<refs, wts>> /\ End(p, Error("error"), FALSE)
       \/ /\ End(p, Error("error"), TRUE)
          /\ IF job[p].op = "Merge" THEN wts' = [wts EXCEPT ![Dir[p]].merging = FALSE] /\ UNCHANGED refs
             ELSE IF w.rebasing = NoBranch THEN UNCHANGED <<refs, wts>>
             ELSE /\ wts' = [wts EXCEPT ![Dir[p]] = On(w.rebasing)]
                  /\ refs' = [refs EXCEPT ![w.rebasing] = job[p].new]
  /\ UNCHANGED <<backups, calls, foreign, makes>>

(***************************************************************************)
(* Worktrees.                                                              *)
(***************************************************************************)
WorktreeAdd(p) ==
  /\ At(p, "add")
  /\ LET c == job[p].call
         new == IF c.branch # NoBranch THEN c.branch ELSE c.ref
         refused == \/ refs[c.ref] = Absent \/ c.path \in DOMAIN wts
                    \/ c.branch # NoBranch /\ refs[c.branch] # Absent /\ ~(c.dry /\ c.force)
                    \/ c.branch = NoBranch /\ CheckedOut(c.ref) /\ ~c.force /\ ~c.dry
     IN  IF refused THEN Done(p, Error("error")) /\ UNCHANGED <<refs, wts>>
         ELSE IF c.dry THEN Done(p, [kind |-> "ok"]) /\ UNCHANGED <<refs, wts>>
         ELSE /\ Done(p, [kind |-> "ok"])
              /\ refs' = [refs EXCEPT ![new] = refs[c.ref]]
              /\ wts' = [w \in DOMAIN wts \cup {c.path} |-> IF w = c.path THEN On(new) ELSE wts[w]]
  /\ UNCHANGED <<backups, calls, foreign, makes>>

\* The callers' own worktrees stay.
WorktreeRemove(p) ==
  /\ At(p, "remove")
  /\ LET c == job[p].call IN
       IF c.path \notin DOMAIN wts THEN Done(p, Error("error")) /\ UNCHANGED wts
       ELSE /\ Done(p, [kind |-> "ok"])
            /\ wts' = IF c.dry THEN wts ELSE [w \in DOMAIN wts \ {c.path} |-> wts[w]]
  /\ UNCHANGED <<refs, backups, calls, foreign, makes>>

\* Others only ever add commits.
CommitByOthers ==
  /\ foreign < MaxForeign /\ foreign' = foreign + 1
  /\ \E b \in Branches, x \in Changes :
       /\ refs[b] # Absent /\ x \notin refs[b].tree
       /\ refs' = [refs EXCEPT ![b] = Commit(@.tree \cup {x}, <<@>>, "N")]
  /\ UNCHANGED <<backups, wts, job, last, calls, makes>>
Step(p) ==
  \/ Call(p) \/ GitFails(p) \/ Die(p)
  \/ resolveRef(p) \/ backupRef(p) \/ casMove(p) \/ casDelete(p) \/ CreateBranch(p)
  \/ resignOld(p) \/ resignRange(p) \/ resignReported(p)
  \/ currentBranch(p) \/ rebase(p) \/ newHead(p)
  \/ merge(p) \/ undoDryRun(p) \/ abort(p)
  \/ WorktreeAdd(p) \/ WorktreeRemove(p)
Next == (\E p \in Procs : Step(p)) \/ CommitByOthers
Spec == Init /\ [][Next]_vars

(***************************************************************************)
(* Properties.                                                             *)
(***************************************************************************)
\* Every variable has its type: a backup is of a commit, a worktree is on a branch
\* or stopped in a rebase of one.
Worktrees == [branch : Branches \cup {NoBranch}, merging : BOOLEAN, rebasing : Branches \cup {NoBranch}]
GitTypeOK ==
  /\ DOMAIN refs = Branches
  /\ \A e \in backups : e[1] \in Branches /\ e[2] # Absent
  /\ {Dir[p] : p \in Procs} \subseteq DOMAIN wts /\ DOMAIN wts \subseteq Paths
  /\ \A w \in DOMAIN wts :
       /\ wts[w] \in Worktrees
       /\ IF wts[w].rebasing = NoBranch THEN wts[w].branch # NoBranch
          ELSE wts[w].branch = NoBranch /\ ~wts[w].merging
  /\ DOMAIN job = Procs /\ DOMAIN last = Procs
  /\ calls \in 0 .. MaxCalls /\ foreign \in 0 .. MaxForeign
  /\ makes \in Workloads

\* MoveRef, DeleteBranch, Resign and Rebase (ref.go:101, branch.go:57,
\* rebase.go:80): whichever commits arrive while they run, a head that a branch
\* is taken off is in that branch's backup refs first.  There are two exceptions:
\* branch -f, which its caller asks for, and a rebase, or the abort of one, of a
\* branch that has moved since Rebase read it; the head it read is backed up then.
Forced(p, b) == At(p, "start") /\ job[p].call.force /\ job[p].ref = b
Overruns(p, b) ==
  /\ job[p].pc \in {"rebase", "abort"} /\ job'[p] # job[p] /\ job[p].op = "Rebase" /\ job[p].ref = b
  /\ refs[b] # job[p].old /\ <<b, job[p].old>> \in backups
RewritesAreBackedUp ==
  [][\A b \in Branches :
       (refs[b] # refs'[b] /\ refs[b] # Absent /\ ~isAncestor(refs[b], refs'[b])) =>
         <<b, refs[b]>> \in backups \/ \E p \in Procs : Forced(p, b) \/ Overruns(p, b)]_vars

\* Resign (resign.go:63): the branch gets, commit by commit, the history of the
\* last commit it listed, and no unsigned commit of the list stays in it.  That
\* commit is the head the branch is taken off, unless the list was cut short or
\* was the list of a head other than the one Resign compares.
ResignOnlySigns ==
  [][\A p \in Procs :
       (casMove(p) /\ job[p].op = "Resign" /\ refs' # refs) =>
         LET j == job[p]
             new == refs'[j.ref]
         IN  /\ SameButSigned(Last(j.commits), new)
             /\ j.call.sign => \A c \in ToSet(j.commits) \cap Ancestors(new) : c.sig # "N"
             /\ Last(j.commits) = refs[j.ref] \/ j.cut \/ j.head # j.old]_vars

\* Merge and Rebase (merge.go:107, rebase.go:97): a call that began in a worktree
\* with nothing in progress leaves it on its branch with nothing in progress,
\* whether it succeeds, fails or is a dry run.  The exception is a call whose own
\* abort did not run: only an abort's outcome is ignored.
CleanStaysClean ==
  [][\A p \in Procs :
       (~At(p, "idle") /\ job'[p].pc = "idle" /\ last'[p] # NoCall
          /\ ~job[p].wt.merging /\ job[p].wt.rebasing = NoBranch) =>
         LET w == wts'[Dir[p]]
         IN  \/ ~w.merging /\ w.rebasing = NoBranch /\ w.branch = job[p].wt.branch
             \/ ~last'[p].aborted /\ job[p].pc \in {"abort", "undo", "undoFailed"}]_vars
=============================================================================
