------------------------------ MODULE Git_proofs ------------------------------
(***************************************************************************)
(* Proofs about Git, for any callers, branches, worktrees, histories and   *)
(* calls: a head that a branch is taken off is backed up, a worktree with  *)
(* nothing in progress is left so, and a re-signed branch keeps its        *)
(* history.                                                                *)
(***************************************************************************)
EXTENDS Git, FiniteSetTheorems, NaturalsInduction, TLAPS

(***************************************************************************)
(* The inductive invariant.                                                *)
(***************************************************************************)
\* Where a call may stand.
Stages(op) ==
  CASE op = "MoveRef" -> {"resolve", "backup", "move"}
    [] op = "DeleteBranch" -> {"resolve", "backup", "delete"}
    [] op = "Resign" -> {"old", "range", "report", "resolve", "backup", "move"}
    [] op = "Rebase" -> {"current", "backup", "rebase", "newHead", "abort"}
    [] op = "Merge" -> {"merge", "newHead", "abort", "undo", "undoFailed"}
    [] op = "CreateBranch" -> {"start"}
    [] op = "WorktreeAdd" -> {"add"}
    [] op = "WorktreeRemove" -> {"remove"}
Calling(j) ==
  /\ {"pc", "op", "call", "wt", "ref", "old", "new"} \subseteq DOMAIN j
  /\ IsCall(j.call) /\ j.op = j.call.op /\ j.pc \in Stages(j.op)
  /\ j.wt \in Worktrees
  /\ j.ref \in Branches \/ j.pc = "current" \/ j.op \in {"Merge", "WorktreeRemove"}
  /\ j.op \in {"CreateBranch", "WorktreeAdd"} => j.ref = j.call.ref
CallOK(p) == job[p] = Idle \/ Calling(job[p])

\* What a call takes a branch off is in its backup refs.
Holding(j) == j.pc \in {"move", "delete", "rebase"} \/ (j.pc = "abort" /\ j.op = "Rebase")
Saved(p) ==
  /\ job[p].pc \in {"backup", "move", "delete", "rebase"} => job[p].old # Absent
  /\ Holding(job[p]) => <<job[p].ref, job[p].old>> \in backups

\* A branch about to be rebased is checked out in its caller's worktree, and one
\* whose rebase has stopped is the branch that the worktree was on.
Replaying(j) == j.pc \in {"backup", "rebase"} /\ j.op = "Rebase"
Replays(p) ==
  /\ Replaying(job[p]) => Wt(p).branch = job[p].ref
  /\ job[p].pc = "abort" /\ job[p].op = "Rebase" => Wt(p).rebasing \in {NoBranch, job[p].ref}

\* Each caller's worktree is on a branch of its own, or stopped in its rebase.
Home(w) == IF w.rebasing # NoBranch THEN w.rebasing ELSE w.branch
Apart == \A p, q \in Procs : p # q => Home(Wt(p)) # Home(Wt(q))

\* A call that found its worktree clean leaves it alone, but for a merge or a
\* rebase that stopped and is about to be aborted.
Clean(wt) == ~wt.merging /\ wt.rebasing = NoBranch
Stopped(j) ==
  IF j.op = "Merge" THEN [j.wt EXCEPT !.merging = TRUE]
  ELSE [On(NoBranch) EXCEPT !.rebasing = j.wt.branch]
Tidy(p) ==
  job[p].pc # "idle" /\ Clean(job[p].wt) =>
    Wt(p) = job[p].wt \/ (job[p].pc \in {"abort", "undo", "undoFailed"} /\ Wt(p) = Stopped(job[p]))

CallInv(p) == CallOK(p) /\ Saved(p) /\ Replays(p) /\ Tidy(p)
IInv == GitTypeOK /\ Apart /\ \A p \in Procs : CallInv(p)

(***************************************************************************)
(* Calls.                                                                  *)
(***************************************************************************)
LEMMA CallFacts ==
  ASSUME NEW c, IsCall(c)
  PROVE  /\ c.op \in {"MoveRef", "DeleteBranch", "Resign", "Rebase", "Merge", "CreateBranch",
                      "WorktreeAdd", "WorktreeRemove"}
         /\ c.op \in {"MoveRef", "DeleteBranch", "Resign", "CreateBranch", "WorktreeAdd"} =>
              "ref" \in DOMAIN c /\ c.ref \in Branches
         /\ c.op = "WorktreeAdd" => c.path \in Paths /\ c.branch \in Branches \cup {NoBranch}
         /\ c.op = "WorktreeRemove" => \A p \in Procs : c.path # Dir[p]
PROOF
BY DEF IsCall

\* A call under way goes on with one that its step makes, or ends.
Turns(p, j, l) == job' = [job EXCEPT ![p] = j] /\ last' \in {last, [last EXCEPT ![p] = l]}

LEMMA GoTurns == ASSUME NEW p, NEW j, Go(p, j) PROVE \E k, l : Turns(p, k, l)
PROOF
BY DEF Go, Turns
LEMMA EndTurns == ASSUME NEW p, NEW r, NEW a, End(p, r, a) PROVE \E k, l : Turns(p, k, l)
PROOF
BY DEF End, Turns
LEMMA DoneTurns == ASSUME NEW p, NEW r, Done(p, r) PROVE \E k, l : Turns(p, k, l)
PROOF
BY EndTurns DEF Done

\* A step of p is a step of p's call alone.
LEMMA StepTurns == ASSUME NEW p \in Procs, Step(p) PROVE \E k, l : Turns(p, k, l)
PROOF
<1>1. ASSUME NEW j, Go(p, j) PROVE \E k, l : Turns(p, k, l)
  BY <1>1, GoTurns
<1>2. ASSUME NEW r, Done(p, r) PROVE \E k, l : Turns(p, k, l)
  BY <1>2, DoneTurns
<1> HIDE DEF Turns
<1>3. CASE Call(p)
  BY <1>1, <1>3 DEF Call
<1>4. CASE GitFails(p) \/ newHead(p)
  BY <1>2, <1>4 DEF GitFails, newHead
<1>17. CASE undoDryRun(p) \/ abort(p)
  <2>1. PICK r, a : End(p, r, a)
    BY <1>17 DEF undoDryRun, abort
  <2> QED  BY <2>1, EndTurns
<1>5. CASE Die(p)
  BY <1>5 DEF Die, Turns
<1>6. CASE resolveRef(p)
  BY <1>1, <1>2, <1>6 DEF resolveRef
<1>7. CASE backupRef(p)
  BY <1>1, <1>7 DEF backupRef
<1>8. CASE casMove(p) \/ casDelete(p)
  BY <1>2, <1>8 DEF casMove, casDelete
<1>9. CASE CreateBranch(p)
  BY <1>2, <1>9 DEF CreateBranch
<1>10. CASE resignOld(p)
  BY <1>1, <1>2, <1>10 DEF resignOld
<1>11. CASE resignRange(p)
  BY <1>1, <1>2, <1>11 DEF resignRange
<1>12. CASE resignReported(p)
  BY <1>1, <1>2, <1>12 DEF resignReported
<1>13. CASE currentBranch(p)
  BY <1>1, <1>2, <1>13 DEF currentBranch
<1>14. CASE rebase(p)
  BY <1>1, <1>14 DEF rebase
<1>15. CASE merge(p)
  BY <1>1, <1>15 DEF merge
<1>16. CASE WorktreeAdd(p) \/ WorktreeRemove(p)
  BY <1>2, <1>16 DEF WorktreeAdd, WorktreeRemove
<1> QED  BY <1>3, <1>4, <1>5, <1>6, <1>7, <1>8, <1>9, <1>10, <1>11, <1>12, <1>13, <1>14, <1>15, <1>16, <1>17 DEF Step

LEMMA Others ==
  ASSUME GitTypeOK, NEW p \in Procs, Step(p), NEW q \in Procs, q # p
  PROVE  job'[q] = job[q] /\ last'[q] = last[q]
PROOF
<1>1. PICK j, l : Turns(p, j, l)
  BY StepTurns
<1> QED  BY <1>1 DEF Turns, GitTypeOK

\* The call p makes next, and that a call has ended.
LEMMA GoIs == ASSUME GitTypeOK, NEW p \in Procs, NEW j, Go(p, j) PROVE job'[p] = j /\ last' = last
PROOF
BY DEF Go, GitTypeOK
LEMMA DoneIs ==
  ASSUME GitTypeOK, NEW p \in Procs, NEW r, Done(p, r)
  PROVE  job'[p] = Idle
PROOF
BY DEF Done, End, GitTypeOK
LEMMA EndIs ==
  ASSUME GitTypeOK, NEW p \in Procs, NEW r, NEW a, End(p, r, a)
  PROVE  job'[p] = Idle /\ last'[p].aborted = a
PROOF
BY DEF End, GitTypeOK

\* Where a call stands tells what it is.
LEMMA CallAt ==
  ASSUME NEW p \in Procs, CallOK(p), job[p].pc # "idle"
  PROVE  /\ Calling(job[p])
         /\ job[p].pc = "resolve" => job[p].op \in {"MoveRef", "DeleteBranch", "Resign"}
         /\ job[p].pc = "backup" => job[p].op \in {"MoveRef", "DeleteBranch", "Resign", "Rebase"}
         /\ job[p].pc = "move" => job[p].op \in {"MoveRef", "Resign"}
         /\ job[p].pc = "delete" => job[p].op = "DeleteBranch"
         /\ job[p].pc \in {"old", "range", "report"} => job[p].op = "Resign"
         /\ job[p].pc \in {"current", "rebase"} => job[p].op = "Rebase"
         /\ job[p].pc \in {"newHead", "abort"} => job[p].op \in {"Rebase", "Merge"}
         /\ job[p].pc \in {"merge", "undo", "undoFailed"} => job[p].op = "Merge"
         /\ job[p].pc = "start" => job[p].op = "CreateBranch"
         /\ job[p].pc = "add" => job[p].op = "WorktreeAdd"
         /\ job[p].pc = "remove" => job[p].op = "WorktreeRemove"
PROOF
<1>1. Calling(job[p])
  BY DEF CallOK, Idle
<1>2. job[p].op \in {"MoveRef", "DeleteBranch", "Resign", "Rebase", "Merge", "CreateBranch",
                     "WorktreeAdd", "WorktreeRemove"} /\ job[p].pc \in Stages(job[p].op)
  BY <1>1, CallFacts DEF Calling
<1> QED  BY <1>1, <1>2 DEF Stages

(***************************************************************************)
(* Worktrees.                                                              *)
(***************************************************************************)
\* What a step makes of the worktrees: one of p's own, or one of nobody's.
LEMMA WorktreeStep ==
  ASSUME GitTypeOK, NEW p \in Procs, CallOK(p), Step(p)
  PROVE  \/ wts' = wts
         \/ \E w : wts' = [wts EXCEPT ![Dir[p]] = w]
         \/ \E path \in Paths \ DOMAIN wts, b \in Branches :
              wts' = [w \in DOMAIN wts \cup {path} |-> IF w = path THEN On(b) ELSE wts[w]]
         \/ \E path : (\A q \in Procs : path # Dir[q]) /\ wts' = [w \in DOMAIN wts \ {path} |-> wts[w]]
PROOF
<1>1. CASE UNCHANGED wts
  BY <1>1
<1>2. CASE rebase(p)
  BY <1>2 DEF rebase
<1>3. CASE merge(p)
  <2>1. wts' = wts \/ LeaveMerging(Dir[p])
    BY <1>3 DEF merge, SetHead
  <2>2. ASSUME LeaveMerging(Dir[p]) PROVE \E w : wts' = [wts EXCEPT ![Dir[p]] = w]
    BY <2>2 DEF LeaveMerging
  <2> QED  BY <2>1, <2>2
<1>4. CASE undoDryRun(p)
  BY <1>4 DEF undoDryRun
<1>5. CASE abort(p)
  BY <1>5 DEF abort
<1>6. CASE WorktreeAdd(p)
  <2>1. job[p].op = "WorktreeAdd" /\ Calling(job[p])
    BY <1>6, CallAt DEF WorktreeAdd, At
  <2>2. /\ job[p].call.path \in Paths /\ job[p].call.branch \in Branches \cup {NoBranch}
        /\ job[p].call.ref \in Branches
    BY <2>1, CallFacts DEF Calling
  <2> QED  BY <1>6, <2>2 DEF WorktreeAdd
<1>7. CASE WorktreeRemove(p)
  <2>1. job[p].op = "WorktreeRemove" /\ Calling(job[p])
    BY <1>7, CallAt DEF WorktreeRemove, At
  <2>2. \A q \in Procs : job[p].call.path # Dir[q]
    BY <2>1, CallFacts DEF Calling
  <2> QED  BY <1>7, <2>2 DEF WorktreeRemove
<1> QED  BY <1>1, <1>2, <1>3, <1>4, <1>5, <1>6, <1>7 DEF Step, Call, GitFails, Die, resolveRef, backupRef,
         casMove, casDelete, CreateBranch, resignOld, resignRange, resignReported, currentBranch, newHead, repo

LEMMA OthersWorktrees ==
  ASSUME GitTypeOK, NEW p \in Procs, CallOK(p), Step(p), NEW q \in Procs, q # p
  PROVE  wts'[Dir[q]] = wts[Dir[q]]
PROOF
<1>1. Dir[q] # Dir[p] /\ Dir[q] \in DOMAIN wts
  BY GitAssumption DEF GitTypeOK
<1> QED  BY <1>1, WorktreeStep

WorktreeOK(w) ==
  /\ w \in Worktrees
  /\ IF w.rebasing = NoBranch THEN w.branch # NoBranch ELSE w.branch = NoBranch /\ ~w.merging

LEMMA OwnOK == ASSUME GitTypeOK, NEW p \in Procs PROVE Dir[p] \in DOMAIN wts /\ WorktreeOK(Wt(p))
PROOF
BY DEF GitTypeOK, WorktreeOK, Wt

\* What a step of p leaves in p's worktree.
Restored(p) ==
  IF job[p].op = "Merge" THEN [Wt(p) EXCEPT !.merging = FALSE]
  ELSE IF Wt(p).rebasing # NoBranch THEN On(Wt(p).rebasing) ELSE Wt(p)
LEMMA OwnWorktree ==
  ASSUME GitTypeOK, NEW p \in Procs, CallOK(p), Step(p)
  PROVE  \/ wts'[Dir[p]] = Wt(p)
         \/ /\ At(p, "rebase") /\ Wt(p).branch = job[p].ref /\ ~Wt(p).merging
            /\ wts'[Dir[p]] = [On(NoBranch) EXCEPT !.rebasing = job[p].ref]
            /\ job'[p].pc = "abort"
         \/ /\ At(p, "merge") /\ Wt(p).rebasing = NoBranch
            /\ wts'[Dir[p]] = [Wt(p) EXCEPT !.merging = TRUE]
            /\ job'[p].pc \in {"abort", "undo", "undoFailed"}
         \/ undoDryRun(p) /\ wts'[Dir[p]] = [Wt(p) EXCEPT !.merging = FALSE]
         \/ abort(p) /\ wts'[Dir[p]] = Restored(p)
PROOF
<1>1. Dir[p] \in DOMAIN wts
  BY OwnOK
<1>2. CASE UNCHANGED wts
  BY <1>2 DEF Wt
<1>3. CASE rebase(p)
  <2>1. CASE UNCHANGED wts
    BY <2>1 DEF Wt
  <2>2. CASE ~UNCHANGED wts
    <3>1. PICK c :
             /\ At(p, "rebase") /\ Wt(p).branch = job[p].ref /\ ~Wt(p).merging
             /\ wts' = [wts EXCEPT ![Dir[p]] = [On(NoBranch) EXCEPT !.rebasing = job[p].ref]]
             /\ Go(p, [job[p] EXCEPT !.pc = "abort", !.new = c])
      BY <1>3, <2>2 DEF rebase
    <3>2. "pc" \in DOMAIN job[p]
      BY <3>1, CallAt DEF Calling, At
    <3>3. PICK k : k = [job[p] EXCEPT !.pc = "abort", !.new = c] /\ job'[p] = k
      BY <3>1, GoIs
    <3>4. k.pc = "abort"
      BY <3>2, <3>3
    <3> QED  BY <1>1, <3>1, <3>3, <3>4
  <2> QED  BY <2>1, <2>2
<1>4. CASE merge(p)
  <2>1. CASE UNCHANGED wts
    BY <2>1 DEF Wt
  <2>2. CASE ~UNCHANGED wts
    <3>1. PICK next \in {"abort", "undo", "undoFailed"} :
             /\ At(p, "merge") /\ Wt(p).rebasing = NoBranch
             /\ LeaveMerging(Dir[p]) /\ Go(p, [job[p] EXCEPT !.pc = next])
      BY <1>4, <2>2 DEF merge, SetHead
    <3>2. "pc" \in DOMAIN job[p]
      BY <3>1, CallAt DEF Calling, At
    <3>3. wts'[Dir[p]] = [Wt(p) EXCEPT !.merging = TRUE]
      BY <1>1, <3>1 DEF LeaveMerging, Wt
    <3> QED  BY <3>1, <3>2, <3>3, GoIs
  <2> QED  BY <2>1, <2>2
<1>5. CASE undoDryRun(p)
  BY <1>1, <1>5 DEF undoDryRun, Wt
<1>6. CASE abort(p)
  <2>1. CASE UNCHANGED wts
    BY <2>1 DEF Wt
  <2>2. CASE ~UNCHANGED wts
    <3>1. wts' = [wts EXCEPT ![Dir[p]] = Restored(p)]
      BY <1>6, <2>2 DEF abort, Wt, Restored
    <3> QED  BY <1>1, <1>6, <3>1
  <2> QED  BY <2>1, <2>2
<1>7. CASE WorktreeAdd(p)
  BY <1>1, <1>7 DEF WorktreeAdd, Wt
<1>8. CASE WorktreeRemove(p)
  <2>1. job[p].op = "WorktreeRemove" /\ Calling(job[p])
    BY <1>8, CallAt DEF WorktreeRemove, At
  <2>2. job[p].call.path # Dir[p]
    BY <2>1, CallFacts DEF Calling
  <2> QED  BY <1>1, <1>8, <2>2 DEF WorktreeRemove, Wt
<1> QED  BY <1>2, <1>3, <1>4, <1>5, <1>6, <1>7, <1>8 DEF Step, Call, GitFails, Die, resolveRef, backupRef,
         casMove, casDelete, CreateBranch, resignOld, resignRange, resignReported, currentBranch, newHead, repo

LEMMA OwnKept ==
  ASSUME GitTypeOK, NEW p \in Procs, CallOK(p), Step(p)
  PROVE  WorktreeOK(wts'[Dir[p]]) /\ Home(wts'[Dir[p]]) = Home(Wt(p))
PROOF
<1> DEFINE w == wts'[Dir[p]]
<1>1. WorktreeOK(Wt(p)) /\ NoBranch \notin Branches
  BY OwnOK, GitAssumption
<1>2. CASE w = Wt(p)
  BY <1>1, <1>2
<1>3. CASE At(p, "rebase") /\ Wt(p).branch = job[p].ref /\ ~Wt(p).merging
           /\ w = [On(NoBranch) EXCEPT !.rebasing = job[p].ref]
  <2>1. job[p].ref \in Branches
    BY <1>3, CallAt DEF Calling, At
  <2> QED  BY <1>1, <1>3, <2>1 DEF WorktreeOK, Worktrees, On, Home
<1>4. CASE Wt(p).rebasing = NoBranch /\ w = [Wt(p) EXCEPT !.merging = TRUE]
  BY <1>1, <1>4 DEF WorktreeOK, Worktrees, Home
<1>5. CASE w = [Wt(p) EXCEPT !.merging = FALSE]
  BY <1>1, <1>5 DEF WorktreeOK, Worktrees, Home
<1>6. CASE w = Restored(p)
  <2>1. CASE job[p].op = "Merge"
    BY <1>5, <1>6, <2>1 DEF Restored
  <2>2. CASE job[p].op # "Merge" /\ Wt(p).rebasing = NoBranch
    BY <1>2, <1>6, <2>2 DEF Restored
  <2>3. CASE job[p].op # "Merge" /\ Wt(p).rebasing # NoBranch
    <3>1. w = On(Wt(p).rebasing)
      BY <1>6, <2>3 DEF Restored
    <3>2. Wt(p).rebasing \in Branches
      BY <1>1, <2>3 DEF WorktreeOK, Worktrees
    <3> QED  BY <1>1, <2>3, <3>1, <3>2 DEF WorktreeOK, Worktrees, Home, On
  <2> QED  BY <2>1, <2>2, <2>3
<1> HIDE DEF w
<1>7. \/ w = Wt(p)
      \/ /\ At(p, "rebase") /\ Wt(p).branch = job[p].ref /\ ~Wt(p).merging
         /\ w = [On(NoBranch) EXCEPT !.rebasing = job[p].ref]
      \/ Wt(p).rebasing = NoBranch /\ w = [Wt(p) EXCEPT !.merging = TRUE]
      \/ w = [Wt(p) EXCEPT !.merging = FALSE]
      \/ w = Restored(p)
  BY OwnWorktree DEF w
<1> QED  BY <1>2, <1>3, <1>4, <1>5, <1>6, <1>7 DEF w

(***************************************************************************)
(* Types.                                                                  *)
(***************************************************************************)
LEMMA WorktreesType ==
  ASSUME GitTypeOK, NEW p \in Procs, CallOK(p), Step(p)
  PROVE  /\ {Dir[q] : q \in Procs} \subseteq DOMAIN wts' /\ DOMAIN wts' \subseteq Paths
         /\ \A w \in DOMAIN wts' : WorktreeOK(wts'[w])
PROOF
<1>1. Dir \in [Procs -> Paths] /\ NoBranch \notin Branches
  BY GitAssumption
<1>2. /\ {Dir[q] : q \in Procs} \subseteq DOMAIN wts /\ DOMAIN wts \subseteq Paths
      /\ \A w \in DOMAIN wts : WorktreeOK(wts[w])
  BY DEF GitTypeOK, WorktreeOK
<1>3. CASE wts' = wts
  BY <1>2, <1>3
<1>4. CASE \E w : wts' = [wts EXCEPT ![Dir[p]] = w]
  <2>1. WorktreeOK(wts'[Dir[p]])
    BY OwnKept
  <2> QED  BY <1>2, <1>4, <2>1
<1>5. CASE \E path \in Paths \ DOMAIN wts, b \in Branches :
             wts' = [w \in DOMAIN wts \cup {path} |-> IF w = path THEN On(b) ELSE wts[w]]
  <2>1. \A b \in Branches : WorktreeOK(On(b))
    BY <1>1 DEF WorktreeOK, Worktrees, On
  <2> QED  BY <1>2, <1>5, <2>1
<1>6. CASE \E path : (\A q \in Procs : path # Dir[q]) /\ wts' = [w \in DOMAIN wts \ {path} |-> wts[w]]
  BY <1>2, <1>6
<1> QED  BY <1>3, <1>4, <1>5, <1>6, WorktreeStep

LEMMA CountsType ==
  ASSUME GitTypeOK, NEW p \in Procs, Step(p)
  PROVE  /\ DOMAIN refs' = Branches /\ calls' \in 0 .. MaxCalls /\ foreign' = foreign /\ makes' = makes
         /\ DOMAIN job' = Procs /\ DOMAIN last' = Procs
PROOF
<1>1. DOMAIN refs = Branches /\ calls \in 0 .. MaxCalls /\ MaxCalls \in Nat
  BY GitAssumption DEF GitTypeOK
<1>2. foreign' = foreign /\ makes' = makes /\ calls' \in 0 .. MaxCalls
  <2>1. CASE Call(p)
    BY <1>1, <2>1 DEF Call
  <2>2. CASE GitFails(p) \/ Die(p) \/ resolveRef(p) \/ backupRef(p) \/ casMove(p) \/ casDelete(p)
    BY <1>1, <2>2 DEF GitFails, Die, resolveRef, backupRef, casMove, casDelete
  <2>3. CASE CreateBranch(p) \/ resignOld(p) \/ resignRange(p) \/ resignReported(p) \/ currentBranch(p)
    BY <1>1, <2>3 DEF CreateBranch, resignOld, resignRange, resignReported, currentBranch
  <2>4. CASE rebase(p) \/ newHead(p) \/ merge(p) \/ undoDryRun(p) \/ abort(p)
    BY <1>1, <2>4 DEF rebase, newHead, merge, undoDryRun, abort
  <2>5. CASE WorktreeAdd(p) \/ WorktreeRemove(p)
    BY <1>1, <2>5 DEF WorktreeAdd, WorktreeRemove
  <2> QED  BY <2>1, <2>2, <2>3, <2>4, <2>5 DEF Step
<1>3. DOMAIN refs' = Branches
  <2>1. CASE merge(p)
    BY <1>1, <2>1 DEF merge, SetHead, LeaveMerging
  <2>2. CASE rebase(p)
    BY <1>1, <2>2 DEF rebase
  <2> QED  BY <1>1, <2>1, <2>2 DEF Step, Call, GitFails, Die, resolveRef, backupRef, casMove, casDelete,
           CreateBranch, resignOld, resignRange, resignReported, currentBranch, newHead, undoDryRun, abort,
           WorktreeAdd, WorktreeRemove, repo
<1>4. DOMAIN job' = Procs /\ DOMAIN last' = Procs
  <2>1. PICK j, l : Turns(p, j, l)
    BY StepTurns
  <2> QED  BY <2>1 DEF Turns, GitTypeOK
<1> QED  BY <1>2, <1>3, <1>4

\* Only what a call is about to replace is backed up.
LEMMA BackupStep ==
  ASSUME NEW p \in Procs, Step(p)
  PROVE  backups' = backups \/ (backupRef(p) /\ backups' = backups \cup {<<job[p].ref, job[p].old>>})
PROOF
BY DEF Step, Call, GitFails, Die, resolveRef, backupRef, casMove, casDelete, CreateBranch, resignOld,
   resignRange, resignReported, currentBranch, rebase, newHead, merge, undoDryRun, abort, WorktreeAdd,
   WorktreeRemove, repo

LEMMA StepType ==
  ASSUME GitTypeOK, NEW p \in Procs, CallInv(p), Step(p)
  PROVE  GitTypeOK'
PROOF
<1>1. CallOK(p) /\ Saved(p)
  BY DEF CallInv
<1>2. \A e \in backups' : e[1] \in Branches /\ e[2] # Absent
  <2>1. \A e \in backups : e[1] \in Branches /\ e[2] # Absent
    BY DEF GitTypeOK
  <2>2. ASSUME backupRef(p) PROVE job[p].ref \in Branches /\ job[p].old # Absent
    <3>1. job[p].pc = "backup"
      BY <2>2 DEF backupRef, At
    <3> QED  BY <1>1, <3>1, CallAt DEF Calling, Saved
  <2> QED  BY <2>1, <2>2, BackupStep
<1> QED  BY <1>1, <1>2, WorktreesType, CountsType DEF GitTypeOK, WorktreeOK

LEMMA ForeignType == ASSUME GitTypeOK, CommitByOthers PROVE GitTypeOK'
PROOF
<1>1. UNCHANGED <<backups, wts, job, last, calls, makes>> /\ foreign' \in 0 .. MaxForeign
  BY GitAssumption DEF GitTypeOK, CommitByOthers
<1>2. DOMAIN refs' = Branches
  BY DEF GitTypeOK, CommitByOthers
<1> QED  BY <1>1, <1>2 DEF GitTypeOK

(***************************************************************************)
(* A call's own step.                                                      *)
(***************************************************************************)
\* A call over, or not begun, asks for nothing.
LEMMA OverInv == ASSUME NEW p \in Procs, job'[p] = Idle PROVE CallInv(p)'
PROOF
BY DEF CallInv, CallOK, Saved, Holding, Replays, Replaying, Tidy, Idle

\* A call that goes on keeps what it is.
LEMMA OnCalling ==
  ASSUME NEW j, Calling(j), NEW x \in Stages(j.op), j.ref \in Branches \/ j.op \in {"Merge", "WorktreeRemove"},
         NEW k, k = [j EXCEPT !.pc = x]
  PROVE  /\ Calling(k) /\ k.pc = x
         /\ k.op = j.op /\ k.call = j.call /\ k.wt = j.wt /\ k.ref = j.ref /\ k.old = j.old
PROOF
BY DEF Calling

LEMMA CallStep ==
  ASSUME GitTypeOK, NEW p \in Procs, Call(p)
  PROVE  CallInv(p)'
PROOF
<1>1. PICK c \in makes[p] :
        Go(p, [pc |-> First(c.op), op |-> c.op, call |-> c, wt |-> Wt(p),
               ref |-> IF "ref" \in DOMAIN c THEN c.ref ELSE NoBranch,
               old |-> IF "old" \in DOMAIN c THEN c.old ELSE Absent,
               new |-> IF "new" \in DOMAIN c THEN c.new ELSE Absent])
  BY DEF Call
<1>2. PICK ref, old, new :
        /\ job'[p] = [pc |-> First(c.op), op |-> c.op, call |-> c, wt |-> Wt(p), ref |-> ref, old |-> old, new |-> new]
        /\ "ref" \in DOMAIN c => ref = c.ref
  BY <1>1, GoIs
<1>3. IsCall(c)
  BY CallsAssumption DEF GitTypeOK
<1>4. First(c.op) \in Stages(c.op) /\ First(c.op) \notin {"idle", "backup", "move", "delete", "rebase", "abort"}
  BY <1>3, CallFacts DEF First, Stages
<1>5. Wt(p) \in Worktrees /\ Wt(p)' = Wt(p)
  BY OwnOK DEF WorktreeOK, Call, repo, Wt
<1>6. /\ c.op \in {"MoveRef", "DeleteBranch", "Resign", "CreateBranch", "WorktreeAdd"} => ref = c.ref /\ ref \in Branches
      /\ c.op = "Rebase" => First(c.op) = "current"
  BY <1>2, <1>3, CallFacts DEF First
<1>7. c.op \in {"MoveRef", "DeleteBranch", "Resign", "Rebase", "Merge", "CreateBranch", "WorktreeAdd", "WorktreeRemove"}
  BY <1>3, CallFacts
<1>8. Calling(job'[p])
  BY <1>2, <1>3, <1>4, <1>5, <1>6, <1>7 DEF Calling
<1> QED  BY <1>2, <1>4, <1>5, <1>8 DEF CallInv, CallOK, Saved, Holding, Replays, Replaying, Tidy

LEMMA resolveStep ==
  ASSUME GitTypeOK, NEW p \in Procs, CallInv(p), resolveRef(p)
  PROVE  CallInv(p)'
PROOF
<1>1. CASE \E r : Done(p, r)
  BY <1>1, DoneIs, OverInv
<1>2. CASE ~\E r : Done(p, r)
  <2>1. /\ job[p].pc = "resolve" /\ refs[job[p].ref] # Absent /\ refs[job[p].ref] = job[p].old
        /\ Go(p, [job[p] EXCEPT !.pc = "backup"]) /\ UNCHANGED <<refs, backups, wts>>
    BY <1>2 DEF resolveRef, At, repo
  <2>2. Calling(job[p]) /\ job[p].op \in {"MoveRef", "DeleteBranch", "Resign"}
    BY <2>1, CallAt DEF CallInv
  <2>3. PICK k : k = [job[p] EXCEPT !.pc = "backup"] /\ job'[p] = k
    BY <2>1, GoIs
  <2>4. /\ Calling(k) /\ k.pc = "backup" /\ k.op = job[p].op /\ k.wt = job[p].wt /\ k.old = job[p].old
    BY <2>2, <2>3, OnCalling DEF Calling, Stages
  <2> QED  BY <2>1, <2>2, <2>3, <2>4 DEF CallInv, CallOK, Saved, Holding, Replays, Replaying, Tidy, Wt
<1> QED  BY <1>1, <1>2

LEMMA backupStep ==
  ASSUME GitTypeOK, NEW p \in Procs, CallInv(p), backupRef(p)
  PROVE  CallInv(p)'
PROOF
<1>1. /\ job[p].pc = "backup" /\ UNCHANGED <<refs, wts>>
      /\ backups' = backups \cup {<<job[p].ref, job[p].old>>}
  BY DEF backupRef, At
<1>2. Calling(job[p]) /\ job[p].op \in {"MoveRef", "DeleteBranch", "Resign", "Rebase"}
  BY <1>1, CallAt DEF CallInv
<1>3. PICK x : /\ x = CASE job[p].op = "Rebase" -> "rebase" [] job[p].op = "DeleteBranch" -> "delete" [] OTHER -> "move"
               /\ job'[p] = [job[p] EXCEPT !.pc = x]
  BY GoIs DEF backupRef
<1>4. x \in Stages(job[p].op) /\ x \in {"rebase", "delete", "move"}
  BY <1>2, <1>3 DEF Stages
<1>5. PICK k : k = [job[p] EXCEPT !.pc = x] /\ job'[p] = k
  BY <1>3
<1>6. /\ Calling(k) /\ k.pc = x /\ k.op = job[p].op /\ k.wt = job[p].wt /\ k.old = job[p].old /\ k.ref = job[p].ref
  BY <1>1, <1>2, <1>4, <1>5, OnCalling DEF Calling
<1>7. job[p].old # Absent
  BY <1>1 DEF CallInv, Saved
<1> QED  BY <1>1, <1>4, <1>5, <1>6, <1>7 DEF CallInv, CallOK, Saved, Holding, Replays, Replaying, Tidy, Wt

LEMMA resignOldStep ==
  ASSUME GitTypeOK, NEW p \in Procs, CallInv(p), resignOld(p)
  PROVE  CallInv(p)'
PROOF
<1>1. CASE \E r : Done(p, r)
  BY <1>1, DoneIs, OverInv
<1>2. CASE ~\E r : Done(p, r)
  <2>1. /\ job[p].pc = "old" /\ UNCHANGED <<refs, backups, wts>>
        /\ Go(p, [job[p] EXCEPT !.pc = "range", !.old = refs[job[p].ref]])
    BY <1>2 DEF resignOld, At, repo
  <2>2. Calling(job[p]) /\ job[p].op = "Resign"
    BY <2>1, CallAt DEF CallInv
  <2>3. PICK k : k = [job[p] EXCEPT !.pc = "range", !.old = refs[job[p].ref]] /\ job'[p] = k
    BY <2>1, GoIs
  <2>4. Calling(k) /\ k.pc = "range" /\ k.wt = job[p].wt
    BY <2>2, <2>3 DEF Calling, Stages
  <2> QED  BY <2>1, <2>2, <2>3, <2>4 DEF CallInv, CallOK, Saved, Holding, Replays, Replaying, Tidy, Wt
<1> QED  BY <1>1, <1>2

LEMMA resignRangeStep ==
  ASSUME GitTypeOK, NEW p \in Procs, CallInv(p), resignRange(p)
  PROVE  CallInv(p)'
PROOF
<1>1. job[p].pc = "range" /\ UNCHANGED <<refs, backups, wts>>
  BY DEF resignRange, At, repo
<1>2. Calling(job[p]) /\ job[p].op = "Resign"
  BY <1>1, CallAt DEF CallInv
<1>3. CASE \E r : Done(p, r)
  BY <1>3, DoneIs, OverInv
<1>4. CASE \E new, head, short, commits, noOp, target :
             Go(p, [pc |-> "report", op |-> job[p].op, call |-> job[p].call, wt |-> job[p].wt, ref |-> job[p].ref,
                    old |-> job[p].old, new |-> new, head |-> head, cut |-> short, commits |-> commits,
                    noOp |-> noOp, target |-> target])
  <2>1. PICK k, new, head, short, commits, noOp, target :
          /\ k = [pc |-> "report", op |-> job[p].op, call |-> job[p].call, wt |-> job[p].wt, ref |-> job[p].ref,
                  old |-> job[p].old, new |-> new, head |-> head, cut |-> short, commits |-> commits,
                  noOp |-> noOp, target |-> target]
          /\ job'[p] = k
    BY <1>4, GoIs
  <2>2. /\ {"pc", "op", "call", "wt", "ref", "old", "new"} \subseteq DOMAIN k
        /\ k.pc = "report" /\ k.op = "Resign" /\ k.call = job[p].call /\ k.wt = job[p].wt /\ k.ref = job[p].ref
    BY <1>2, <2>1
  <2>3. job[p].ref \in Branches /\ IsCall(job[p].call) /\ job[p].call.op = "Resign" /\ job[p].wt \in Worktrees
    BY <1>1, <1>2 DEF Calling
  <2>4. "report" \in Stages("Resign")
    BY DEF Stages
  <2>5. Calling(k)
    BY <2>2, <2>3, <2>4 DEF Calling
  <2> QED  BY <1>1, <2>1, <2>2, <2>5 DEF CallInv, CallOK, Saved, Holding, Replays, Replaying, Tidy, Wt
<1>5. (\E r : Done(p, r))
      \/ \E new, head, short, commits, noOp, target :
           Go(p, [pc |-> "report", op |-> job[p].op, call |-> job[p].call, wt |-> job[p].wt, ref |-> job[p].ref,
                  old |-> job[p].old, new |-> new, head |-> head, cut |-> short, commits |-> commits,
                  noOp |-> noOp, target |-> target])
  BY Zenon DEF resignRange
<1> QED  BY <1>3, <1>4, <1>5

LEMMA resignReportedStep ==
  ASSUME GitTypeOK, NEW p \in Procs, CallInv(p), resignReported(p)
  PROVE  CallInv(p)'
PROOF
<1>1. CASE \E r : Done(p, r)
  BY <1>1, DoneIs, OverInv
<1>2. CASE ~\E r : Done(p, r)
  <2>1. /\ job[p].pc = "report" /\ UNCHANGED <<refs, backups, wts>>
        /\ Go(p, [job[p] EXCEPT !.pc = "resolve"])
    BY <1>2 DEF resignReported, At, repo
  <2>2. Calling(job[p]) /\ job[p].op = "Resign"
    BY <2>1, CallAt DEF CallInv
  <2>3. PICK k : k = [job[p] EXCEPT !.pc = "resolve"] /\ job'[p] = k
    BY <2>1, GoIs
  <2>4. "resolve" \in Stages(job[p].op) /\ job[p].ref \in Branches
    BY <2>1, <2>2 DEF Calling, Stages
  <2>5. Calling(k) /\ k.pc = "resolve" /\ k.wt = job[p].wt
    BY <2>2, <2>3, <2>4, OnCalling
  <2> QED  BY <2>1, <2>2, <2>3, <2>5 DEF CallInv, CallOK, Saved, Holding, Replays, Replaying, Tidy, Wt
<1> QED  BY <1>1, <1>2

LEMMA currentStep ==
  ASSUME GitTypeOK, NEW p \in Procs, CallInv(p), currentBranch(p)
  PROVE  CallInv(p)'
PROOF
<1>1. CASE \E r : Done(p, r)
  BY <1>1, DoneIs, OverInv
<1>2. CASE ~\E r : Done(p, r)
  <2>1. PICK b : /\ b = Wt(p).branch /\ b # NoBranch /\ refs[b] # Absent
                 /\ job[p].pc = "current" /\ UNCHANGED <<refs, backups, wts>>
                 /\ Go(p, [job[p] EXCEPT !.pc = "backup", !.ref = b, !.old = refs[b]])
    BY <1>2 DEF currentBranch, At, repo
  <2>2. Calling(job[p]) /\ job[p].op = "Rebase"
    BY <2>1, CallAt DEF CallInv
  <2>3. PICK k : k = [job[p] EXCEPT !.pc = "backup", !.ref = b, !.old = refs[b]] /\ job'[p] = k
    BY <2>1, GoIs
  <2>4. b \in Branches
    BY <2>1, OwnOK DEF WorktreeOK, Worktrees
  <2>5. Calling(k) /\ k.pc = "backup" /\ k.wt = job[p].wt /\ k.ref = b /\ k.old = refs[b]
    BY <2>2, <2>3, <2>4 DEF Calling, Stages
  <2> QED  BY <2>1, <2>2, <2>3, <2>5 DEF CallInv, CallOK, Saved, Holding, Replays, Replaying, Tidy, Wt
<1> QED  BY <1>1, <1>2

LEMMA rebaseStep ==
  ASSUME GitTypeOK, NEW p \in Procs, CallInv(p), rebase(p)
  PROVE  CallInv(p)'
PROOF
<1>1. job[p].pc = "rebase" /\ backups' = backups
  BY DEF rebase, At
<1>2. Calling(job[p]) /\ job[p].op = "Rebase"
  BY <1>1, CallAt DEF CallInv
<1>3. /\ Wt(p).branch = job[p].ref /\ (Clean(job[p].wt) => Wt(p) = job[p].wt)
      /\ <<job[p].ref, job[p].old>> \in backups /\ job[p].ref \in Branches
  BY <1>1, <1>2 DEF CallInv, Replays, Replaying, Tidy, Saved, Holding, Calling
<1>6. Wt(p).rebasing = NoBranch
  BY <1>3, OwnOK, GitAssumption DEF WorktreeOK
<1>4. CASE \E c : Go(p, [job[p] EXCEPT !.pc = "abort", !.new = c])
  <2>1. PICK k, c : k = [job[p] EXCEPT !.pc = "abort", !.new = c] /\ job'[p] = k
    BY <1>4, GoIs
  <2>2. Calling(k) /\ k.pc = "abort" /\ k.op = "Rebase" /\ k.wt = job[p].wt /\ k.ref = job[p].ref /\ k.old = job[p].old
    BY <1>1, <1>2, <2>1 DEF Calling, Stages
  <2>3. wts' = wts \/ wts' = [wts EXCEPT ![Dir[p]] = [On(NoBranch) EXCEPT !.rebasing = job[p].ref]]
    BY DEF rebase
  <2>4. wts'[Dir[p]] = Wt(p) \/ wts'[Dir[p]] = [On(NoBranch) EXCEPT !.rebasing = job[p].ref]
    BY <2>3, OwnOK DEF Wt
  <2>5. CallOK(p)' /\ Saved(p)'
    BY <1>1, <1>3, <2>1, <2>2 DEF CallOK, Saved, Holding
  <2>6. Replays(p)'
    BY <1>6, <2>1, <2>2, <2>4 DEF Replays, Replaying, Wt, On
  <2>7. Tidy(p)'
    BY <1>3, <2>1, <2>2, <2>4 DEF Tidy, Wt, Stopped
  <2> QED  BY <2>5, <2>6, <2>7 DEF CallInv
<1>5. CASE ~\E c : Go(p, [job[p] EXCEPT !.pc = "abort", !.new = c])
  <2>1. PICK new : Go(p, [job[p] EXCEPT !.pc = "newHead", !.new = new]) /\ wts' = wts
    <3>1. Calling(job[p]) => [job[p] EXCEPT !.pc = "abort"] = [job[p] EXCEPT !.pc = "abort", !.new = job[p].new]
      BY DEF Calling
    <3> QED  BY <1>2, <1>5, <3>1 DEF rebase
  <2>2. PICK k : k = [job[p] EXCEPT !.pc = "newHead", !.new = new] /\ job'[p] = k
    BY <2>1, GoIs
  <2>3. Calling(k) /\ k.pc = "newHead" /\ k.wt = job[p].wt
    BY <1>1, <1>2, <2>2 DEF Calling, Stages
  <2> QED  BY <1>3, <2>1, <2>2, <2>3 DEF CallInv, CallOK, Saved, Holding, Replays, Replaying, Tidy, Wt
<1> QED  BY <1>4, <1>5

LEMMA mergeStep ==
  ASSUME GitTypeOK, NEW p \in Procs, CallInv(p), merge(p)
  PROVE  CallInv(p)'
PROOF
<1>1. job[p].pc = "merge" /\ backups' = backups
  BY DEF merge, At
<1>2. Calling(job[p]) /\ job[p].op = "Merge"
  BY <1>1, CallAt DEF CallInv
<1>3. Clean(job[p].wt) => Wt(p) = job[p].wt
  BY <1>1 DEF CallInv, Tidy
<1>4. PICK x \in {"newHead", "abort", "undo", "undoFailed"} : Go(p, [job[p] EXCEPT !.pc = x])
  BY DEF merge
<1>5. PICK k : k = [job[p] EXCEPT !.pc = x] /\ job'[p] = k
  BY <1>4, GoIs
<1>6. Calling(k) /\ k.pc = x /\ k.op = "Merge" /\ k.wt = job[p].wt
  BY <1>1, <1>2, <1>5, OnCalling DEF Stages
<1>7. wts'[Dir[p]] = Wt(p) \/ (wts'[Dir[p]] = [Wt(p) EXCEPT !.merging = TRUE] /\ x \in {"abort", "undo", "undoFailed"})
  <2>1. Step(p) /\ CallOK(p)
    BY DEF Step, CallInv
  <2> QED  BY <1>1, <1>5, <1>6, <2>1, OwnWorktree DEF undoDryRun, abort, At
<1>8. CallOK(p)' /\ Saved(p)' /\ Replays(p)'
  BY <1>5, <1>6 DEF CallOK, Saved, Holding, Replays, Replaying
<1>9. Tidy(p)'
  <2>1. Clean(job[p].wt) => wts'[Dir[p]] = job[p].wt \/ (x \in {"abort", "undo", "undoFailed"} /\ wts'[Dir[p]] = Stopped(k))
    BY <1>3, <1>6, <1>7 DEF Stopped
  <2> QED  BY <1>5, <1>6, <2>1 DEF Tidy, Wt
<1> QED  BY <1>8, <1>9 DEF CallInv

\* An abort ends its call.
LEMMA Undone ==
  ASSUME NEW p, undoDryRun(p) \/ abort(p)
  PROVE  \E r, a : End(p, r, a)
PROOF
BY DEF undoDryRun, abort

\* Every step of p keeps p's call as it should be.
LEMMA OwnStep ==
  ASSUME GitTypeOK, NEW p \in Procs, CallInv(p), Step(p)
  PROVE  CallInv(p)'
PROOF
<1>1. CASE \E r : Done(p, r)
  BY <1>1, DoneIs, OverInv
<1>2. CASE Die(p)
  BY <1>2, OverInv DEF Die, GitTypeOK
<1>4. CASE undoDryRun(p) \/ abort(p)
  BY <1>4, Undone, EndIs, OverInv
<1>3. ASSUME ~\E r : Done(p, r), ~Die(p), ~undoDryRun(p), ~abort(p)
      PROVE  Call(p) \/ resolveRef(p) \/ backupRef(p) \/ resignOld(p) \/ resignRange(p) \/ resignReported(p)
             \/ currentBranch(p) \/ rebase(p) \/ merge(p)
  BY <1>3, Zenon DEF Step, GitFails, casMove, casDelete, CreateBranch, newHead, WorktreeAdd, WorktreeRemove
<1> QED  BY <1>1, <1>2, <1>3, <1>4, CallStep, resolveStep, backupStep, resignOldStep, resignRangeStep,
         resignReportedStep, currentStep, rebaseStep, mergeStep

(***************************************************************************)
(* Branches.                                                               *)
(***************************************************************************)
\* How a branch comes to be elsewhere.
Swaps(p, b) == job[p].pc \in {"move", "delete"} /\ job[p].ref = b /\ job[p].old = refs[b]
Creates(p, b) == refs[b] = Absent \/ (Forced(p, b) /\ ~CheckedOut(b))
Replants(p, b) == At(p, "rebase") /\ job[p].op = "Rebase" /\ job[p].ref = b /\ Wt(p).branch = b
Reverts(p, b) == At(p, "abort") /\ job[p].op = "Rebase" /\ Wt(p).rebasing = b
Extends(b) == isAncestor(refs[b], refs'[b])

\* A commit descends from each of its parents.
LEMMA ParentsArePast ==
  ASSUME NEW tree, NEW parents, NEW sig, NEW c \in ToSet(parents)
  PROVE  isAncestor(c, Commit(tree, parents, sig))
PROOF
BY DEF isAncestor, Ancestors, Commit

LEMMA FirstParent == ASSUME NEW c, NEW heads PROVE c \in ToSet(<<c>> \o heads) /\ c \in ToSet(<<c>>)
PROOF
BY DEF ToSet

LEMMA MergedExtends ==
  ASSUME NEW c, NEW heads, NEW sig
  PROVE  isAncestor(c, Merged(c, heads, sig))
PROOF
BY FirstParent, ParentsArePast DEF Merged

LEMMA MergeRefs ==
  ASSUME GitTypeOK, NEW p \in Procs, merge(p), NEW b \in Branches, refs'[b] # refs[b]
  PROVE  Extends(b)
PROOF
<1>2. PICK heads, sig : \/ SetHead(Dir[p], heads[1]) /\ isAncestor(HeadOf(Dir[p]), heads[1])
                        \/ SetHead(Dir[p], Merged(HeadOf(Dir[p]), heads, sig))
  <2>1. DEFINE kept == Missing(HeadOf(Dir[p]), MergeHeads(p))
               sign == IF job[p].call.sign THEN "G" ELSE "N"
  <2>2. ~UNCHANGED refs
    OBVIOUS
  <2>3. \/ SetHead(Dir[p], kept[1]) /\ isAncestor(HeadOf(Dir[p]), kept[1])
        \/ SetHead(Dir[p], Merged(HeadOf(Dir[p]), kept, sign))
    BY <2>2 DEF merge, LeaveMerging
  <2> QED  BY <2>3
<1>3. PICK c : SetHead(Dir[p], c) /\ isAncestor(HeadOf(Dir[p]), c)
  BY <1>2, MergedExtends
<1>4. b = Wt(p).branch /\ refs'[b] = c /\ HeadOf(Dir[p]) = refs[b]
  BY <1>3 DEF SetHead, HeadOf, Wt, GitTypeOK
<1> QED  BY <1>3, <1>4 DEF Extends

LEMMA RefsStep ==
  ASSUME GitTypeOK, NEW p \in Procs, CallInv(p), Step(p), NEW b \in Branches, refs'[b] # refs[b]
  PROVE  Swaps(p, b) \/ Creates(p, b) \/ Replants(p, b) \/ Reverts(p, b) \/ Extends(b)
PROOF
<1>1. CallOK(p)
  BY DEF CallInv
<1>2. CASE casMove(p) \/ casDelete(p)
  BY <1>2 DEF casMove, casDelete, Swaps, At, GitTypeOK
<1>3. CASE CreateBranch(p)
  <2>1. At(p, "start") /\ job[p].op = "CreateBranch" /\ Calling(job[p])
    BY <1>1, <1>3, CallAt DEF CreateBranch, At
  <2>2. job[p].ref = job[p].call.ref
    BY <2>1 DEF Calling
  <2>3. /\ refs' = [refs EXCEPT ![job[p].call.ref] = refs[job[p].call.start]]
        /\ refs[job[p].call.ref] = Absent \/ (job[p].call.force /\ ~CheckedOut(job[p].call.ref))
    BY <1>3 DEF CreateBranch
  <2>4. b = job[p].call.ref
    BY <2>3
  <2> QED  BY <2>1, <2>2, <2>3, <2>4 DEF Creates, Forced
<1>4. CASE rebase(p)
  <2>1. At(p, "rebase") /\ job[p].op = "Rebase"
    BY <1>1, <1>4, CallAt DEF rebase, At
  <2>2. PICK c : refs' = [refs EXCEPT ![job[p].ref] = c] /\ Wt(p).branch = job[p].ref
    <3>1. ~UNCHANGED refs
      OBVIOUS
    <3> QED  BY <1>4, <3>1, Zenon DEF rebase
  <2>3. b = job[p].ref
    BY <2>2
  <2> QED  BY <2>1, <2>2, <2>3 DEF Replants
<1>5. CASE merge(p)
  BY <1>5, MergeRefs
<1>6. CASE WorktreeAdd(p)
  <2>1. DEFINE c == job[p].call
               new == IF c.branch # NoBranch THEN c.branch ELSE c.ref
  <2>2. ~UNCHANGED refs
    OBVIOUS
  <2>3. /\ refs' = [refs EXCEPT ![new] = refs[c.ref]]
        /\ ~c.dry /\ (c.branch # NoBranch => refs[c.branch] = Absent)
    BY <1>6, <2>2 DEF WorktreeAdd
  <2>4. CASE c.branch # NoBranch
    BY <2>3, <2>4 DEF Creates
  <2>5. CASE c.branch = NoBranch
    BY <2>3, <2>5
  <2> QED  BY <2>4, <2>5
<1>7. ~UNCHANGED refs
  OBVIOUS
<1>9. CASE abort(p)
  <2>1. At(p, "abort") /\ job[p].op \in {"Rebase", "Merge"}
    BY <1>1, <1>9, CallAt DEF abort, At
  <2>2. job[p].op # "Merge" /\ refs' = [refs EXCEPT ![Wt(p).rebasing] = job[p].new]
    BY <1>7, <1>9, Zenon DEF abort
  <2>3. b = Wt(p).rebasing
    BY <2>2
  <2> QED  BY <2>1, <2>2, <2>3 DEF Reverts
<1>8. casMove(p) \/ casDelete(p) \/ CreateBranch(p) \/ rebase(p) \/ merge(p) \/ WorktreeAdd(p) \/ abort(p)
  BY <1>7, Zenon DEF Step, Call, GitFails, Die, resolveRef, backupRef, resignOld, resignRange, resignReported,
     currentBranch, newHead, undoDryRun, WorktreeRemove, repo
<1> QED  BY <1>2, <1>3, <1>4, <1>5, <1>6, <1>8, <1>9

\* What others commit extends a branch.
LEMMA ForeignRefs ==
  ASSUME GitTypeOK, CommitByOthers, NEW b \in Branches, refs'[b] # refs[b]
  PROVE  Extends(b)
PROOF
<1>1. PICK x : refs'[b] = Commit(refs[b].tree \cup {x}, <<refs[b]>>, "N")
  BY DEF CommitByOthers, GitTypeOK
<1> QED  BY <1>1, FirstParent, ParentsArePast DEF Extends

(***************************************************************************)
(* The invariant is inductive.                                             *)
(***************************************************************************)
LEMMA InitInv == Init => IInv
PROOF
<1> SUFFICES ASSUME Init PROVE IInv
  OBVIOUS
<1>1. Dir \in [Procs -> Paths] /\ (\A p, q \in Procs : p # q => Dir[p] # Dir[q]) /\ NoBranch \notin Branches
      /\ MaxCalls \in Nat /\ MaxForeign \in Nat
  BY GitAssumption
<1>2. DOMAIN refs = Branches
  BY CallsAssumption DEF Init
<1>3. PICK f \in [Procs -> {b \in Branches : refs[b] # Absent}] :
        /\ \A p, q \in Procs : p # q => f[p] # f[q]
        /\ wts = [w \in {Dir[p] : p \in Procs} |-> On(f[CHOOSE p \in Procs : Dir[p] = w])]
  BY DEF Init
<1>4. DOMAIN wts = {Dir[p] : p \in Procs}
  BY <1>3
<1>5. ASSUME NEW p \in Procs PROVE Wt(p) = On(f[p]) /\ f[p] \in Branches
  <2>1. (CHOOSE q \in Procs : Dir[q] = Dir[p]) = p
    BY <1>1
  <2> QED  BY <1>3, <2>1 DEF Wt
<1>6. \A b \in Branches : WorktreeOK(On(b)) /\ Home(On(b)) = b
  BY <1>1 DEF WorktreeOK, Worktrees, On, Home
<1>7. \A w \in DOMAIN wts : WorktreeOK(wts[w])
  BY <1>4, <1>5, <1>6 DEF Wt
<1>8. Apart
  BY <1>3, <1>5, <1>6 DEF Apart
<1>9. DOMAIN job = Procs /\ DOMAIN last = Procs /\ backups = {} /\ calls = 0 /\ foreign = 0 /\ makes \in Workloads
  BY DEF Init
<1>10. GitTypeOK
  BY <1>1, <1>2, <1>4, <1>7, <1>9 DEF GitTypeOK, WorktreeOK
<1>11. \A p \in Procs : job[p] = Idle
  BY DEF Init
<1>12. \A p \in Procs : CallInv(p)
  BY <1>11 DEF CallInv, CallOK, Saved, Holding, Replays, Replaying, Tidy, Idle
<1> QED  BY <1>8, <1>10, <1>12 DEF IInv

\* A step of one caller leaves another's call as it should be.
LEMMA OthersStep ==
  ASSUME IInv, NEW p \in Procs, Step(p), NEW q \in Procs, q # p
  PROVE  CallInv(q)'
PROOF
<1>1. GitTypeOK /\ CallInv(p) /\ CallInv(q) /\ CallOK(p)
  BY DEF IInv, CallInv
<1>2. job'[q] = job[q] /\ wts'[Dir[q]] = wts[Dir[q]]
  BY <1>1, Others, OthersWorktrees
<1>3. \A e \in backups : e \in backups'
  BY BackupStep
<1>5. CallOK(q)'
  BY <1>1, <1>2 DEF CallInv, CallOK
<1>6. Saved(q)'
  BY <1>1, <1>2, <1>3 DEF CallInv, Saved
<1>7. Replays(q)'
  BY <1>1, <1>2 DEF CallInv, Replays, Wt
<1>8. Tidy(q)'
  BY <1>1, <1>2 DEF CallInv, Tidy, Wt
<1> QED  BY <1>5, <1>6, <1>7, <1>8 DEF CallInv

LEMMA ForeignStep == ASSUME IInv, CommitByOthers PROVE IInv'
PROOF
<1>1. GitTypeOK' /\ UNCHANGED <<backups, wts, job>>
  BY ForeignType DEF IInv, CommitByOthers
<1>3. ASSUME NEW q \in Procs PROVE CallInv(q)'
  <2>1. CallInv(q)
    BY DEF IInv
  <2>2. CallOK(q)' /\ Saved(q)' /\ Tidy(q)'
    BY <1>1, <2>1 DEF CallInv, CallOK, Saved, Tidy, Wt
  <2>3. Replays(q)'
    BY <1>1, <2>1 DEF CallInv, Replays, Wt
  <2> QED  BY <2>2, <2>3 DEF CallInv
<1>4. Apart'
  BY <1>1 DEF IInv, Apart, Wt
<1> QED  BY <1>1, <1>3, <1>4 DEF IInv

LEMMA NextInv == IInv /\ [Next]_vars => IInv'
PROOF
<1> SUFFICES ASSUME IInv, [Next]_vars PROVE IInv'
  OBVIOUS
<1>1. ASSUME NEW p \in Procs, Step(p) PROVE IInv'
  <2>1. GitTypeOK /\ Apart /\ CallInv(p) /\ CallOK(p)
    BY DEF IInv, CallInv
  <2>2. GitTypeOK'
    BY <1>1, <2>1, StepType
  <2>3. ASSUME NEW q \in Procs PROVE CallInv(q)'
    BY <1>1, <2>1, OwnStep, OthersStep
  <2>4. ASSUME NEW q \in Procs PROVE Home(wts'[Dir[q]]) = Home(Wt(q))
    <3>1. CASE q = p
      BY <1>1, <2>1, <3>1, OwnKept
    <3>2. CASE q # p
      BY <1>1, <2>1, <3>2, OthersWorktrees DEF Wt
    <3> QED  BY <3>1, <3>2
  <2>5. Apart'
    BY <2>1, <2>4 DEF Apart, Wt
  <2> QED  BY <2>2, <2>3, <2>5 DEF IInv
<1>2. CASE UNCHANGED vars
  BY <1>2 DEF vars, repo, IInv, GitTypeOK, Apart, CallInv, CallOK, Saved, Holding, Replays, Tidy, Wt
<1> QED  BY <1>1, <1>2, ForeignStep DEF Next

LEMMA Invariance == Spec => []IInv
PROOF
BY InitInv, NextInv, PTL DEF Spec

(***************************************************************************)
(* What a step may not do.                                                 *)
(***************************************************************************)
\* A rebase does not stand still.
LEMMA PcMoves ==
  ASSUME GitTypeOK, NEW p \in Procs, CallOK(p), Step(p), job[p].pc \in {"rebase", "abort"}
  PROVE  job'[p] # job[p]
PROOF
<1>1. Calling(job[p])
  BY CallAt
<1>2. rebase(p) \/ abort(p) \/ Die(p)
  BY Zenon DEF Step, At, Call, GitFails, resolveRef, backupRef, casMove, casDelete, CreateBranch, resignOld,
     resignRange, resignReported, currentBranch, newHead, merge, undoDryRun, WorktreeAdd, WorktreeRemove
<1>3. CASE abort(p) \/ Die(p)
  <2>1. job'[p] = Idle
    BY <1>3, Undone, EndIs DEF Die, GitTypeOK
  <2> QED  BY <2>1 DEF Idle
<1>4. CASE rebase(p)
  <2>1. PICK k, c, pc : /\ k = [job[p] EXCEPT !.pc = pc] \/ k = [job[p] EXCEPT !.pc = pc, !.new = c]
                        /\ pc \in {"abort", "newHead"} /\ Go(p, k) /\ job[p].pc = "rebase"
    BY <1>4 DEF rebase, At
  <2>2. job'[p] = k
    BY <2>1, GoIs
  <2>3. k.pc = pc
    BY <1>1, <2>1 DEF Calling
  <2> QED  BY <2>1, <2>2, <2>3
<1> QED  BY <1>2, <1>3, <1>4

LEMMA StepBacksUp ==
  ASSUME IInv, NEW p \in Procs, Step(p), NEW b \in Branches,
         refs[b] # refs'[b], refs[b] # Absent, ~isAncestor(refs[b], refs'[b])
  PROVE  <<b, refs[b]>> \in backups \/ Forced(p, b) \/ Overruns(p, b)
PROOF
<1>1. GitTypeOK /\ CallInv(p) /\ Saved(p) /\ Replays(p) /\ CallOK(p)
  BY DEF IInv, CallInv
<1>2. CASE Swaps(p, b)
  BY <1>1, <1>2 DEF Swaps, Saved, Holding
<1>3. CASE Creates(p, b)
  BY <1>3 DEF Creates
<1>4. CASE Replants(p, b) \/ Reverts(p, b)
  <2>1. job[p].pc \in {"rebase", "abort"} /\ job[p].op = "Rebase" /\ Holding(job[p])
    BY <1>4 DEF Replants, Reverts, At, Holding
  <2>2. job[p].ref = b
    BY <1>1, <1>4, GitAssumption DEF Replants, Reverts, Replays, At
  <2>3. <<b, job[p].old>> \in backups
    BY <1>1, <2>1, <2>2 DEF Saved
  <2>4. job'[p] # job[p]
    BY <1>1, <2>1, PcMoves
  <2> QED  BY <2>1, <2>2, <2>3, <2>4 DEF Overruns
<1> QED  BY <1>1, <1>2, <1>3, <1>4, RefsStep DEF Extends

LEMMA NextBacksUp ==
  ASSUME IInv, Next, NEW b \in Branches,
         refs[b] # refs'[b], refs[b] # Absent, ~isAncestor(refs[b], refs'[b])
  PROVE  <<b, refs[b]>> \in backups \/ \E p \in Procs : Forced(p, b) \/ Overruns(p, b)
PROOF
<1>1. ~CommitByOthers
  BY ForeignRefs DEF IInv, Extends
<1> QED  BY <1>1, StepBacksUp DEF Next

LEMMA Aborted ==
  ASSUME GitTypeOK, NEW p \in Procs, CallInv(p), Step(p), Clean(job[p].wt),
         job[p].pc \in {"abort", "undo", "undoFailed"}, ~Die(p), last'[p].aborted
  PROVE  Clean(wts'[Dir[p]]) /\ wts'[Dir[p]].branch = job[p].wt.branch
PROOF
<1>1. Calling(job[p]) /\ job[p].op \in {"Rebase", "Merge"} /\ (job[p].pc # "abort" => job[p].op = "Merge")
  BY CallAt DEF CallInv
<1>2. job[p].wt \in Worktrees /\ (Wt(p) = job[p].wt \/ Wt(p) = Stopped(job[p]))
  BY <1>1 DEF Calling, CallInv, Tidy
<1>3. abort(p) \/ undoDryRun(p)
  BY Zenon DEF Step, At, Call, GitFails, resolveRef, backupRef, casMove, casDelete, CreateBranch, resignOld,
     resignRange, resignReported, currentBranch, rebase, newHead, merge, WorktreeAdd, WorktreeRemove
<1>6. \A r : ~End(p, r, FALSE)
  BY EndIs
<1>4. CASE job[p].op = "Merge"
  <2>1. wts' = [wts EXCEPT ![Dir[p]].merging = FALSE]
    BY <1>3, <1>4, <1>6 DEF abort, undoDryRun
  <2>3. wts'[Dir[p]] = [Wt(p) EXCEPT !.merging = FALSE]
    BY <2>1, OwnOK DEF Wt
  <2>2. Wt(p).rebasing = NoBranch /\ Wt(p).branch = job[p].wt.branch /\ Wt(p) \in Worktrees
    BY <1>2, <1>4, OwnOK DEF Stopped, Clean, Worktrees, WorktreeOK
  <2> QED  BY <2>2, <2>3 DEF Clean, Worktrees
<1>5. CASE job[p].op = "Rebase"
  <2>1. abort(p)
    BY <1>1, <1>3, <1>5 DEF undoDryRun, At
  <2>2. wts'[Dir[p]] = IF Wt(p).rebasing # NoBranch THEN On(Wt(p).rebasing) ELSE Wt(p)
    BY <1>5, <1>6, <2>1, OwnOK DEF abort, Wt
  <2> QED  BY <1>2, <1>5, <2>2 DEF Stopped, Clean, On, Worktrees
<1> QED  BY <1>1, <1>4, <1>5

LEMMA StepCleans ==
  ASSUME GitTypeOK, NEW p \in Procs, CallInv(p), Step(p), Clean(job[p].wt),
         ~At(p, "idle"), job'[p].pc = "idle", last'[p] # NoCall
  PROVE  \/ Clean(wts'[Dir[p]]) /\ wts'[Dir[p]].branch = job[p].wt.branch
         \/ ~last'[p].aborted /\ job[p].pc \in {"abort", "undo", "undoFailed"}
PROOF
<1>1. ~Die(p)
  BY DEF Die, GitTypeOK
<1>2. CASE job[p].pc \in {"abort", "undo", "undoFailed"}
  BY <1>1, <1>2, Aborted
<1>3. CASE job[p].pc \notin {"abort", "undo", "undoFailed"}
  <2>1. Wt(p) = job[p].wt
    BY <1>3 DEF CallInv, Tidy, At
  <2>2. wts'[Dir[p]] = Wt(p)
    BY <1>3, OwnWorktree DEF CallInv, undoDryRun, abort, At
  <2> QED  BY <2>1, <2>2
<1> QED  BY <1>2, <1>3

(***************************************************************************)
(* Histories.                                                              *)
(***************************************************************************)
LEMMA HistoryPast ==
  ASSUME NEW c, IsHistory(c), NEW a \in Ancestors(c)
  PROVE  IsHistory(a) /\ Ancestors(a) \subseteq Ancestors(c)
PROOF
<1>1. Ancestors(a) \subseteq Ancestors(c)
  BY DEF IsHistory, Ancestors
<1> QED  BY <1>1 DEF IsHistory

\* A commit's past is its parents and theirs.
LEMMA PastIs ==
  ASSUME NEW tree, NEW parents, NEW sig, NEW c, c = Commit(tree, parents, sig)
  PROVE  /\ c.tree = tree /\ c.parents = parents /\ c.sig = sig
         /\ \A a : a \in c.past <=> \E p \in ToSet(parents) : a \in Ancestors(p)
PROOF
BY DEF Commit, Ancestors

LEMMA HistoryParts ==
  ASSUME NEW c, IsHistory(c)
  PROVE  /\ c = Commit(c.tree, c.parents, c.sig) /\ c.parents \in Seq(c.past)
         /\ IsFiniteSet(c.past) /\ c \notin c.past
         /\ \A b \in c.past : b.past \subseteq c.past
PROOF
BY DEF IsHistory, Ancestors

LEMMA ParentsAreHistories ==
  ASSUME NEW c, IsHistory(c), NEW i \in DOMAIN c.parents
  PROVE  c.parents[i] \in c.past /\ IsHistory(c.parents[i])
PROOF
<1>1. c.parents[i] \in c.past
  BY HistoryParts
<1>2. c.parents[i] \in Ancestors(c)
  BY <1>1 DEF Ancestors
<1> QED  BY <1>1, <1>2, HistoryPast

\* What is committed over histories is one.
LEMMA NewHistory ==
  ASSUME NEW tree, NEW U, NEW parents \in Seq(U), NEW sig, \A p \in ToSet(parents) : IsHistory(p)
  PROVE  IsHistory(Commit(tree, parents, sig))
PROOF
<1> DEFINE c == Commit(tree, parents, sig)
<1>1. /\ c.tree = tree /\ c.parents = parents /\ c.sig = sig
      /\ \A a : a \in c.past <=> \E p \in ToSet(parents) : a \in Ancestors(p)
  BY PastIs
<1>2. c = Commit(c.tree, c.parents, c.sig)
  BY <1>1
<1>3. parents \in Seq(c.past)
  <2>1. \A i \in 1 .. Len(parents) : parents[i] \in c.past
    BY <1>1 DEF ToSet, Ancestors
  <2>2. Len(parents) \in Nat /\ parents = [i \in 1 .. Len(parents) |-> parents[i]]
    OBVIOUS
  <2> HIDE DEF c
  <2> QED  BY <2>1, <2>2
<1>4. IsFiniteSet(c.past)
  <2> DEFINE reach == [i \in DOMAIN parents |-> Ancestors(parents[i])]
             R == {reach[i] : i \in DOMAIN parents}
  <2>1. IsFiniteSet(DOMAIN parents)
    BY FS_Interval
  <2>2. IsFiniteSet(R)
    <3>1. reach \in Surjection(DOMAIN parents, R)
      BY DEF Surjection
    <3> HIDE DEF R, reach
    <3> QED  BY <2>1, <3>1, FS_Surjection
  <2>3. ASSUME NEW T \in R PROVE IsFiniteSet(T)
    <3>1. PICK i \in DOMAIN parents : T = {parents[i]} \cup parents[i].past
      BY DEF Ancestors
    <3>2. IsHistory(parents[i])
      BY DEF ToSet
    <3>3. IsFiniteSet(parents[i].past)
      BY <3>2, HistoryParts
    <3>4. T = parents[i].past \cup {parents[i]}
      BY <3>1
    <3> QED  BY <3>3, <3>4, FS_AddElement
  <2>4. IsFiniteSet(UNION R)
    BY <2>2, <2>3, FS_UNION
  <2>5. c.past = UNION R
    <3>1. \A a : a \in c.past <=> \E i \in DOMAIN parents : a \in Ancestors(parents[i])
      BY <1>1 DEF ToSet
    <3>2. \A a : a \in UNION R <=> \E i \in DOMAIN parents : a \in Ancestors(parents[i])
      OBVIOUS
    <3> HIDE DEF c, R
    <3> QED  BY <3>1, <3>2
  <2> QED  BY <2>4, <2>5
<1> HIDE DEF c
<1>5. c \notin c.past
  <2>1. SUFFICES ASSUME NEW p \in ToSet(parents), c \in Ancestors(p) PROVE FALSE
    BY <1>1
  <2>2. p \in c.past
    BY <1>1 DEF Ancestors
  <2>3. IsHistory(p) /\ p \notin p.past
    BY HistoryParts
  <2>4. c.past \subseteq p.past
    BY <2>1, <2>3, HistoryParts DEF Ancestors
  <2> QED  BY <2>2, <2>3, <2>4
<1>6. \A b \in c.past : b.past \subseteq c.past
  <2>1. SUFFICES ASSUME NEW b \in c.past PROVE b.past \subseteq c.past
    OBVIOUS
  <2>2. PICK p \in ToSet(parents) : b \in Ancestors(p)
    BY <1>1
  <2>3. Ancestors(b) \subseteq Ancestors(p)
    BY <2>2, HistoryPast
  <2> QED  BY <1>1, <2>3 DEF Ancestors
<1>7. ASSUME NEW a \in c.past PROVE IsHistory(a)
  <2>1. PICK p \in ToSet(parents) : a \in Ancestors(p)
    BY <1>1
  <2> QED  BY <2>1, HistoryPast
<1>8. \A a \in Ancestors(c) :
        /\ a = Commit(a.tree, a.parents, a.sig)
        /\ a.parents \in Seq(a.past) /\ IsFiniteSet(a.past)
        /\ a \notin a.past /\ \A b \in a.past : b.past \subseteq a.past
  BY <1>1, <1>2, <1>3, <1>4, <1>5, <1>6, <1>7, HistoryParts DEF Ancestors
<1> QED  BY <1>8, <1>1 DEF IsHistory, c

LEMMA AbsentHistory == IsHistory(Absent)
PROOF
<1>1. <<>> \in Seq({}) /\ ToSet(<<>>) = {}
  BY DEF ToSet
<1>2. Absent = Commit({}, <<>>, "absent")
  <2>1. UNION {{p} \cup p.past : p \in ToSet(<<>>)} = {}
    BY <1>1
  <2> QED  BY <2>1 DEF Absent, Commit
<1> QED  BY <1>1, <1>2, NewHistory

(***************************************************************************)
(* The order of a range.                                                   *)
(***************************************************************************)
LEMMA SetInduction ==
  ASSUME NEW S, 0 \in S, \A n \in Nat : n \in S => n + 1 \in S
  PROVE  Nat \subseteq S
PROOF
<1> SUFFICES ASSUME Nat \ S # {} PROVE FALSE
  OBVIOUS
<1> DEFINE below == {mn \in Nat \X Nat : mn[1] < mn[2]}
           T == Nat \ S
<1>1. IsWellFoundedOn(below, Nat)
  BY NatLessThanWellFounded DEF OpToRel
<1>2. T \subseteq Nat /\ T # {}
  OBVIOUS
<1> HIDE DEF below, T
<1>3. PICK x \in T : \A y \in T : <<y, x>> \notin below
  BY <1>1, <1>2, WFMin
<1> USE DEF below, T
<1>4. x # 0 /\ x - 1 \in Nat /\ x - 1 < x
  BY <1>3
<1>5. x - 1 \notin T
  BY <1>3, <1>4
<1>6. x - 1 + 1 \in S
  BY <1>4, <1>5
<1> QED  BY <1>3, <1>4, <1>6

\* Some commit of a set has no descendant in it.
LEMMA Youngest ==
  ASSUME NEW S, IsFiniteSet(S), S # {}, \A a \in S : IsHistory(a)
  PROVE  \E m \in S : \A a \in S : m \notin a.past
PROOF
<1> DEFINE N == {n \in Nat : \A T \in SUBSET S : Cardinality(T) = n + 1 => \E m \in T : \A a \in T : m \notin a.past}
<1>1. \A T \in SUBSET S : IsFiniteSet(T) /\ Cardinality(T) \in Nat
  BY FS_Subset, FS_CardinalityType
<1>2. 0 \in N
  <2>1. SUFFICES ASSUME NEW T \in SUBSET S, Cardinality(T) = 1 PROVE \E m \in T : \A a \in T : m \notin a.past
    OBVIOUS
  <2>2. PICK x : T = {x}
    BY <1>1, <2>1, FS_Singleton
  <2>3. x \notin x.past
    BY <2>2, HistoryParts
  <2> QED  BY <2>2, <2>3
<1>3. ASSUME NEW n \in Nat, n \in N PROVE n + 1 \in N
  <2>1. SUFFICES ASSUME NEW T \in SUBSET S, Cardinality(T) = n + 2 PROVE \E m \in T : \A a \in T : m \notin a.past
    OBVIOUS
  <2>2. PICK x : x \in T
    BY <1>1, <2>1, FS_EmptySet
  <2>3. T \ {x} \in SUBSET S /\ Cardinality(T \ {x}) = n + 1
    BY <1>1, <2>1, <2>2, FS_RemoveElement
  <2>4. PICK m \in T \ {x} : \A a \in T \ {x} : m \notin a.past
    BY <1>3, <2>3
  <2>5. CASE m \notin x.past
    BY <2>4, <2>5
  <2>6. CASE m \in x.past
    <3>1. ASSUME NEW a \in T, x \in a.past PROVE FALSE
      <4>1. IsHistory(a) /\ IsHistory(x)
        BY <2>2
      <4>2. m \in a.past
        BY <2>6, <3>1, <4>1, HistoryParts
      <4>3. a # x
        BY <3>1, <4>1, HistoryParts
      <4> QED  BY <2>4, <4>2, <4>3
    <3> QED  BY <2>2, <3>1
  <2> QED  BY <2>5, <2>6
<1> HIDE DEF N
<1>4. Nat \subseteq N
  BY <1>2, <1>3, SetInduction
<1>5. Cardinality(S) \in Nat /\ Cardinality(S) # 0
  BY FS_CardinalityType, FS_EmptySet
<1>6. Cardinality(S) - 1 \in N /\ Cardinality(S) - 1 + 1 = Cardinality(S)
  BY <1>4, <1>5
<1> QED  BY <1>6 DEF N

\* Every parent before its children, and each commit once.
IsOrder(order, S) ==
  /\ order \in [1 .. Cardinality(S) -> S]
  /\ ToSet(order) = S
  /\ \A i, j \in DOMAIN order : order[i] \in order[j].past => i < j

LEMMA OrderExists ==
  ASSUME NEW S, IsFiniteSet(S), \A a \in S : IsHistory(a)
  PROVE  \E order : IsOrder(order, S)
PROOF
<1> DEFINE N == {n \in Nat : \A T \in SUBSET S : Cardinality(T) = n => \E order : IsOrder(order, T)}
<1>1. \A T \in SUBSET S : IsFiniteSet(T) /\ Cardinality(T) \in Nat
  BY FS_Subset, FS_CardinalityType
<1>2. 0 \in N
  <2>1. SUFFICES ASSUME NEW T \in SUBSET S, Cardinality(T) = 0 PROVE \E order : IsOrder(order, T)
    OBVIOUS
  <2>2. T = {}
    BY <1>1, <2>1, FS_EmptySet
  <2>3. IsOrder([i \in 1 .. 0 |-> i], T)
    BY <2>1, <2>2 DEF IsOrder, ToSet
  <2> QED  BY <2>3
<1>3. ASSUME NEW n \in Nat, n \in N PROVE n + 1 \in N
  <2>1. SUFFICES ASSUME NEW T \in SUBSET S, Cardinality(T) = n + 1 PROVE \E order : IsOrder(order, T)
    OBVIOUS
  <2>2. PICK m \in T : \A a \in T : m \notin a.past
    <3>1. T # {}
      BY <2>1, FS_EmptySet
    <3> QED  BY <1>1, <3>1, Youngest
  <2>3. T \ {m} \in SUBSET S /\ Cardinality(T \ {m}) = n
    <3>1. Cardinality(T \ {m}) = Cardinality(T) - 1
      BY <1>1, <2>2, FS_RemoveElement
    <3> QED  BY <2>1, <3>1
  <2>4. PICK old : IsOrder(old, T \ {m})
    BY <1>3, <2>3
  <2> DEFINE new == [i \in 1 .. n + 1 |-> IF i = n + 1 THEN m ELSE old[i]]
  <2>5. /\ DOMAIN old = 1 .. n /\ \A i \in 1 .. n : old[i] \in T \ {m}
        /\ \A x \in T \ {m} : \E i \in 1 .. n : x = old[i]
        /\ \A i, j \in 1 .. n : old[i] \in old[j].past => i < j
    BY <2>3, <2>4 DEF IsOrder, ToSet
  <2>6. new \in [1 .. n + 1 -> T]
    BY <2>2, <2>5
  <2>7. ToSet(new) = T
    <3>1. \A x \in T : \E i \in 1 .. n + 1 : new[i] = x
      <4>1. new[n + 1] = m /\ \A i \in 1 .. n : new[i] = old[i]
        OBVIOUS
      <4> QED  BY <2>5, <4>1
    <3> HIDE DEF new
    <3> QED  BY <2>6, <3>1 DEF ToSet
  <2>8. ASSUME NEW i \in 1 .. n + 1, NEW j \in 1 .. n + 1, new[i] \in new[j].past PROVE i < j
    <3>1. i # n + 1
      BY <2>2, <2>6, <2>8
    <3>2. CASE j = n + 1
      BY <3>1, <3>2
    <3>3. CASE j # n + 1
      BY <2>5, <2>8, <3>1, <3>3
    <3> QED  BY <3>2, <3>3
  <2> HIDE DEF new
  <2>9. IsOrder(new, T)
    BY <2>1, <2>6, <2>7, <2>8 DEF IsOrder
  <2> QED  BY <2>9
<1> HIDE DEF N
<1>4. Nat \subseteq N
  BY <1>2, <1>3, SetInduction
<1>5. Cardinality(S) \in N
  BY <1>1, <1>4
<1> QED  BY <1>5 DEF N

LEMMA RangeOrder ==
  ASSUME NEW base, NEW head, IsHistory(head)
  PROVE  IsOrder(commitRange(base, head), Ancestors(head) \ Ancestors(base))
PROOF
<1> DEFINE S == Ancestors(head) \ Ancestors(base)
<1>1. IsFiniteSet(S)
  <2>1. IsFiniteSet(Ancestors(head))
    BY HistoryParts, FS_AddElement DEF Ancestors
  <2> QED  BY <2>1, FS_Subset
<1>2. \A a \in S : IsHistory(a)
  BY HistoryPast
<1>3. PICK order : IsOrder(order, S)
  BY <1>1, <1>2, OrderExists
<1>4. commitRange(base, head) = CHOOSE o \in [1 .. Cardinality(S) -> S] :
        /\ ToSet(o) = S
        /\ \A i, j \in DOMAIN o : o[i] \in o[j].past => i < j
  BY DEF commitRange
<1> HIDE DEF S
<1>5. IsOrder(commitRange(base, head), S)
  BY <1>3, <1>4 DEF IsOrder
<1> QED  BY <1>5 DEF S

\* A commit's place in the order is its own.
LEMMA OrderOnce ==
  ASSUME NEW S, IsFiniteSet(S), NEW order, IsOrder(order, S)
  PROVE  /\ Len(order) = Cardinality(S) /\ Len(order) \in Nat /\ DOMAIN order = 1 .. Len(order)
         /\ \A i, j \in DOMAIN order : order[i] = order[j] => i = j
PROOF
<1> DEFINE n == Cardinality(S)
<1>1. n \in Nat
  BY FS_CardinalityType
<1>2. order \in [1 .. n -> S] /\ \A x \in S : \E i \in 1 .. n : order[i] = x
  BY DEF IsOrder, ToSet
<1>3. order \in Seq(S) /\ Len(order) = n
  BY <1>1, <1>2
<1>4. order \in Surjection(1 .. n, S)
  BY <1>2 DEF Surjection
<1>5. IsFiniteSet(1 .. n) /\ Cardinality(1 .. n) = n
  BY <1>1, FS_Interval
<1>6. order \in Injection(1 .. n, S)
  BY <1>4, <1>5, FS_SurjSameCardinalityImpliesInj
<1> HIDE DEF n
<1> QED  BY <1>1, <1>2, <1>3, <1>6 DEF Injection, IsInjective, n

\* The commits of P, each once and every parent before its children.
IsListing(commits, P) ==
  /\ commits \in Seq(P) /\ ToSet(commits) = P
  /\ \A i, j \in DOMAIN commits : commits[i] = commits[j] => i = j
  /\ \A i, j \in DOMAIN commits : commits[i] \in commits[j].past => i < j

\* The beginning of a range.
LEMMA Beginning ==
  ASSUME NEW S, IsFiniteSet(S), NEW order, IsOrder(order, S), NEW k \in 1 .. Len(order)
  PROVE  LET commits == SubSeq(order, 1, k) IN
         /\ IsListing(commits, ToSet(commits)) /\ ToSet(commits) \subseteq S
         /\ Len(commits) = k /\ Last(commits) = order[k] /\ order[k] \in ToSet(commits)
         /\ \A a \in S \cap order[k].past : a \in ToSet(commits)
PROOF
<1> DEFINE n == Len(order)
           commits == SubSeq(order, 1, k)
<1>1. /\ n \in Nat /\ DOMAIN order = 1 .. n
      /\ \A i, j \in 1 .. n : order[i] = order[j] => i = j
  BY OrderOnce
<1>2. /\ \A i \in 1 .. n : order[i] \in S
      /\ \A x \in S : \E i \in 1 .. n : x = order[i]
      /\ \A i, j \in 1 .. n : order[i] \in order[j].past => i < j
  BY <1>1 DEF IsOrder, ToSet
<1>3. order \in Seq(S)
  BY FS_CardinalityType DEF IsOrder
<1> HIDE DEF n
<1>4. k \in 1 .. n
  BY DEF n
<1>5. Len(commits) = k /\ DOMAIN commits = 1 .. k /\ \A i \in 1 .. k : commits[i] = order[i] /\ i \in 1 .. n
  BY <1>1, <1>3, <1>4 DEF n
<1>6. /\ ToSet(commits) = {order[i] : i \in 1 .. k} /\ ToSet(commits) \subseteq S
      /\ order[k] \in ToSet(commits) /\ Last(commits) = order[k]
  <2>1. \A x : x \in ToSet(commits) <=> \E i \in 1 .. k : x = order[i]
    BY <1>5 DEF ToSet
  <2>2. k \in 1 .. k
    BY <1>1, <1>4
  <2> QED  BY <1>2, <1>5, <2>1, <2>2 DEF Last
<1>7. commits \in Seq(ToSet(commits))
  <2>1. commits \in Seq(S)
    BY <1>1, <1>3, <1>4 DEF n
  <2>2. \A i \in 1 .. Len(commits) : commits[i] \in ToSet(commits)
    BY <1>5, <1>6
  <2> HIDE DEF commits
  <2> QED  BY <2>1, <2>2
<1> HIDE DEF commits
<1>8. ASSUME NEW a \in S, a \in order[k].past PROVE a \in ToSet(commits)
  <2>1. PICK i \in 1 .. n : a = order[i]
    BY <1>2
  <2>2. i < k
    BY <1>2, <1>4, <1>8, <2>1
  <2>3. i \in 1 .. k
    BY <1>1, <1>4, <2>2
  <2> QED  BY <1>6, <2>1, <2>3
<1>9. IsListing(commits, ToSet(commits))
  BY <1>1, <1>2, <1>5, <1>7 DEF IsListing
<1> QED  BY <1>5, <1>6, <1>8, <1>9 DEF commits

(***************************************************************************)
(* The pass of a resign.                                                   *)
(***************************************************************************)
IsPass(f, n, commits, signature) ==
  f = [k \in 0 .. n |-> IF k = 0 THEN <<>> ELSE recommit(f[k - 1], commits[k], signature)]

LEMMA PassExists ==
  ASSUME NEW n \in Nat, NEW commits, NEW signature
  PROVE  \E f : IsPass(f, n, commits, signature)
PROOF
<1> DEFINE N == {m \in Nat : \E f : IsPass(f, m, commits, signature)}
<1>1. 0 \in N
  <2>1. IsPass([k \in 0 .. 0 |-> <<>>], 0, commits, signature)
    BY DEF IsPass
  <2> QED  BY <2>1
<1>2. ASSUME NEW m \in Nat, m \in N PROVE m + 1 \in N
  <2>1. PICK f : IsPass(f, m, commits, signature)
    BY <1>2
  <2> DEFINE next == recommit(f[m], commits[m + 1], signature)
             g == [k \in 0 .. m + 1 |-> IF k = m + 1 THEN next ELSE f[k]]
  <2>2. ASSUME NEW k \in 0 .. m + 1
        PROVE  g[k] = IF k = 0 THEN <<>> ELSE recommit(g[k - 1], commits[k], signature)
    <3>1. CASE k = m + 1
      <4>1. g[k - 1] = f[m] /\ g[k] = next
        BY <3>1
      <4> QED  BY <3>1, <4>1
    <3>2. CASE k # m + 1
      <4>1. k \in 0 .. m /\ g[k] = f[k]
        BY <3>2
      <4>2. k # 0 => g[k - 1] = f[k - 1]
        BY <4>1
      <4>3. f[k] = IF k = 0 THEN <<>> ELSE recommit(f[k - 1], commits[k], signature)
        BY <2>1, <4>1 DEF IsPass
      <4> QED  BY <4>1, <4>2, <4>3
    <3> QED  BY <3>1, <3>2
  <2> HIDE DEF next
  <2>3. IsPass(g, m + 1, commits, signature)
    BY <2>2 DEF IsPass
  <2> QED  BY <2>3
<1> HIDE DEF N
<1>3. n \in N
  BY <1>1, <1>2, SetInduction
<1> QED  BY <1>3 DEF N

LEMMA RemapRuns ==
  ASSUME NEW commits, NEW signature, Len(commits) \in Nat
  PROVE  \E f : IsPass(f, Len(commits), commits, signature) /\ remap(commits, signature) = f[Len(commits)]
PROOF
<1> DEFINE f == CHOOSE f : IsPass(f, Len(commits), commits, signature)
<1>1. IsPass(f, Len(commits), commits, signature)
  BY PassExists
<1>2. remap(commits, signature) = f[Len(commits)]
  BY DEF remap, IsPass
<1> QED  BY <1>1, <1>2

newParents(m, c) == [i \in DOMAIN c.parents |-> Remapped(m, c.parents[i])]

\* Each commit of the range is made again over its parents' new selves.
IsRemap(target, S, signature) ==
  /\ DOMAIN target = S
  /\ \A c \in S : target[c] = Commit(c.tree, newParents(target, c), signature)

LEMMA RemapIs ==
  ASSUME NEW S, \A a \in S : IsHistory(a), NEW commits, IsListing(commits, S), NEW signature
  PROVE  IsRemap(remap(commits, signature), S, signature)
PROOF
<1> DEFINE n == Len(commits)
           Made(m, k) == /\ DOMAIN m = {commits[i] : i \in 1 .. k}
                         /\ \A i \in 1 .. k : m[commits[i]] = Commit(commits[i].tree, newParents(m, commits[i]), signature)
<1>1. /\ n \in Nat /\ DOMAIN commits = 1 .. n
      /\ \A i, j \in 1 .. n : commits[i] = commits[j] => i = j
  BY DEF IsListing
<1>2. /\ \A i \in 1 .. n : commits[i] \in S
      /\ S = {commits[i] : i \in 1 .. n}
      /\ \A i, j \in 1 .. n : commits[i] \in commits[j].past => i < j
  BY <1>1 DEF IsListing, ToSet
<1>3. PICK f : IsPass(f, n, commits, signature) /\ remap(commits, signature) = f[n]
  BY <1>1, RemapRuns
<1> DEFINE N == {k \in Nat : k <= n => Made(f[k], k)}
<1> HIDE DEF n
<1>4. 0 \in N
  <2>1. f[0] = <<>>
    BY <1>1, <1>3 DEF IsPass
  <2>2. DOMAIN f[0] = {} /\ 1 .. 0 = {}
    BY <2>1
  <2> QED  BY <2>2
<1>5. ASSUME NEW k \in Nat, k \in N PROVE k + 1 \in N
  <2> SUFFICES ASSUME k + 1 <= n PROVE Made(f[k + 1], k + 1)
    OBVIOUS
  <2> DEFINE m == f[k]
             c == commits[k + 1]
             new == f[k + 1]
  <2>1. k + 1 \in 1 .. n /\ \A i \in 1 .. k + 1 : i \in 1 .. n
    BY <1>1
  <2>2. Made(m, k)
    BY <1>1, <1>5
  <2>3. new = recommit(m, c, signature)
    BY <1>1, <1>3, <2>1 DEF IsPass
  <2> HIDE DEF new, m
  <2>4. /\ DOMAIN new = DOMAIN m \cup {c}
        /\ new[c] = Commit(c.tree, newParents(m, c), signature)
        /\ \A x \in DOMAIN m : x # c => new[x] = m[x]
    BY <2>3 DEF recommit, commitTree, newParents
  <2>5. ASSUME NEW i \in 1 .. k + 1 PROVE newParents(new, commits[i]) = newParents(m, commits[i])
    <3>1. ASSUME NEW j \in DOMAIN commits[i].parents
          PROVE  Remapped(new, commits[i].parents[j]) = Remapped(m, commits[i].parents[j])
      <4>1. commits[i].parents[j] \in commits[i].past
        BY <1>2, <2>1, ParentsAreHistories
      <4>2. commits[i].parents[j] # c
        BY <1>2, <2>1, <4>1
      <4> QED  BY <2>4, <4>2 DEF Remapped
    <3> QED  BY <3>1 DEF newParents
  <2>6. DOMAIN new = {commits[i] : i \in 1 .. k + 1}
    <3>1. DOMAIN m = {commits[i] : i \in 1 .. k}
      BY <2>2
    <3>2. \A i : i \in 1 .. k + 1 <=> i \in 1 .. k \/ i = k + 1
      OBVIOUS
    <3> QED  BY <2>4, <3>1, <3>2
  <2>7. ASSUME NEW i \in 1 .. k + 1
        PROVE  new[commits[i]] = Commit(commits[i].tree, newParents(new, commits[i]), signature)
    <3>1. CASE i = k + 1
      BY <2>4, <2>5, <3>1
    <3>2. CASE i # k + 1
      <4>1. i \in 1 .. k
        BY <3>2
      <4>2. commits[i] \in DOMAIN m /\ m[commits[i]] = Commit(commits[i].tree, newParents(m, commits[i]), signature)
        BY <2>2, <4>1
      <4>3. commits[i] # c
        BY <1>1, <2>1, <3>2
      <4> QED  BY <2>4, <2>5, <4>2, <4>3
    <3> QED  BY <3>1, <3>2
  <2> QED  BY <2>6, <2>7 DEF new
<1> HIDE DEF N
<1>6. n \in N
  BY <1>1, <1>4, <1>5, SetInduction
<1>7. Made(f[n], n)
  BY <1>1, <1>6 DEF N
<1> QED  BY <1>2, <1>3, <1>7 DEF IsRemap

\* What base reaches, base's past reaches: outside the range nothing is remapped.
LEMMA OutsideStays ==
  ASSUME NEW base, IsHistory(base), NEW target, DOMAIN target \cap Ancestors(base) = {},
         NEW c \in Ancestors(base), NEW a \in Ancestors(c)
  PROVE  Remapped(target, a) = a
PROOF
<1>1. a \in Ancestors(base)
  BY HistoryPast
<1> QED  BY <1>1 DEF Remapped

\* The new history consists of the new selves of the old one.
Renewed(target, c) ==
  /\ IsHistory(Remapped(target, c))
  /\ Ancestors(Remapped(target, c)) = {Remapped(target, a) : a \in Ancestors(c)}

LEMMA RenewedOver ==
  ASSUME NEW S, NEW target, NEW signature, IsRemap(target, S, signature), NEW c \in S, IsHistory(c),
         \A i \in DOMAIN c.parents : Renewed(target, c.parents[i])
  PROVE  Renewed(target, c)
PROOF
<1> DEFINE new == target[c]
           parents == newParents(target, c)
<1>1. new = Commit(c.tree, parents, signature) /\ Remapped(target, c) = new
  BY DEF IsRemap, Remapped
<1>2. /\ DOMAIN parents = DOMAIN c.parents
      /\ \A i \in DOMAIN c.parents : parents[i] = Remapped(target, c.parents[i])
      /\ c.parents \in Seq(c.past)
  BY HistoryParts DEF newParents
<1>3. parents \in Seq(ToSet(parents))
  <2>1. DOMAIN c.parents = 1 .. Len(c.parents) /\ Len(c.parents) \in Nat
    BY <1>2
  <2>2. parents = [i \in 1 .. Len(c.parents) |-> parents[i]]
    BY <2>1 DEF newParents
  <2>3. \A i \in 1 .. Len(c.parents) : parents[i] \in ToSet(parents)
    BY <1>2, <2>1 DEF ToSet
  <2> HIDE DEF parents
  <2> QED  BY <2>1, <2>2, <2>3
<1>4. \A q \in ToSet(parents) : IsHistory(q)
  BY <1>2 DEF ToSet, Renewed
<1>5. IsHistory(new)
  BY <1>1, <1>3, <1>4, NewHistory
<1>6. \A a : a \in new.past <=> \E q \in ToSet(parents) : a \in Ancestors(q)
  BY <1>1, PastIs
<1>7. \A a : a \in c.past <=> \E q \in ToSet(c.parents) : a \in Ancestors(q)
  <2>1. c = Commit(c.tree, c.parents, c.sig)
    BY HistoryParts
  <2> QED  BY <2>1, PastIs
<1> HIDE DEF new, parents
<1>8. ASSUME NEW i \in DOMAIN c.parents
      PROVE  Ancestors(parents[i]) = {Remapped(target, a) : a \in Ancestors(c.parents[i])}
  BY <1>2 DEF Renewed
<1>9. ASSUME NEW b \in new.past PROVE \E a \in c.past : b = Remapped(target, a)
  <2>1. PICK i \in DOMAIN c.parents : b \in Ancestors(parents[i])
    BY <1>2, <1>6 DEF ToSet
  <2>2. PICK a \in Ancestors(c.parents[i]) : b = Remapped(target, a)
    BY <1>8, <2>1
  <2>3. a \in c.past
    BY <1>7, <2>2 DEF ToSet
  <2> QED  BY <2>2, <2>3
<1>10. ASSUME NEW a \in c.past PROVE Remapped(target, a) \in new.past
  <2>1. PICK i \in DOMAIN c.parents : a \in Ancestors(c.parents[i])
    BY <1>7 DEF ToSet
  <2>2. Remapped(target, a) \in Ancestors(parents[i])
    BY <1>8, <2>1
  <2> QED  BY <1>2, <1>6, <2>2 DEF ToSet
<1>11. Ancestors(new) = {Remapped(target, a) : a \in Ancestors(c)}
  BY <1>1, <1>9, <1>10 DEF Ancestors
<1> QED  BY <1>1, <1>5, <1>11 DEF Renewed

LEMMA AllRenewed ==
  ASSUME NEW base, IsHistory(base), NEW head, IsHistory(head), NEW target, NEW signature,
         NEW P, IsRemap(target, P, signature),
         P \cap Ancestors(base) = {}, Ancestors(head) \ Ancestors(base) \subseteq P
  PROVE  \A c \in Ancestors(head) : Renewed(target, c)
PROOF
<1> DEFINE S == Ancestors(head) \ Ancestors(base)
<1>1. PICK order : IsOrder(order, S)
  BY RangeOrder
<1>2. IsFiniteSet(S) /\ \A a \in Ancestors(head) : IsHistory(a)
  <2>1. IsFiniteSet(Ancestors(head))
    BY HistoryParts, FS_AddElement DEF Ancestors
  <2> QED  BY <2>1, FS_Subset, HistoryPast
<1>3. ASSUME NEW c \in Ancestors(head), c \notin S PROVE Renewed(target, c)
  <2>1. c \in Ancestors(base) /\ IsHistory(c)
    BY <1>2, <1>3
  <2>2. \A a \in Ancestors(c) : Remapped(target, a) = a
    BY <2>1, OutsideStays DEF IsRemap
  <2>3. Remapped(target, c) = c
    BY <2>2 DEF Ancestors
  <2>4. {Remapped(target, a) : a \in Ancestors(c)} = Ancestors(c)
    BY <2>2
  <2> QED  BY <2>1, <2>3, <2>4 DEF Renewed
<1> DEFINE n == Len(order)
<1>4. n \in Nat /\ DOMAIN order = 1 .. n
  BY <1>1, <1>2, OrderOnce
<1>5. /\ \A i \in 1 .. n : order[i] \in S
      /\ \A x \in S : \E i \in 1 .. n : x = order[i]
      /\ \A i, j \in 1 .. n : order[i] \in order[j].past => i < j
  BY <1>1, <1>4 DEF IsOrder, ToSet
<1> DEFINE N == {k \in Nat : \A i \in 1 .. n : i <= k => Renewed(target, order[i])}
<1>6. S \subseteq P
  OBVIOUS
<1>7. \A x \in S : x \in Ancestors(head)
  OBVIOUS
<1> HIDE DEF n, S
<1>8. 0 \in N
  OBVIOUS
<1>9. ASSUME NEW k \in Nat, k \in N PROVE k + 1 \in N
  <2> SUFFICES ASSUME k + 1 \in 1 .. n PROVE Renewed(target, order[k + 1])
    BY <1>4, <1>9
  <2> DEFINE c == order[k + 1]
  <2>1. c \in S /\ c \in Ancestors(head) /\ IsHistory(c)
    BY <1>2, <1>5, <1>7
  <2>2. ASSUME NEW i \in DOMAIN c.parents PROVE Renewed(target, c.parents[i])
    <3>1. c.parents[i] \in c.past
      BY <2>1, ParentsAreHistories
    <3>2. c.parents[i] \in Ancestors(head)
      BY <2>1, <3>1, HistoryPast DEF Ancestors
    <3>3. CASE c.parents[i] \in S
      <4>1. PICK j \in 1 .. n : c.parents[i] = order[j]
        BY <1>5, <3>3
      <4>2. j < k + 1
        BY <1>5, <3>1, <4>1
      <4>3. j <= k
        BY <4>2
      <4> QED  BY <1>9, <4>1, <4>3
    <3>4. CASE c.parents[i] \notin S
      BY <1>3, <3>2, <3>4
    <3> QED  BY <3>3, <3>4
  <2> QED  BY <1>6, <2>1, <2>2, RenewedOver
<1> HIDE DEF N
<1>10. n \in N
  BY <1>4, <1>8, <1>9, SetInduction
<1>11. \A i \in 1 .. n : Renewed(target, order[i])
  BY <1>4, <1>10 DEF N
<1> QED  BY <1>3, <1>5, <1>11

(***************************************************************************)
(* What a resign makes of a range.                                         *)
(***************************************************************************)
LEMMA RangeIsSeq ==
  ASSUME NEW base, IsHistory(base), NEW head, IsHistory(head)
  PROVE  /\ commitRange(base, head) \in Seq(Ancestors(head) \ Ancestors(base))
         /\ Len(commitRange(base, head)) \in Nat
PROOF
<1> DEFINE S == Ancestors(head) \ Ancestors(base)
<1>1. IsFiniteSet(S) /\ IsOrder(commitRange(base, head), S)
  <2>1. IsFiniteSet(Ancestors(head))
    BY HistoryParts, FS_AddElement DEF Ancestors
  <2> QED  BY <2>1, FS_Subset, RangeOrder
<1>2. Cardinality(S) \in Nat
  BY <1>1, FS_CardinalityType
<1> HIDE DEF S
<1>3. commitRange(base, head) \in Seq(S)
  BY <1>1, <1>2 DEF IsOrder
<1>4. Len(commitRange(base, head)) \in Nat
  BY <1>3
<1> QED  BY <1>3, <1>4 DEF S

LEMMA HeadIsLast ==
  ASSUME NEW base, IsHistory(base), NEW head, IsHistory(head), commitRange(base, head) # <<>>
  PROVE  LET commits == commitRange(base, head)
         IN  /\ head \in Ancestors(head) \ Ancestors(base) /\ commits[Len(commits)] = head
             /\ ToSet(commits) = Ancestors(head) \ Ancestors(base)
PROOF
<1> DEFINE S == Ancestors(head) \ Ancestors(base)
           commits == commitRange(base, head)
           n == Len(commits)
<1>1. IsOrder(commits, S)
  BY RangeOrder
<1>2. IsFiniteSet(S)
  <2>1. IsFiniteSet(Ancestors(head))
    BY HistoryParts, FS_AddElement DEF Ancestors
  <2> QED  BY <2>1, FS_Subset
<1>3. n \in Nat /\ DOMAIN commits = 1 .. n /\ n = Cardinality(S)
  BY <1>1, <1>2, OrderOnce
<1>4. head \in S
  <2>1. SUFFICES ASSUME head \in Ancestors(base) PROVE FALSE
    BY DEF Ancestors
  <2>2. S = {}
    BY <2>1, HistoryPast
  <2>3. n = 0
    BY <1>3, <2>2, FS_EmptySet
  <2>4. commits \in [1 .. 0 -> S]
    BY <1>1, <1>3, <2>3 DEF IsOrder
  <2>5. commits = <<>>
    BY <2>4
  <2> QED  BY <2>5
<1>5. /\ \A i \in 1 .. n : commits[i] \in S
      /\ \A x \in S : \E i \in 1 .. n : x = commits[i]
      /\ \A i, j \in 1 .. n : commits[i] \in commits[j].past => i < j
  BY <1>1, <1>3 DEF IsOrder, ToSet
<1>6. commits[n] = head
  <2>1. PICK i \in 1 .. n : head = commits[i]
    BY <1>4, <1>5
  <2>2. n \in 1 .. n
    BY <1>3, <2>1
  <2>3. commits[n] = head \/ commits[n] \in head.past
    BY <1>5, <2>2 DEF Ancestors
  <2>4. ~(n < i)
    BY <1>3
  <2> HIDE DEF n, commits
  <2> QED  BY <1>5, <2>1, <2>2, <2>3, <2>4
<1> QED  BY <1>1, <1>4, <1>6 DEF IsOrder

\* What Resign makes of the beginning of a range is the history of its last commit,
\* signed or not.
LEMMA ResignSigns ==
  ASSUME NEW base, IsHistory(base), NEW head, IsHistory(head), NEW k \in 1 .. Len(commitRange(base, head)),
         NEW commits, commits = SubSeq(commitRange(base, head), 1, k),
         NEW signature, NEW new, new = remap(commits, signature)[Last(commits)]
  PROVE  /\ IsHistory(new) /\ SameButSigned(Last(commits), new)
         /\ signature # "N" => \A c \in ToSet(commits) \cap Ancestors(new) : c.sig # "N"
PROOF
<1> DEFINE S == Ancestors(head) \ Ancestors(base)
           P == ToSet(commits)
           tip == Last(commits)
           target == remap(commits, signature)
           self == [c \in Ancestors(tip) |-> Remapped(target, c)]
<1>1. IsOrder(commitRange(base, head), S)
  BY RangeOrder
<1>2. IsFiniteSet(S) /\ \A a \in Ancestors(head) : IsHistory(a)
  <2>1. IsFiniteSet(Ancestors(head))
    BY HistoryParts, FS_AddElement DEF Ancestors
  <2> QED  BY <2>1, FS_Subset, HistoryPast
<1>3. IsListing(commits, P) /\ P \subseteq S /\ tip \in P /\ \A a \in S \cap tip.past : a \in P
  <2>1. k \in 1 .. Len(commitRange(base, head)) /\ IsFiniteSet(S) /\ IsOrder(commitRange(base, head), S)
    BY <1>1, <1>2
  <2> HIDE DEF S
  <2> QED  BY <2>1, Beginning
<1> HIDE DEF P, tip
<1>4. IsRemap(target, P, signature)
  <2>1. \A a \in P : IsHistory(a)
    BY <1>2, <1>3
  <2> QED  BY <1>3, <2>1, RemapIs
<1>5. IsHistory(tip) /\ \A a \in Ancestors(tip) : IsHistory(a) /\ a \in Ancestors(head)
  <2>1. tip \in Ancestors(head) /\ IsHistory(tip)
    BY <1>2, <1>3
  <2>2. Ancestors(tip) \subseteq Ancestors(head)
    BY <2>1, HistoryPast
  <2> QED  BY <1>2, <2>1, <2>2
<1>6. P \cap Ancestors(base) = {} /\ Ancestors(tip) \ Ancestors(base) \subseteq P
  <2>1. ASSUME NEW a \in Ancestors(tip), a \notin Ancestors(base) PROVE a \in P
    <3>1. a \in S /\ (a = tip \/ a \in tip.past)
      BY <1>5, <2>1 DEF Ancestors
    <3> QED  BY <1>3, <3>1
  <2> QED  BY <1>3, <2>1
<1>7. new = target[tip] /\ new = Remapped(target, tip)
  BY <1>3, <1>4 DEF IsRemap, Remapped, tip
<1> HIDE DEF target, S
<1>8. \A c \in Ancestors(tip) : Renewed(target, c)
  BY <1>4, <1>5, <1>6, AllRenewed
<1>9. tip \in Ancestors(tip)
  BY DEF Ancestors
<1>10. IsHistory(new) /\ Ancestors(new) = {Remapped(target, a) : a \in Ancestors(tip)}
  BY <1>7, <1>8, <1>9 DEF Renewed
<1>11. self \in [Ancestors(tip) -> Ancestors(new)] /\ self[tip] = new
  BY <1>7, <1>9, <1>10
<1>12. ASSUME NEW c \in Ancestors(tip)
       PROVE  /\ self[c].tree = c.tree
              /\ self[c].parents = [i \in DOMAIN c.parents |-> self[c.parents[i]]]
  <2>1. c.parents \in Seq(c.past) /\ IsHistory(c)
    BY <1>5, HistoryParts
  <2>2. \A i \in DOMAIN c.parents : c.parents[i] \in Ancestors(tip)
    <3>1. \A i \in DOMAIN c.parents : c.parents[i] \in c.past
      BY <2>1
    <3>2. Ancestors(c) \subseteq Ancestors(tip)
      BY <1>5, HistoryPast
    <3> QED  BY <3>1, <3>2 DEF Ancestors
  <2>3. newParents(target, c) = [i \in DOMAIN c.parents |-> self[c.parents[i]]]
    BY <2>2 DEF newParents
  <2>4. self[c] = Remapped(target, c)
    OBVIOUS
  <2>5. CASE c \in P
    <3>1. Remapped(target, c) = Commit(c.tree, newParents(target, c), signature)
      BY <1>4, <2>5 DEF IsRemap, Remapped
    <3>2. self[c].tree = c.tree /\ self[c].parents = newParents(target, c)
      BY <2>4, <3>1, PastIs
    <3> QED  BY <2>3, <3>2
  <2>6. CASE c \notin P
    <3>0. c \in Ancestors(base) /\ DOMAIN target \cap Ancestors(base) = {}
      BY <1>4, <1>6, <2>6 DEF IsRemap
    <3>1. \A a \in Ancestors(c) : Remapped(target, a) = a
      BY <3>0, OutsideStays
    <3>2. \A i \in DOMAIN c.parents : Remapped(target, c.parents[i]) = c.parents[i]
      BY <2>1, <3>1 DEF Ancestors
    <3>3. c.parents = newParents(target, c)
      BY <2>1, <3>2 DEF newParents
    <3>4. self[c] = c
      BY <2>4, <3>1 DEF Ancestors
    <3> QED  BY <2>3, <3>3, <3>4
  <2> QED  BY <2>5, <2>6
<1> HIDE DEF self
<1>13. SameButSigned(tip, new)
  BY <1>11, <1>12 DEF SameButSigned
<1>14. ASSUME signature # "N", NEW c \in P, c \in Ancestors(new) PROVE c.sig # "N"
  <2>1. PICK a \in Ancestors(tip) : c = Remapped(target, a)
    BY <1>10, <1>14
  <2>2. a \in P
    BY <1>4, <1>14, <2>1 DEF IsRemap, Remapped
  <2>3. c = Commit(a.tree, newParents(target, a), signature)
    BY <1>4, <2>1, <2>2 DEF IsRemap, Remapped
  <2>4. c.sig = signature
    BY <2>3, PastIs
  <2> QED  BY <1>14, <2>4
<1> QED  BY <1>10, <1>13, <1>14 DEF P, tip

(***************************************************************************)
(* Merges.                                                                 *)
(***************************************************************************)
IsKept(f, n, c, heads) ==
  f = [k \in 0 .. n |->
         IF k = 0 THEN <<>> ELSE IF isAncestor(heads[k], c) THEN f[k - 1] ELSE Append(f[k - 1], heads[k])]

LEMMA KeptExists ==
  ASSUME NEW n \in Nat, NEW c, NEW heads
  PROVE  \E f : IsKept(f, n, c, heads)
PROOF
<1> DEFINE N == {m \in Nat : \E f : IsKept(f, m, c, heads)}
<1>1. 0 \in N
  <2>1. IsKept([k \in 0 .. 0 |-> <<>>], 0, c, heads)
    BY DEF IsKept
  <2> QED  BY <2>1
<1>2. ASSUME NEW m \in Nat, m \in N PROVE m + 1 \in N
  <2>1. PICK f : IsKept(f, m, c, heads)
    BY <1>2
  <2> DEFINE next == IF isAncestor(heads[m + 1], c) THEN f[m] ELSE Append(f[m], heads[m + 1])
             g == [k \in 0 .. m + 1 |-> IF k = m + 1 THEN next ELSE f[k]]
  <2>2. ASSUME NEW k \in 0 .. m + 1
        PROVE  g[k] = IF k = 0 THEN <<>>
                      ELSE IF isAncestor(heads[k], c) THEN g[k - 1] ELSE Append(g[k - 1], heads[k])
    <3>1. CASE k = m + 1
      <4>1. g[k - 1] = f[m] /\ g[k] = next
        BY <3>1
      <4> QED  BY <3>1, <4>1
    <3>2. CASE k # m + 1
      <4>1. k \in 0 .. m /\ g[k] = f[k]
        BY <3>2
      <4>2. k # 0 => g[k - 1] = f[k - 1]
        BY <4>1
      <4>3. f[k] = IF k = 0 THEN <<>>
                   ELSE IF isAncestor(heads[k], c) THEN f[k - 1] ELSE Append(f[k - 1], heads[k])
        BY <2>1, <4>1 DEF IsKept
      <4> QED  BY <4>1, <4>2, <4>3
    <3> QED  BY <3>1, <3>2
  <2> HIDE DEF next
  <2>3. IsKept(g, m + 1, c, heads)
    BY <2>2 DEF IsKept
  <2> QED  BY <2>3
<1> HIDE DEF N
<1>3. n \in N
  BY <1>1, <1>2, SetInduction
<1> QED  BY <1>3 DEF N

\* What a merge still has to bring in is among what it was given.
LEMMA MissingHeads ==
  ASSUME NEW c, NEW H, NEW heads \in Seq(H)
  PROVE  Missing(c, heads) \in Seq(H)
PROOF
<1> DEFINE n == Len(heads)
           kept == CHOOSE f : IsKept(f, n, c, heads)
           N == {m \in Nat : m <= n => kept[m] \in Seq(H)}
<1>1. n \in Nat /\ \A k \in 1 .. n : heads[k] \in H
  OBVIOUS
<1>2. IsKept(kept, n, c, heads)
  BY <1>1, KeptExists
<1>3. Missing(c, heads) = kept[n]
  BY DEF Missing, IsKept
<1> HIDE DEF kept, n
<1>4. \A k \in 0 .. n : kept[k] = IF k = 0 THEN <<>>
          ELSE IF isAncestor(heads[k], c) THEN kept[k - 1] ELSE Append(kept[k - 1], heads[k])
  BY <1>2 DEF IsKept
<1>5. 0 \in N
  <2>1. 0 \in 0 .. n /\ <<>> \in Seq(H)
    BY <1>1
  <2>2. kept[0] = <<>>
    BY <1>4, <2>1
  <2> QED  BY <2>1, <2>2
<1>6. ASSUME NEW m \in Nat, m \in N PROVE m + 1 \in N
  <2>1. SUFFICES ASSUME m + 1 <= n PROVE kept[m + 1] \in Seq(H)
    OBVIOUS
  <2>2. /\ kept[m] \in Seq(H) /\ heads[m + 1] \in H
        /\ kept[m + 1] = IF isAncestor(heads[m + 1], c) THEN kept[m] ELSE Append(kept[m], heads[m + 1])
    BY <1>1, <1>4, <1>6, <2>1
  <2> QED  BY <2>2
<1> HIDE DEF N
<1>7. n \in N
  BY <1>1, <1>5, <1>6, SetInduction
<1> QED  BY <1>1, <1>3, <1>7 DEF N

LEMMA MergedHistory ==
  ASSUME NEW c, IsHistory(c), NEW H, NEW heads \in Seq(H), \A h \in H : IsHistory(h), NEW sig
  PROVE  IsHistory(Merged(c, heads, sig))
PROOF
<1>1. <<c>> \o heads \in Seq(H \cup {c})
  OBVIOUS
<1>2. \A p \in ToSet(<<c>> \o heads) : IsHistory(p)
  BY <1>1 DEF ToSet
<1> QED  BY <1>1, <1>2, NewHistory DEF Merged

LEMMA ChildHistory ==
  ASSUME NEW c, IsHistory(c), NEW tree, NEW sig
  PROVE  IsHistory(Commit(tree, <<c>>, sig))
PROOF
<1>1. <<c>> \in Seq({c}) /\ \A p \in ToSet(<<c>>) : IsHistory(p)
  BY DEF ToSet
<1> QED  BY <1>1, NewHistory

LEMMA RebasedHistory ==
  ASSUME NEW c, IsHistory(c), NEW onto, IsHistory(onto)
  PROVE  IsHistory(Rebased(c, onto))
PROOF
BY ChildHistory DEF Rebased

(***************************************************************************)
(* A resign and its branch.                                                *)
(***************************************************************************)
\* Branches hold histories, and so does what a call is about to move one to.
Landing(j) == /\ j.pc \in {"report", "resolve", "backup", "move"} /\ j.op \in {"MoveRef", "Resign"}
              /\ ~(j.pc = "report" /\ j.noOp)
Replanting(j) == j.pc # "idle" /\ j.op = "Rebase"
Histories ==
  /\ \A b \in Branches : IsHistory(refs[b])
  /\ \A p \in Procs : Landing(job[p]) \/ Replanting(job[p]) => IsHistory(job[p].new)

\* What a resign lands is the history of the last commit of its list, signed, and
\* that commit is the head it read, or the list is cut or another head's.
OnlySigns(j) ==
  /\ SameButSigned(Last(j.commits), j.new)
  /\ j.call.sign => \A c \in ToSet(j.commits) \cap Ancestors(j.new) : c.sig # "N"
  /\ Last(j.commits) = j.old \/ j.cut \/ j.head # j.old
Resigned(j) == Landing(j) /\ j.op = "Resign" => OnlySigns(j)

HistoryInv == IInv /\ Histories /\ \A p \in Procs : Resigned(job[p])

LEMMA CallParts ==
  ASSUME NEW c, IsCall(c)
  PROVE  /\ c.op = "CreateBranch" => c.start \in Branches
         /\ c.op = "Resign" => c.base \in Branches
         /\ c.op = "Rebase" => c.upstream \in Branches
         /\ c.op = "Merge" => c.heads \in Seq(Branches)
         /\ c.op = "WorktreeAdd" => c.ref \in Branches
         /\ c.op = "MoveRef" => "new" \in DOMAIN c
         /\ c.op = "Rebase" => "new" \notin DOMAIN c
PROOF
BY DEF IsCall

\* The branches hold histories after every step.
LEMMA RefHistories ==
  ASSUME IInv, Histories, NEW p \in Procs, Step(p), NEW b \in Branches
  PROVE  IsHistory(refs'[b])
PROOF
<1>1. /\ GitTypeOK /\ CallOK(p) /\ IsHistory(Absent)
      /\ DOMAIN refs = Branches /\ \A x \in Branches : IsHistory(refs[x])
  BY AbsentHistory DEF IInv, CallInv, Histories, GitTypeOK
<1>2. SUFFICES ASSUME refs' # refs PROVE IsHistory(refs'[b])
  BY <1>1
<1>3. ASSUME NEW x, NEW c, refs' = [refs EXCEPT ![x] = c], IsHistory(c) PROVE IsHistory(refs'[b])
  BY <1>1, <1>3
<1>4. CASE casMove(p)
  <2>1. job[p].pc = "move" /\ job[p].op \in {"MoveRef", "Resign"}
    BY <1>1, <1>4, CallAt DEF casMove, At
  <2>2. IsHistory(job[p].new)
    BY <2>1 DEF Histories, Landing
  <2> QED  BY <1>2, <1>3, <1>4, <2>2 DEF casMove
<1>5. CASE casDelete(p)
  BY <1>1, <1>2, <1>3, <1>5 DEF casDelete
<1>6. CASE CreateBranch(p)
  <2>1. Calling(job[p]) /\ job[p].op = "CreateBranch"
    BY <1>1, <1>6, CallAt DEF CreateBranch, At
  <2>2. job[p].call.start \in Branches
    BY <2>1, CallParts DEF Calling
  <2> QED  BY <1>1, <1>2, <1>3, <1>6, <2>2 DEF CreateBranch
<1>7. CASE rebase(p)
  <2>1. Calling(job[p]) /\ job[p].op = "Rebase" /\ job[p].pc = "rebase"
    BY <1>1, <1>7, CallAt DEF rebase, At
  <2>2. job[p].call.upstream \in Branches /\ job[p].ref \in Branches
    BY <2>1, CallParts DEF Calling
  <2>3. refs' = [refs EXCEPT ![job[p].ref] = Rebased(refs[job[p].ref], refs[job[p].call.upstream])]
    BY <1>2, <1>7 DEF rebase
  <2> QED  BY <1>1, <1>3, <2>2, <2>3, RebasedHistory
<1>8. CASE merge(p)
  <2> DEFINE w == Wt(p).branch
             given == MergeHeads(p)
             heads == Missing(HeadOf(Dir[p]), given)
             H == {refs[x] : x \in Branches}
  <2>1. Calling(job[p]) /\ job[p].op = "Merge"
    BY <1>1, <1>8, CallAt DEF merge, At
  <2>2. job[p].call.heads \in Seq(Branches)
    BY <2>1, CallParts DEF Calling
  <2>3. given \in Seq(H)
    <3>1. \A i \in 1 .. Len(job[p].call.heads) : refs[job[p].call.heads[i]] \in H
      BY <2>2
    <3> QED  BY <2>2, <3>1 DEF MergeHeads
  <2>4. heads \in Seq(H) /\ \A h \in H : IsHistory(h)
    BY <1>1, <2>3, MissingHeads
  <2>5. \/ SetHead(Dir[p], heads[1]) /\ Len(heads) = 1
        \/ SetHead(Dir[p], Merged(HeadOf(Dir[p]), heads, IF job[p].call.sign THEN "G" ELSE "N"))
    BY <1>2, <1>8 DEF merge, LeaveMerging
  <2>6. PICK c : refs' = [refs EXCEPT ![w] = c]
                 /\ (c \in H \/ \E sig : c = Merged(HeadOf(Dir[p]), heads, sig))
    <3>1. Len(heads) = 1 => heads[1] \in H
      <4> HIDE DEF heads, H
      <4> QED  BY <2>4
    <3>2. CASE SetHead(Dir[p], heads[1]) /\ Len(heads) = 1
      <4> HIDE DEF heads, H
      <4> QED  BY <3>1, <3>2 DEF SetHead, Wt
    <3>3. CASE SetHead(Dir[p], Merged(HeadOf(Dir[p]), heads, IF job[p].call.sign THEN "G" ELSE "N"))
      <4> HIDE DEF heads, H
      <4> QED  BY <3>3 DEF SetHead, Wt
    <3> QED  BY <2>5, <3>2, <3>3
  <2>7. w \in Branches
    <3>1. Wt(p).rebasing = NoBranch
      BY <1>2, <1>8 DEF merge
    <3> QED  BY <1>1, <3>1, OwnOK DEF WorktreeOK, Worktrees
  <2>8. IsHistory(HeadOf(Dir[p]))
    BY <1>1, <2>7 DEF HeadOf, Wt
  <2>9. IsHistory(c)
    <3> HIDE DEF heads, H
    <3> QED  BY <2>4, <2>6, <2>8, MergedHistory
  <2> QED  BY <1>3, <2>6, <2>9
<1>9. CASE WorktreeAdd(p)
  <2>1. Calling(job[p]) /\ job[p].op = "WorktreeAdd"
    BY <1>1, <1>9, CallAt DEF WorktreeAdd, At
  <2>2. job[p].call.ref \in Branches
    BY <2>1, CallParts DEF Calling
  <2> QED  BY <1>1, <1>2, <1>3, <1>9, <2>2 DEF WorktreeAdd
<1>11. CASE abort(p)
  <2>1. job[p].pc = "abort" /\ job[p].op \in {"Rebase", "Merge"}
    BY <1>1, <1>11, CallAt DEF abort, At
  <2>2. job[p].op # "Merge" /\ refs' = [refs EXCEPT ![Wt(p).rebasing] = job[p].new]
    BY <1>2, <1>11, Zenon DEF abort
  <2>3. IsHistory(job[p].new)
    BY <2>1, <2>2 DEF Histories, Replanting
  <2> QED  BY <1>3, <2>2, <2>3
<1>10. casMove(p) \/ casDelete(p) \/ CreateBranch(p) \/ rebase(p) \/ merge(p) \/ WorktreeAdd(p) \/ abort(p)
  BY <1>2, Zenon DEF Step, Call, GitFails, Die, resolveRef, backupRef, resignOld, resignRange, resignReported,
     currentBranch, newHead, undoDryRun, WorktreeRemove, repo
<1> QED  BY <1>4, <1>5, <1>6, <1>7, <1>8, <1>9, <1>10, <1>11

LEMMA ForeignHistories ==
  ASSUME GitTypeOK, Histories, CommitByOthers, NEW b \in Branches
  PROVE  IsHistory(refs'[b])
PROOF
<1>1. PICK x, t : x \in Branches /\ refs' = [refs EXCEPT ![x] = Commit(t, <<refs[x]>>, "N")]
  BY DEF CommitByOthers
<1>2. IsHistory(Commit(t, <<refs[x]>>, "N"))
  BY <1>1, ChildHistory DEF Histories
<1> QED  BY <1>1, <1>2 DEF Histories, GitTypeOK

\* What p's call is about to land, after a step of its own.
LEMMA OwnLands ==
  ASSUME IInv, Histories, NEW p \in Procs, Resigned(job[p]), Step(p),
         Landing(job'[p]) \/ Replanting(job'[p])
  PROVE  IsHistory(job'[p].new) /\ Resigned(job'[p])
PROOF
<1>1. GitTypeOK /\ CallOK(p)
  BY DEF IInv, CallInv
<1>2. CASE (\E r : Done(p, r)) \/ Die(p) \/ undoDryRun(p) \/ abort(p)
  <2>1. job'[p] = Idle
    BY <1>1, <1>2, DoneIs, Undone, EndIs DEF Die, GitTypeOK
  <2>2. job'[p].pc = "idle"
    BY <2>1 DEF Idle
  <2> QED  BY <2>2 DEF Landing, Replanting
<1>3. CASE Call(p)
  <2>1. PICK c, k :
          /\ c \in makes[p]
          /\ k = [pc |-> First(c.op), op |-> c.op, call |-> c, wt |-> Wt(p),
                  ref |-> IF "ref" \in DOMAIN c THEN c.ref ELSE NoBranch,
                  old |-> IF "old" \in DOMAIN c THEN c.old ELSE Absent,
                  new |-> IF "new" \in DOMAIN c THEN c.new ELSE Absent]
          /\ job'[p] = k
    BY <1>1, <1>3, GoIs DEF Call
  <2>2. IsCall(c) /\ (c.op = "MoveRef" => IsHistory(c.new))
    BY <1>1, <2>1, CallsAssumption, HistoriesAssumption DEF GitTypeOK
  <2>3. c.op # "Resign"
    BY <2>1 DEF Landing, Replanting, First
  <2>4. \/ k.op = "MoveRef" /\ k.new = c.new
        \/ k.op = "Rebase" /\ k.new = Absent
    BY <2>1, <2>2, <2>3, CallParts DEF Landing, Replanting
  <2> QED  BY <2>1, <2>2, <2>4, AbsentHistory DEF Resigned
<1>4. CASE resolveRef(p) /\ ~\E r : Done(p, r)
  <2>1. /\ job[p].pc = "resolve" /\ refs[job[p].ref] = job[p].old
        /\ Go(p, [job[p] EXCEPT !.pc = "backup"]) /\ UNCHANGED refs
    BY <1>4 DEF resolveRef, At, repo
  <2>2. PICK k : k = [job[p] EXCEPT !.pc = "backup"] /\ job'[p] = k
    BY <1>1, <2>1, GoIs
  <2>3. Calling(job[p])
    BY <1>1, <2>1, CallAt
  <2>4. /\ k.pc = "backup" /\ k.op = job[p].op /\ k.old = job[p].old /\ k.new = job[p].new
        /\ k.call = job[p].call /\ k.commits = job[p].commits /\ k.head = job[p].head /\ k.cut = job[p].cut
    BY <2>2, <2>3 DEF Calling
  <2>5. (Landing(job[p]) \/ Replanting(job[p])) /\ (Landing(k) => Landing(job[p]))
    BY <2>1, <2>2, <2>4 DEF Landing, Replanting
  <2> QED  BY <2>1, <2>2, <2>4, <2>5 DEF Histories, Resigned, OnlySigns
<1>5. CASE backupRef(p)
  <2>1. /\ job[p].pc = "backup"
        /\ \E x : Go(p, [job[p] EXCEPT !.pc = x])
    BY <1>5 DEF backupRef, At
  <2>2. PICK k, x : k = [job[p] EXCEPT !.pc = x] /\ job'[p] = k
    BY <1>1, <2>1, GoIs
  <2>3. Calling(job[p])
    BY <1>1, <2>1, CallAt
  <2>4. /\ k.op = job[p].op /\ k.old = job[p].old /\ k.new = job[p].new
        /\ k.call = job[p].call /\ k.commits = job[p].commits /\ k.head = job[p].head /\ k.cut = job[p].cut
    BY <2>2, <2>3 DEF Calling
  <2>5. (Landing(job[p]) \/ Replanting(job[p])) /\ (Landing(k) => Landing(job[p]))
    BY <2>1, <2>2, <2>4 DEF Landing, Replanting
  <2> QED  BY <2>1, <2>2, <2>4, <2>5 DEF Histories, Resigned, OnlySigns
<1>6. CASE resignOld(p) /\ ~\E r : Done(p, r)
  <2>1. job[p].pc = "old" /\ Go(p, [job[p] EXCEPT !.pc = "range", !.old = refs[job[p].ref]])
    BY <1>6 DEF resignOld, At
  <2>2. PICK k : k = [job[p] EXCEPT !.pc = "range", !.old = refs[job[p].ref]] /\ job'[p] = k
    BY <1>1, <2>1, GoIs
  <2>3. k.pc = "range" /\ k.op = "Resign"
    BY <1>1, <2>1, <2>2, CallAt DEF Calling
  <2> QED  BY <2>2, <2>3 DEF Landing, Replanting
<1>7. CASE resignRange(p) /\ ~\E r : Done(p, r)
  <2> DEFINE j == job[p]
             base == refs[j.call.base]
             head == refs[j.ref]
             full == commitRange(base, head)
             Reporting(new, cs, noOp, target) ==
               [pc |-> "report", op |-> j.op, call |-> j.call, wt |-> j.wt, ref |-> j.ref, old |-> j.old,
                new |-> new, head |-> head, cut |-> cs # full, commits |-> cs, noOp |-> noOp, target |-> target]
             Codes == IF j.call.sign THEN {"G", "E"} ELSE {"N"}
             Resigning(cs, code) == Reporting(remap(cs, code)[Last(cs)], cs, FALSE, remap(cs, code))
  <2>1. PICK commits \in Captured(full) :
          /\ job[p].pc = "range" /\ UNCHANGED refs /\ commits # <<>>
          /\ \/ Go(p, Reporting(j.old, commits, TRUE, [c \in ToSet(commits) |-> c]))
             \/ \E code \in Codes : Go(p, Resigning(commits, code))
    BY <1>7 DEF resignRange, At, repo
  <2>3. Calling(j) /\ j.op = "Resign"
    BY <1>1, <2>1, CallAt
  <2>4. j.ref \in Branches /\ j.call.base \in Branches
    BY <2>1, <2>3, CallParts DEF Calling
  <2>5. IsHistory(base) /\ IsHistory(head)
    BY <2>4 DEF Histories
  <2> HIDE DEF base, head, full
  <2>2. PICK k \in 1 .. Len(full) : commits = SubSeq(full, 1, k)
    <3>1. full \in Seq(Ancestors(head) \ Ancestors(base)) /\ Len(full) \in Nat
      BY <2>5, RangeIsSeq DEF full
    <3>2. CASE commits = full
      <4>1. Len(full) \in 1 .. Len(full)
        BY <2>1, <3>1, <3>2
      <4>2. SubSeq(full, 1, Len(full)) = full
        BY <3>1
      <4> QED  BY <3>2, <4>1, <4>2
    <3>3. CASE commits # full
      <4>1. PICK k \in 1 .. Len(full) - 1 : commits = SubSeq(full, 1, k)
        BY <2>1, <3>3 DEF Captured
      <4>2. k \in 1 .. Len(full)
        BY <3>1
      <4> QED  BY <4>1, <4>2
    <3> QED  BY <3>2, <3>3
  <2>6. PICK code \in Codes : job'[p] = Resigning(commits, code)
    <3>1. CASE Go(p, Reporting(j.old, commits, TRUE, [c \in ToSet(commits) |-> c]))
      <4>1. job'[p] = Reporting(j.old, commits, TRUE, [c \in ToSet(commits) |-> c])
        BY <1>1, <3>1, GoIs
      <4>2. job'[p].pc = "report" /\ job'[p].noOp = TRUE /\ job'[p].op = "Resign"
        BY <2>3, <4>1
      <4> QED  BY <4>2 DEF Landing, Replanting
    <3>2. CASE ~Go(p, Reporting(j.old, commits, TRUE, [c \in ToSet(commits) |-> c]))
      <4>1. PICK code \in Codes : Go(p, Resigning(commits, code))
        BY <2>1, <3>2
      <4>2. job'[p] = Resigning(commits, code)
        BY <1>1, <4>1, GoIs
      <4> QED  BY <4>1, <4>2
    <3> QED  BY <3>1, <3>2
  <2>7. PICK new : new = remap(commits, code)[Last(commits)]
    OBVIOUS
  <2>8. /\ job'[p].new = new /\ job'[p].old = j.old /\ job'[p].call = j.call /\ job'[p].commits = commits
        /\ job'[p].head = head /\ job'[p].cut = (commits # full)
    BY <2>6, <2>7
  <2>9. /\ IsHistory(new) /\ SameButSigned(Last(commits), new)
        /\ code # "N" => \A c \in ToSet(commits) \cap Ancestors(new) : c.sig # "N"
    BY <2>2, <2>5, <2>7, ResignSigns DEF full
  <2>10. j.call.sign => code # "N"
    BY <2>6
  <2>11. commits = full => Last(commits) = head
    BY <2>1, <2>5, HeadIsLast DEF full, Last
  <2> QED  BY <2>8, <2>9, <2>10, <2>11 DEF Resigned, OnlySigns
<1>8. CASE resignReported(p) /\ ~\E r : Done(p, r)
  <2>1. /\ job[p].pc = "report" /\ ~job[p].noOp /\ UNCHANGED refs
        /\ Go(p, [job[p] EXCEPT !.pc = "resolve"])
    BY <1>8 DEF resignReported, At, repo
  <2>2. PICK k : k = [job[p] EXCEPT !.pc = "resolve"] /\ job'[p] = k
    BY <1>1, <2>1, GoIs
  <2>3. Calling(job[p])
    BY <1>1, <2>1, CallAt
  <2>4. /\ k.pc = "resolve" /\ k.op = job[p].op /\ k.old = job[p].old /\ k.new = job[p].new
        /\ k.call = job[p].call /\ k.commits = job[p].commits /\ k.head = job[p].head /\ k.cut = job[p].cut
    BY <2>2, <2>3 DEF Calling
  <2>5. (Landing(job[p]) \/ Replanting(job[p])) /\ (Landing(k) => Landing(job[p]))
    BY <2>1, <2>2, <2>4 DEF Landing, Replanting
  <2> QED  BY <2>1, <2>2, <2>4, <2>5 DEF Histories, Resigned, OnlySigns
<1>9. CASE (currentBranch(p) \/ rebase(p) \/ merge(p)) /\ ~\E r : Done(p, r)
  <2>1. job[p].pc \in {"current", "rebase", "merge"}
    BY <1>9 DEF currentBranch, rebase, merge, At
  <2>2. Calling(job[p]) /\ job[p].op \in {"Rebase", "Merge"}
    BY <1>1, <2>1, CallAt
  <2>3. CallOK(p)'
    BY <1>9, currentStep, rebaseStep, mergeStep DEF IInv, CallInv
  <2>4. job'[p].op = job[p].op /\ (job[p].op = "Rebase" => IsHistory(job'[p].new))
    <3>1. CASE currentBranch(p)
      <4>1. \E b : Go(p, [job[p] EXCEPT !.pc = "backup", !.ref = b, !.old = refs[b]])
        BY <1>9, <3>1 DEF currentBranch
      <4>2. PICK k, b : k = [job[p] EXCEPT !.pc = "backup", !.ref = b, !.old = refs[b]] /\ job'[p] = k
        BY <1>1, <4>1, GoIs
      <4> QED  BY <2>1, <2>2, <4>2 DEF Calling, Histories, Replanting
    <3>2. CASE rebase(p)
      <4>1. /\ job[p].pc = "rebase" /\ job[p].op = "Rebase"
            /\ job[p].ref \in Branches /\ job[p].call.upstream \in Branches
        BY <1>1, <2>2, <3>2, CallAt, CallParts DEF rebase, At, Calling
      <4>2. PICK head, upstream : IsHistory(head) /\ IsHistory(upstream)
              /\ \/ Go(p, [job[p] EXCEPT !.pc = "abort"])
                 \/ Go(p, [job[p] EXCEPT !.pc = "abort", !.new = head])
                 \/ Go(p, [job[p] EXCEPT !.pc = "newHead", !.new = Rebased(head, upstream)])
        BY <3>2, <4>1 DEF rebase, Histories
      <4>3. IsHistory(Rebased(head, upstream)) /\ IsHistory(job[p].new)
        BY <4>1, <4>2, RebasedHistory DEF Histories, Replanting
      <4>4. PICK k, c : /\ k = [job[p] EXCEPT !.pc = "abort"] \/ k = [job[p] EXCEPT !.pc = "abort", !.new = c]
                           \/ k = [job[p] EXCEPT !.pc = "newHead", !.new = c]
                        /\ IsHistory(c) /\ job'[p] = k
        BY <1>1, <4>2, <4>3, GoIs
      <4> QED  BY <2>2, <4>3, <4>4 DEF Calling
    <3>3. CASE merge(p)
      <4>1. \E x : Go(p, [job[p] EXCEPT !.pc = x])
        BY <3>3 DEF merge
      <4>2. PICK k, x : k = [job[p] EXCEPT !.pc = x] /\ job'[p] = k
        BY <1>1, <4>1, GoIs
      <4>3. job[p].op = "Merge"
        BY <1>1, <3>3, CallAt DEF merge, At
      <4> QED  BY <2>2, <4>2, <4>3 DEF Calling
    <3> QED  BY <1>9, <3>1, <3>2, <3>3
  <2> QED  BY <2>2, <2>4 DEF Landing, Replanting, Resigned
<1>10. ASSUME ~\E r : Done(p, r), ~Die(p), ~undoDryRun(p), ~abort(p)
       PROVE  Call(p) \/ resolveRef(p) \/ backupRef(p) \/ resignOld(p) \/ resignRange(p) \/ resignReported(p)
              \/ currentBranch(p) \/ rebase(p) \/ merge(p)
  BY <1>10, Zenon DEF Step, GitFails, casMove, casDelete, CreateBranch, newHead, WorktreeAdd, WorktreeRemove
<1> QED  BY <1>2, <1>3, <1>4, <1>5, <1>6, <1>7, <1>8, <1>9, <1>10

LEMMA InitHistory == Init => HistoryInv
PROOF
<1> SUFFICES ASSUME Init PROVE HistoryInv
  OBVIOUS
<1>1. \A p \in Procs : job[p].pc = "idle"
  BY DEF Init, Idle
<1>2. \A b \in Branches : IsHistory(refs[b])
  BY HistoriesAssumption DEF Init
<1> QED  BY <1>1, <1>2, InitInv DEF HistoryInv, Histories, Resigned, Landing, Replanting

LEMMA NextHistory ==
  ASSUME HistoryInv, [Next]_vars
  PROVE  HistoryInv'
PROOF
<1>1. IInv /\ Histories /\ IInv'
  BY NextInv DEF HistoryInv
<1>2. ASSUME NEW p \in Procs, Step(p) PROVE HistoryInv'
  <2>1. \A b \in Branches : IsHistory(refs'[b])
    BY <1>1, <1>2, RefHistories
  <2>2. ASSUME NEW q \in Procs
        PROVE  /\ Landing(job'[q]) \/ Replanting(job'[q]) => IsHistory(job'[q].new)
               /\ Resigned(job'[q])
    <3>1. CASE q = p
      BY <1>1, <1>2, <3>1, OwnLands DEF HistoryInv, Resigned
    <3>2. CASE q # p
      <4>1. job'[q] = job[q]
        BY <1>1, <1>2, <3>2, Others DEF IInv
      <4> QED  BY <1>1, <4>1 DEF HistoryInv, Histories
    <3> QED  BY <3>1, <3>2
  <2> QED  BY <1>1, <2>1, <2>2 DEF HistoryInv, Histories
<1>3. ASSUME CommitByOthers PROVE HistoryInv'
  <2>1. \A b \in Branches : IsHistory(refs'[b])
    BY <1>1, <1>3, ForeignHistories DEF IInv
  <2>2. job' = job
    BY <1>3 DEF CommitByOthers
  <2> QED  BY <1>1, <2>1, <2>2 DEF HistoryInv, Histories
<1>4. CASE UNCHANGED vars
  <2>1. refs' = refs /\ job' = job
    BY <1>4 DEF vars, repo
  <2> QED  BY <1>1, <2>1 DEF HistoryInv, Histories
<1> QED  BY <1>2, <1>3, <1>4 DEF Next

LEMMA LandsSigned ==
  ASSUME HistoryInv, NEW p \in Procs, casMove(p), job[p].op = "Resign", refs' # refs
  PROVE  LET j == job[p]
             new == refs'[j.ref]
         IN  /\ SameButSigned(Last(j.commits), new)
             /\ j.call.sign => \A c \in ToSet(j.commits) \cap Ancestors(new) : c.sig # "N"
             /\ Last(j.commits) = refs[j.ref] \/ j.cut \/ j.head # j.old
PROOF
<1>1. GitTypeOK /\ CallOK(p) /\ Resigned(job[p])
  BY DEF HistoryInv, IInv, CallInv
<1>2. /\ job[p].pc = "move" /\ refs[job[p].ref] = job[p].old
      /\ refs' = [refs EXCEPT ![job[p].ref] = job[p].new]
  BY DEF casMove, At
<1>3. job[p].ref \in Branches
  BY <1>1, <1>2, CallAt DEF Calling
<1>4. refs'[job[p].ref] = job[p].new
  BY <1>1, <1>2, <1>3 DEF GitTypeOK
<1>5. OnlySigns(job[p])
  BY <1>1, <1>2 DEF Resigned, Landing
<1> QED  BY <1>2, <1>4, <1>5 DEF OnlySigns

(***************************************************************************)
(* The theorems.                                                           *)
(***************************************************************************)
\* Every variable has its type: a backup is of a commit, and a registered worktree
\* is on a branch or stopped in a rebase of one.
THEOREM TypeCorrect == Spec => []GitTypeOK
PROOF
<1>1. IInv => GitTypeOK
  BY DEF IInv
<1> QED  BY <1>1, Invariance, PTL

\* ref.go:101, branch.go:57, rebase.go:80: whoever moves branches meanwhile, no step
\* takes a branch off a head that is not in its backup refs, but for branch -f and a
\* rebase, or its abort, that overruns what came after Rebase's read.
THEOREM RewritesKept == Spec => RewritesAreBackedUp
PROOF
<1> DEFINE Kept == \A b \in Branches :
              (refs[b] # refs'[b] /\ refs[b] # Absent /\ ~isAncestor(refs[b], refs'[b])) =>
                <<b, refs[b]>> \in backups \/ \E p \in Procs : Forced(p, b) \/ Overruns(p, b)
<1>1. IInv /\ [Next]_vars => [Kept]_vars
  BY NextBacksUp
<1>2. [][Kept]_vars => RewritesAreBackedUp
  BY DEF RewritesAreBackedUp
<1> HIDE DEF Kept
<1> QED  BY <1>1, <1>2, Invariance, PTL DEF Spec

\* merge.go:107, rebase.go:97: a call that began in a worktree with nothing in
\* progress leaves it so and on its branch, however it ends, unless it is its own
\* abort that did not run.
THEOREM WorktreesStayClean == Spec => CleanStaysClean
PROOF
<1> DEFINE Cleaned == \A p \in Procs :
              (~At(p, "idle") /\ job'[p].pc = "idle" /\ last'[p] # NoCall
                 /\ ~job[p].wt.merging /\ job[p].wt.rebasing = NoBranch) =>
                LET w == wts'[Dir[p]]
                IN  \/ ~w.merging /\ w.rebasing = NoBranch /\ w.branch = job[p].wt.branch
                    \/ ~last'[p].aborted /\ job[p].pc \in {"abort", "undo", "undoFailed"}
<1>1. IInv /\ [Next]_vars => [Cleaned]_vars
  <2>1. SUFFICES ASSUME IInv, Next, NEW p \in Procs, ~At(p, "idle"), job'[p].pc = "idle", last'[p] # NoCall,
                        Clean(job[p].wt)
                 PROVE  \/ Clean(wts'[Dir[p]]) /\ wts'[Dir[p]].branch = job[p].wt.branch
                        \/ ~last'[p].aborted /\ job[p].pc \in {"abort", "undo", "undoFailed"}
    BY DEF Clean
  <2>2. Step(p)
    BY <2>1, Others DEF Next, CommitByOthers, IInv, At
  <2> QED  BY <2>1, <2>2, StepCleans DEF IInv
<1>2. [][Cleaned]_vars => CleanStaysClean
  BY DEF CleanStaysClean
<1> HIDE DEF Cleaned
<1> QED  BY <1>1, <1>2, Invariance, PTL DEF Spec

\* resign.go:63: a resign that lands gives the branch the history of the last commit
\* it listed, commit by commit, and leaves no unsigned commit of the list in it.
\* That commit is the head the branch is taken off, unless git's output was cut or
\* the branch stood elsewhere when it was listed.
THEOREM ResignsSign == Spec => ResignOnlySigns
PROOF
<1> DEFINE Signed == \A p \in Procs :
              (casMove(p) /\ job[p].op = "Resign" /\ refs' # refs) =>
                LET j == job[p]
                    new == refs'[j.ref]
                IN  /\ SameButSigned(Last(j.commits), new)
                    /\ j.call.sign => \A c \in ToSet(j.commits) \cap Ancestors(new) : c.sig # "N"
                    /\ Last(j.commits) = refs[j.ref] \/ j.cut \/ j.head # j.old
<1>1. HistoryInv /\ [Next]_vars => HistoryInv'
  BY NextHistory
<1>2. HistoryInv /\ [Next]_vars => [Signed]_vars
  BY LandsSigned
<1>3. [][Signed]_vars => ResignOnlySigns
  BY DEF ResignOnlySigns
<1> HIDE DEF Signed
<1> QED  BY <1>1, <1>2, <1>3, InitHistory, PTL DEF Spec

===============================================================================
