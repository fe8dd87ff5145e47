--------------------------- MODULE StateStore_MC ---------------------------
(***************************************************************************)
(* StateStore for TLC: three processes, one of them a newer build.         *)
(***************************************************************************)
EXTENDS StateStore, TLC

CONSTANTS p1, p2, p3, r1, c1, c2

OldAndNewBuilds == p1 :> 1 @@ p2 :> 1 @@ p3 :> 2
SameBuilds == [p \in Procs |-> 1]

\* One ref seen by both consumers at two moments.
SharedRequests ==
  {[ref |-> r1, consumer |-> c1, at |-> 1], [ref |-> r1, consumer |-> c2, at |-> 2]}
OneRequest == {[ref |-> r1, consumer |-> c1, at |-> 1]}

\* p1 and p2 run the same build.
BuildSymmetry == Permutations({p1, p2})
AnySymmetry == Permutations(Procs)
=============================================================================
