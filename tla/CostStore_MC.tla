---------------------------- MODULE CostStore_MC ----------------------------
(***************************************************************************)
(* CostStore for TLC.  The rosters: two prices of the one model, and none. *)
(***************************************************************************)
EXTENDS CostStore, TLC

AnyRoster == [Models -> Rates \cup {NoRate}]
ProcSymmetry == Permutations(Procs)
=============================================================================
