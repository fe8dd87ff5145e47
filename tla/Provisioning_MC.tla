--------------------------- MODULE Provisioning_MC ---------------------------
(***************************************************************************)
(* Provisioning for TLC: a host for each way an answer can fail, and the   *)
(* one that answers.                                                       *)
(***************************************************************************)
EXTENDS Provisioning, TLC

CONSTANTS current, last   \* the released binary, and last commit's

Up == [reachable |-> TRUE, key |-> TRUE, verifier |-> TRUE, signature |-> "good", manifest |-> current, asset |-> current]
Down == [Up EXCEPT !.reachable = FALSE]
SomeHosts ==
  {Up, Down} \cup {[Up EXCEPT !.signature = x] : x \in {"none", "bad"}} \cup {[Up EXCEPT !.manifest = x] : x \in {"malformed", "other"}}
  \cup {[Up EXCEPT !.asset = x] : x \in {Absent, Torn}} \cup {[Up EXCEPT !.key = FALSE], [Up EXCEPT !.verifier = FALSE]}

Frozen_(file, sidecar) == [file |-> file, side |-> sidecar]
SomeCopies == {Frozen_(last, last), Frozen_("pointer", "pointer"), Frozen_(last, Absent)}
ProcSymmetry == Permutations(Procs)
=============================================================================
