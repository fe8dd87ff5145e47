------------------------------ MODULE Schedule ------------------------------
(***************************************************************************)
(* What a batch schedule promises, without saying how it is found: every   *)
(* batch is taken from the nodes whose needs are met, any two of its       *)
(* members may run side by side, it holds no more than the room there is,  *)
(* and nothing that could have joined it was left out.                     *)
(***************************************************************************)
EXTENDS Integers, Sequences, FiniteSets

VARIABLES
  nodes,    \* what is to be scheduled
  needs,    \* needs[n]: what n depends on
  beside,   \* the pairs that may run side by side
  room,     \* the largest batch, 0 for any
  running,  \* the plan is fixed and batches are being taken
  batches   \* the batches taken, in order

plan == <<nodes, needs, beside, room>>
vars == <<plan, running, batches>>

Taken == UNION {batches[i] : i \in DOMAIN batches}
Ready == {n \in nodes \ Taken : needs[n] \subseteq Taken}
Together(B) == \A m \in B, n \in B : m # n => <<m, n>> \in beside
HasRoom(B) == room = 0 \/ Cardinality(B) < room

Batch(B) ==
  /\ B # {} /\ B \subseteq Ready /\ Together(B)
  /\ room = 0 \/ Cardinality(B) <= room
  /\ \A n \in Ready \ B : HasRoom(B) => ~Together(B \cup {n})

\* The plan is open to change until it runs.
Plan == ~running /\ running' \in BOOLEAN /\ UNCHANGED batches
Take ==
  /\ running
  /\ \E B \in SUBSET Ready : batches' = Append(batches, B) /\ Batch(B)
  /\ UNCHANGED <<plan, running>>

Init == running = FALSE /\ batches = <<>>
Next == Plan \/ Take
Spec == Init /\ [][Next]_vars
=============================================================================
