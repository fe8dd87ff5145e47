--------------------------- MODULE LedgerEntries ---------------------------
(***************************************************************************)
(* The entries of a go/ledger register and what each call makes of them:   *)
(* Add, Resolve, Retract, Recur, and the reads List, Partition, Rollup.    *)
(* Statements, citations and timestamps are left out; a call whose         *)
(* arguments do not validate changes nothing.                              *)
(***************************************************************************)
EXTENDS Integers, Sequences, FiniteSets

CONSTANTS
  Scores,      \* the impact and urgency scores callers pass
  Outcomes,    \* resolutions other than retracted: closed, carried, ...
  Cycles,      \* planning cycles
  MaxEntries   \* bound: entries of a register

MinScore == 1
MaxScore == 5

ASSUME ScoresAssumption == Scores \subseteq MinScore .. MaxScore
ASSUME OutcomesAssumption == Outcomes \cap {"none", "retracted"} = {}
ASSUME CyclesAssumption == IsFiniteSet(Cycles)
ASSUME MaxEntriesAssumption == MaxEntries \in Nat

Resolutions == Outcomes \cup {"none", "retracted"}
Entry ==
  [id : 1 .. MaxEntries, criticality : 1 .. MaxScore * MaxScore,
   resolution : Resolutions, recurrence : 0 .. Cardinality(Cycles),
   cycles : SUBSET Cycles]

Positions(entries) == 1 .. Len(entries)

\* Mutation: positions counted from zero.
NextIdFromZero(entries) == Len(entries)

\* Ids are by append position, whatever was appended before.
NextId(entries) == Len(entries) + 1

Added(entries, impact, urgency) ==
  Append(entries,
    [id |-> NextId(entries), criticality |-> impact * urgency,
     resolution |-> "none", recurrence |-> 0, cycles |-> {}])

\* Mutation: a retraction is not final.
CanResolveAny(entries, i) == i \in Positions(entries)

\* Resolve refuses a retracted entry; any other may be resolved again.
CanResolve(entries, i) == entries[i].resolution # "retracted"
Resolved(entries, i, outcome) == [entries EXCEPT ![i].resolution = outcome]

\* Retract takes any entry, a retracted one too.
Retracted(entries, i) == [entries EXCEPT ![i].resolution = "retracted"]

\* Recur refuses a resolved entry.  A cycle already seen changes nothing, and
\* the call succeeds.
HasRecurred(entries, i, cycle) ==
  entries[i].resolution = "none" /\ cycle \in entries[i].cycles
CanRecur(entries, i, cycle) ==
  entries[i].resolution = "none" /\ cycle \notin entries[i].cycles
Recurred(entries, i, cycle) ==
  [entries EXCEPT ![i].cycles = @ \cup {cycle}, ![i].recurrence = @ + 1]

\* What one accepted call may make of the entries.
Changes(entries) ==
  LET added     == {Added(entries, s, t) : s, t \in Scores}
      resolved  == {Resolved(entries, i, o) :
                      i \in {j \in Positions(entries) : CanResolve(entries, j)},
                      o \in Outcomes}
      retracted == {Retracted(entries, i) : i \in Positions(entries)}
      recurred  == {Recurred(entries, ic[1], ic[2]) :
                      ic \in {jc \in Positions(entries) \X Cycles :
                                CanRecur(entries, jc[1], jc[2])}}
  IN  (IF Len(entries) < MaxEntries THEN added ELSE {})
        \cup resolved \cup retracted \cup recurred
-----------------------------------------------------------------------------
\* Mutation: retracted entries rank with the others.
KeptRetracted(entries, includeRetracted, min) ==
  {i \in Positions(entries) : entries[i].criticality >= min}

\* The positions List and ListWithRetracted keep under MinCriticality(min).
Kept(entries, includeRetracted, min) ==
  {i \in Positions(entries) :
     /\ includeRetracted \/ entries[i].resolution # "retracted"
     /\ entries[i].criticality >= min}

\* Partition of the live entries List returns: how many to act on now, and
\* how many to defer.
ActNow(entries, threshold) ==
  {i \in Kept(entries, FALSE, 0) : entries[i].criticality >= threshold}
Deferred(entries, threshold) ==
  {i \in Kept(entries, FALSE, 0) : entries[i].criticality < threshold}

Rollup(entries, threshold) ==
  LET retracted == {i \in Positions(entries) : entries[i].resolution = "retracted"}
      urgent    == {i \in Positions(entries) \ retracted :
                      entries[i].criticality >= threshold}
  IN  [total     |-> Len(entries),
       retracted |-> Cardinality(retracted),
       actNow    |-> Cardinality(urgent),
       deferred  |-> Cardinality((Positions(entries) \ retracted) \ urgent)]
=============================================================================
