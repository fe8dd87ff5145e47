---------------------------- MODULE Ledger_proofs ----------------------------
(***************************************************************************)
(* Proofs about Ledger for every set of scores, outcomes and cycles and    *)
(* every number of entries, whichever write fails or is interrupted.       *)
(***************************************************************************)
EXTENDS Ledger, FiniteSetTheorems, SequenceTheorems, TLAPS

(***************************************************************************)
(* What one accepted call makes of the entries.                            *)
(***************************************************************************)
\* Registers as calls build them: the recurrence counter counts the cycles.
Registers ==
  {entries \in Seq(Entry) :
     /\ Len(entries) <= MaxEntries
     /\ \A i \in Positions(entries) :
          entries[i].recurrence = Cardinality(entries[i].cycles)}

LEMMA EmptyRegister == << >> \in Registers
BY MaxEntriesAssumption DEF Registers, Positions

LEMMA CyclesCounted ==
  ASSUME NEW cycles \in SUBSET Cycles
  PROVE  IsFiniteSet(cycles) /\ Cardinality(cycles) \in 0 .. Cardinality(Cycles)
BY CyclesAssumption, FS_Subset, FS_CardinalityType

\* Replacing one entry by a continuation of it.
LEMMA ReplaceEntry ==
  ASSUME NEW entries \in Registers, NEW i \in Positions(entries), NEW e \in Entry,
         e.recurrence = Cardinality(e.cycles), Continues(entries[i], e)
  PROVE  /\ [entries EXCEPT ![i] = e] \in Registers
         /\ Later(entries, [entries EXCEPT ![i] = e])
<1> DEFINE new == [entries EXCEPT ![i] = e]
<1>1. entries \in Seq(Entry) /\ Len(entries) <= MaxEntries
  BY DEF Registers
<1>2. /\ new \in Seq(Entry)
      /\ Len(new) = Len(entries)
      /\ \A j \in 1 .. Len(entries) : new[j] = IF j = i THEN e ELSE entries[j]
  BY <1>1, ExceptSeq DEF Positions
<1>3. \A j \in Positions(entries) : new[j].recurrence = Cardinality(new[j].cycles)
  BY <1>2 DEF Registers, Positions
<1>4. \A j \in Positions(entries) : Continues(entries[j], new[j])
  BY <1>2 DEF Registers, Positions, Continues
<1> HIDE DEF new
<1>5. new \in Registers /\ Later(entries, new)
  BY <1>1, <1>2, <1>3, <1>4 DEF Registers, Later, Positions
<1> QED
  BY <1>5 DEF new

LEMMA AddEffect ==
  ASSUME NEW entries \in Registers, Len(entries) < MaxEntries,
         NEW s \in Scores, NEW t \in Scores
  PROVE  Added(entries, s, t) \in Registers /\ Later(entries, Added(entries, s, t))
<1> DEFINE e == [id |-> NextId(entries), criticality |-> s * t,
                 resolution |-> "none", recurrence |-> 0, cycles |-> {}]
<1>1. entries \in Seq(Entry) /\ Len(entries) \in Nat
  BY DEF Registers
<1>2. s \in 1 .. 5 /\ t \in 1 .. 5
  BY ScoresAssumption DEF MinScore, MaxScore
<1>3. s * t \in 1 .. 25
  BY <1>2, Z3
<1>4. Cardinality(Cycles) \in Nat
  BY CyclesAssumption, FS_CardinalityType
<1>5. e \in Entry
  BY <1>1, <1>3, <1>4, MaxEntriesAssumption DEF Entry, NextId, MaxScore, Resolutions
<1>6. e.recurrence = Cardinality(e.cycles)
  BY FS_EmptySet
<1> HIDE DEF e
<1> DEFINE new == Append(entries, e)
<1>7. /\ new \in Seq(Entry)
      /\ Len(new) = Len(entries) + 1
      /\ \A i \in 1 .. Len(entries) + 1 :
           new[i] = IF i <= Len(entries) THEN entries[i] ELSE e
  BY <1>1, <1>5
<1> HIDE DEF new
<1>8. \A i \in 1 .. Len(new) : new[i].recurrence = Cardinality(new[i].cycles)
  BY <1>1, <1>6, <1>7 DEF Registers, Positions
<1>9. new \in Registers
  BY <1>1, <1>7, <1>8, MaxEntriesAssumption DEF Registers, Positions
<1>10. Later(entries, new)
  BY <1>1, <1>7 DEF Later, Positions, Continues, Registers
<1> QED
  BY <1>9, <1>10 DEF Added, e, new

LEMMA ResolveEffect ==
  ASSUME NEW entries \in Registers, NEW i \in Positions(entries),
         NEW outcome \in Outcomes, CanResolve(entries, i)
  PROVE  /\ Resolved(entries, i, outcome) \in Registers
         /\ Later(entries, Resolved(entries, i, outcome))
<1> DEFINE e == [entries[i] EXCEPT !.resolution = outcome]
<1>1. entries[i] \in Entry /\ entries[i].recurrence = Cardinality(entries[i].cycles)
  BY DEF Registers, Positions
<1>2. e \in Entry /\ e.recurrence = Cardinality(e.cycles)
  BY <1>1 DEF Entry, Resolutions
<1>3. Continues(entries[i], e)
  BY <1>1, OutcomesAssumption DEF Entry, Continues, CanResolve
<1> QED
  BY <1>2, <1>3, ReplaceEntry DEF Resolved

LEMMA RetractEffect ==
  ASSUME NEW entries \in Registers, NEW i \in Positions(entries)
  PROVE  /\ Retracted(entries, i) \in Registers
         /\ Later(entries, Retracted(entries, i))
<1> DEFINE e == [entries[i] EXCEPT !.resolution = "retracted"]
<1>1. entries[i] \in Entry /\ entries[i].recurrence = Cardinality(entries[i].cycles)
  BY DEF Registers, Positions
<1>2. e \in Entry /\ e.recurrence = Cardinality(e.cycles)
  BY <1>1 DEF Entry, Resolutions
<1>3. Continues(entries[i], e)
  BY <1>1 DEF Entry, Continues
<1> QED
  BY <1>2, <1>3, ReplaceEntry DEF Retracted

LEMMA RecurEffect ==
  ASSUME NEW entries \in Registers, NEW i \in Positions(entries),
         NEW cycle \in Cycles, CanRecur(entries, i, cycle)
  PROVE  /\ Recurred(entries, i, cycle) \in Registers
         /\ Later(entries, Recurred(entries, i, cycle))
<1> DEFINE old == entries[i]
           e == [old EXCEPT !.cycles = @ \cup {cycle}, !.recurrence = @ + 1]
<1>1. old \in Entry /\ old.recurrence = Cardinality(old.cycles)
  BY DEF Registers, Positions
<1>2. old.cycles \in SUBSET Cycles
  BY <1>1 DEF Entry
<1>3. Cardinality(old.cycles \cup {cycle}) = Cardinality(old.cycles) + 1
  BY <1>2, CyclesCounted, FS_AddElement DEF CanRecur
<1>4. Cardinality(old.cycles \cup {cycle}) \in 0 .. Cardinality(Cycles)
  BY <1>2, CyclesCounted
<1>5. e \in Entry /\ e.recurrence = Cardinality(e.cycles)
  BY <1>1, <1>2, <1>3, <1>4 DEF Entry
<1>6. Continues(old, e)
  BY <1>1, <1>5 DEF Entry, Continues, CanRecur
<1>7. Recurred(entries, i, cycle) = [entries EXCEPT ![i] = e]
  BY DEF Recurred, Registers, Positions
<1> HIDE DEF e
<1> QED
  BY <1>5, <1>6, <1>7, ReplaceEntry

LEMMA ChangesEffect ==
  ASSUME NEW entries \in Registers, NEW later \in Changes(entries)
  PROVE  later \in Registers /\ Later(entries, later)
<1>1. CASE Len(entries) < MaxEntries /\ \E s, t \in Scores : later = Added(entries, s, t)
  BY <1>1, AddEffect
<1>2. CASE \E i \in Positions(entries), o \in Outcomes :
             CanResolve(entries, i) /\ later = Resolved(entries, i, o)
  BY <1>2, ResolveEffect
<1>3. CASE \E i \in Positions(entries) : later = Retracted(entries, i)
  BY <1>3, RetractEffect
<1>4. CASE \E i \in Positions(entries), c \in Cycles :
             CanRecur(entries, i, c) /\ later = Recurred(entries, i, c)
  BY <1>4, RecurEffect
<1> QED
  BY <1>1, <1>2, <1>3, <1>4 DEF Changes

LEMMA LaterRefl ==
  ASSUME NEW entries \in Registers PROVE Later(entries, entries)
BY DEF Later, Continues, Registers, Positions

LEMMA LaterTrans ==
  ASSUME NEW a \in Registers, NEW b \in Registers, NEW c \in Registers,
         Later(a, b), Later(b, c)
  PROVE  Later(a, c)
<1>1. Len(a) \in Nat /\ Len(b) \in Nat /\ Len(c) \in Nat
  BY DEF Registers
<1>2. \A i \in Positions(a) : i \in Positions(b)
  BY <1>1 DEF Later, Positions
<1> QED
  BY <1>1, <1>2 DEF Later, Continues
-----------------------------------------------------------------------------
(***************************************************************************)
(* Types.  LedgerTypeOK is not inductive: that the entries being persisted *)
(* are one call's change of the handle's keeps the counters in range.      *)
(***************************************************************************)
TypeInv ==
  /\ json = Absent \/ json \in Registers
  /\ mirror = Absent \/ mirror \in Registers
  /\ mem \in Registers /\ next \in Registers /\ acked \in Registers
  /\ phase \in {"closed", "open", "failed", "json", "mirror"}
  /\ faults \in 0 .. MaxFaults
  /\ torn \in BOOLEAN /\ lost \in BOOLEAN
  /\ phase = "json" => next \in Changes(mem)

LEMMA StoredRegister ==
  ASSUME TypeInv PROVE Stored \in Registers
BY EmptyRegister DEF TypeInv, Stored

LEMMA TypeStep == TypeInv /\ [Next]_vars => TypeInv'
<1> SUFFICES ASSUME TypeInv, [Next]_vars PROVE TypeInv'
  OBVIOUS
<1> USE DEF files, past
<1>1. CASE Open
  BY <1>1, StoredRegister DEF Open, TypeInv
<1>2. CASE Call
  <2>1. next' \in Registers
    BY <1>2, ChangesEffect DEF Call, TypeInv
  <2> QED
    BY <1>2, <2>1 DEF Call, TypeInv
<1>3. CASE Refuse
  BY <1>3 DEF Refuse, TypeInv
<1>4. CASE RecurAgain
  BY <1>4 DEF RecurAgain, TypeInv
<1>5. CASE WriteJSON
  BY <1>5 DEF WriteJSON, TypeInv
<1>6. CASE JSONFails
  BY <1>6, EmptyRegister DEF JSONFails, TypeInv
<1>7. CASE WriteMirror
  BY <1>7, EmptyRegister DEF WriteMirror, TypeInv
<1>8. CASE MirrorFails
  BY <1>8, EmptyRegister, MaxFaultsAssumption DEF MirrorFails, TypeInv
<1>9. CASE Exit
  BY <1>9, EmptyRegister, MaxFaultsAssumption DEF Exit, TypeInv
<1>10. CASE UNCHANGED vars
  BY <1>10 DEF vars, TypeInv
<1> QED
  BY <1>1, <1>2, <1>3, <1>4, <1>5, <1>6, <1>7, <1>8, <1>9, <1>10 DEF Next

LEMMA TypeInvariant == Spec => []TypeInv
<1>1. Init => TypeInv
  <2>1. 0 \in 0 .. MaxFaults
    BY MaxFaultsAssumption
  <2> QED
    BY EmptyRegister, <2>1 DEF Init, TypeInv
<1> QED
  BY <1>1, TypeStep, PTL DEF Spec

\* The handle and both files hold well-formed registers, whatever fails.
THEOREM TypeCorrect == Spec => []LedgerTypeOK
<1>1. TypeInv => LedgerTypeOK
  BY DEF TypeInv, LedgerTypeOK, Registers
<1> QED
  BY <1>1, TypeInvariant, PTL
-----------------------------------------------------------------------------
(***************************************************************************)
(* Counting.  Rollup's three counts and Partition's two slices split the   *)
(* same positions.                                                         *)
(***************************************************************************)
LEMMA SplitCount ==
  ASSUME NEW S, IsFiniteSet(S), NEW T \in SUBSET S
  PROVE  /\ Cardinality(T) \in Nat /\ Cardinality(S \ T) \in Nat
         /\ Cardinality(S) = Cardinality(T) + Cardinality(S \ T)
<1>1. IsFiniteSet(T) /\ IsFiniteSet(S \ T)
  BY FS_Subset
<1>2. S = T \cup (S \ T) /\ T \cap (S \ T) = {}
  OBVIOUS
<1>3. Cardinality(T) \in Nat /\ Cardinality(S \ T) \in Nat
  BY <1>1, FS_CardinalityType
<1>4. Cardinality(T \cup (S \ T)) =
        Cardinality(T) + Cardinality(S \ T) - Cardinality(T \cap (S \ T))
  BY <1>1, <1>2, FS_Union
<1>5. Cardinality(T \cap (S \ T)) = 0
  BY <1>2, FS_EmptySet, Zenon
<1>6. Cardinality(T \cup (S \ T)) = Cardinality(S)
  BY <1>2, Zenon
<1> QED
  BY <1>3, <1>4, <1>5, <1>6

LEMMA CriticalityType ==
  ASSUME NEW entries \in Registers, NEW i \in Positions(entries)
  PROVE  entries[i].criticality \in Nat
<1>1. entries[i] \in Entry
  BY DEF Registers, Positions
<1>2. entries[i].criticality \in 1 .. MaxScore * MaxScore
  BY <1>1 DEF Entry
<1> QED
  BY <1>2 DEF MaxScore

LEMMA RollupCounts ==
  ASSUME NEW entries \in Registers, NEW t \in Int
  PROVE  LET r == Rollup(entries, t)
         IN  /\ r.total = r.actNow + r.deferred + r.retracted
             /\ r.actNow = Cardinality(ActNow(entries, t))
             /\ r.deferred = Cardinality(Deferred(entries, t))
<1> DEFINE all == Positions(entries)
           retracted == {i \in all : entries[i].resolution = "retracted"}
           live == all \ retracted
           urgent == {i \in live : entries[i].criticality >= t}
<1>1. Len(entries) \in Nat /\ \A i \in all : entries[i].criticality \in Nat
  BY CriticalityType DEF Registers, Positions
<1>2. IsFiniteSet(all) /\ Cardinality(all) = Len(entries)
  <2>1. IsFiniteSet(1 .. Len(entries)) /\ Cardinality(1 .. Len(entries)) = Len(entries)
    BY <1>1, FS_Interval
  <2> QED
    BY <2>1 DEF Positions
<1>3. Kept(entries, FALSE, 0) = live
  BY <1>1 DEF Kept
<1>4. ActNow(entries, t) = urgent
  BY <1>3 DEF ActNow
<1>5. Deferred(entries, t) = live \ urgent
  <2>1. \A i \in live : entries[i].criticality < t <=> ~(entries[i].criticality >= t)
    BY <1>1
  <2> QED
    BY <1>3, <2>1, Zenon DEF Deferred
<1>6. IsFiniteSet(live)
  <2>1. live \in SUBSET all
    OBVIOUS
  <2> QED
    BY <1>2, <2>1, FS_Subset
<1>7. Rollup(entries, t) =
        [total |-> Len(entries), retracted |-> Cardinality(retracted),
         actNow |-> Cardinality(urgent), deferred |-> Cardinality(live \ urgent)]
  BY Zenon DEF Rollup
<1>8. retracted \in SUBSET all /\ urgent \in SUBSET live
  OBVIOUS
<1> HIDE DEF all, retracted, urgent
<1>9. /\ Cardinality(retracted) \in Nat /\ Cardinality(all \ retracted) \in Nat
      /\ Cardinality(all) = Cardinality(retracted) + Cardinality(all \ retracted)
  BY <1>2, <1>8, SplitCount
<1>10. /\ Cardinality(urgent) \in Nat /\ Cardinality(live \ urgent) \in Nat
       /\ Cardinality(live) = Cardinality(urgent) + Cardinality(live \ urgent)
  BY <1>6, <1>8, SplitCount
<1> QED
  BY <1>2, <1>4, <1>5, <1>7, <1>9, <1>10

\* Rollup and Partition account for every entry at every threshold, also those
\* the runs do not try.
THEOREM RollupTotal == Spec => []RollupAccountsForAll
<1>1. TypeInv => RollupAccountsForAll
  <2> SUFFICES ASSUME TypeInv, NEW t \in Thresholds
               PROVE  Accounts(t)
    BY Zenon DEF RollupAccountsForAll
  <2>1. mem \in Registers
    BY DEF TypeInv
  <2>2. \A i \in Positions(mem) : mem[i].criticality \in Int
    BY <2>1, CriticalityType
  <2>3. t \in Int
    BY <2>2 DEF Thresholds
  <2> QED
    BY <2>1, <2>3, RollupCounts DEF Accounts
<1> QED
  BY <1>1, TypeInvariant, PTL
-----------------------------------------------------------------------------
(***************************************************************************)
(* The two files and the handle.  The JSON file, while it is there, holds  *)
(* what an open handle does or is one accepted call ahead of it: a call    *)
(* cut off after the JSON's rename, or one whose mirror failed and whose   *)
(* JSON could not be removed.                                              *)
(***************************************************************************)
PairInv ==
  /\ phase \in {"json", "mirror"} => next \in Changes(mem)
  /\ phase = "mirror" => json = next
  /\ MirrorAgrees

AheadInv ==
  phase # "closed" /\ json # Absent => json = mem \/ json \in Changes(mem)

KeptInv ==
  lost \/ /\ json # Absent => Later(acked, json)
          /\ phase # "closed" => Later(acked, mem)
          /\ phase = "closed" /\ json = Absent => acked = << >>

LEMMA NeverAbsent == \A entries \in Registers : entries # Absent
BY AbsentAssumption DEF Registers

LEMMA PairStep == TypeInv /\ PairInv /\ [Next]_vars => PairInv'
BY DEF TypeInv, PairInv, MirrorAgrees, Next, vars, files, past, Open, Call, Refuse,
       RecurAgain, WriteJSON, JSONFails, WriteMirror, MirrorFails, Exit

LEMMA AheadStep == TypeInv /\ PairInv /\ AheadInv /\ [Next]_vars => AheadInv'
BY DEF PairInv, AheadInv, Stored, Next, vars, files, past, Open, Call, Refuse,
       RecurAgain, WriteJSON, JSONFails, WriteMirror, MirrorFails, Exit

LEMMA KeptStep ==
  TypeInv /\ PairInv /\ AheadInv /\ KeptInv /\ [Next]_vars => KeptInv'
<1> SUFFICES ASSUME TypeInv, PairInv, AheadInv, KeptInv, [Next]_vars, ~lost'
             PROVE  /\ json' # Absent => Later(acked', json')
                    /\ phase' # "closed" => Later(acked', mem')
                    /\ phase' = "closed" /\ json' = Absent => acked' = << >>
  BY DEF KeptInv
<1>0. /\ acked \in Registers /\ mem \in Registers /\ next \in Registers
      /\ json = Absent \/ json \in Registers
      /\ << >> \in Registers
  BY EmptyRegister DEF TypeInv
<1> DEFINE Kept0 == /\ json # Absent => Later(acked, json)
                    /\ phase # "closed" => Later(acked, mem)
                    /\ phase = "closed" /\ json = Absent => acked = << >>
<1>1. CASE Open
  <2>1. Kept0
    BY <1>1 DEF Open, past, KeptInv
  <2> QED
    BY <1>0, <1>1, <2>1, LaterRefl DEF Open, files, past, Stored
<1>2. CASE RecurAgain
  <2>1. json # Absent => Later(mem, json)
    BY <1>0, <1>2, ChangesEffect, LaterRefl DEF AheadInv, RecurAgain
  <2> QED
    BY <1>0, <1>2, <2>1, LaterRefl DEF RecurAgain, files
<1>3. CASE WriteJSON
  <2>1. Kept0 /\ next \in Changes(mem)
    BY <1>3 DEF WriteJSON, past, KeptInv, PairInv
  <2>2. Later(acked, next)
    BY <1>0, <1>3, <2>1, ChangesEffect, LaterTrans DEF WriteJSON
  <2> QED
    BY <1>3, <2>1, <2>2 DEF WriteJSON, past
<1>4. CASE WriteMirror
  BY <1>0, <1>4, LaterRefl DEF WriteMirror, PairInv
<1>5. CASE Call \/ Refuse \/ JSONFails \/ MirrorFails
  <2>1. Kept0 /\ phase # "closed" /\ phase' # "closed"
    BY <1>5 DEF Call, Refuse, JSONFails, MirrorFails, past, KeptInv
  <2>2. UNCHANGED <<mem, acked>> /\ json' \in {Absent, json}
    BY <1>5 DEF Call, Refuse, JSONFails, MirrorFails, past, files
  <2> QED
    BY <2>1, <2>2
<1>6. CASE Exit
  BY <1>6 DEF Exit, KeptInv, files
<1>7. CASE UNCHANGED vars
  BY <1>7 DEF vars, files, past, KeptInv
<1> QED
  BY <1>1, <1>2, <1>3, <1>4, <1>5, <1>6, <1>7 DEF Next

LedgerInv == TypeInv /\ PairInv /\ AheadInv /\ KeptInv

LEMMA LedgerInvariant == Spec => []LedgerInv
<1>1. Init => PairInv /\ AheadInv /\ KeptInv
  BY DEF Init, PairInv, MirrorAgrees, AheadInv, KeptInv
<1> QED
  BY <1>1, TypeInvariant, PairStep, AheadStep, KeptStep, PTL DEF Spec, LedgerInv

\* No acknowledged entry is forgotten or goes back, whichever write fails or
\* is interrupted, but by a process that ends while its JSON file is removed.
THEOREM NothingForgotten == Spec => []AckedEntriesKept
<1>1. LedgerInv => AckedEntriesKept
  <2> SUFFICES ASSUME LedgerInv, ~lost PROVE Later(acked, Held)
    BY DEF AckedEntriesKept
  <2> QED
    BY EmptyRegister, LaterRefl DEF LedgerInv, KeptInv, Held, Stored
<1> QED
  BY <1>1, LedgerInvariant, PTL

\* The mirror shows what the JSON holds until a pair is broken off between the
\* two, and again from the next pair that is not.
THEOREM Aligned == Spec => []MirrorAgrees
<1>1. LedgerInv => MirrorAgrees
  BY DEF LedgerInv, PairInv
<1> QED
  BY <1>1, LedgerInvariant, PTL

\* An open handle's copy changes only with a success that is reported.
THEOREM HandleFollows == Spec => HandleFollowsAcks
<1> DEFINE A == phase # "closed" /\ phase' # "closed" /\ mem' # mem
                 => phase' = "open" /\ mem' = acked'
<1>1. [Next]_vars => [A]_vars
  BY DEF Next, vars, Open, Call, Refuse, RecurAgain, WriteJSON, JSONFails, WriteMirror,
         MirrorFails, Exit
<1> HIDE DEF A
<1>2. Spec => [][A]_vars
  BY <1>1, PTL DEF Spec
<1> QED
  BY <1>2 DEF HandleFollowsAcks, A
-----------------------------------------------------------------------------
(***************************************************************************)
(* Refinement.  WriteMirror, and Exit after the JSON's rename, accept a    *)
(* call; Exit without a JSON file starts over.                             *)
(***************************************************************************)
LEMMA SameChanges == \A entries : Register!Changes(entries) = Changes(entries)
BY DEF Register!Changes, Changes, Register!Added, Added, Register!NextId, NextId,
       Register!Resolved, Resolved, Register!CanResolve, CanResolve,
       Register!Retracted, Retracted, Register!CanRecur, CanRecur,
       Register!Recurred, Recurred, Register!Positions, Positions

LEMMA RefinementStep ==
  ASSUME LedgerInv, [Next]_vars
  PROVE  [Register!Next]_(Register!vars)
<1> USE DEF Register!vars
<1>0. /\ next \in Registers /\ next # Absent
      /\ phase \in {"closed", "open", "failed", "json", "mirror"}
  BY NeverAbsent DEF LedgerInv, TypeInv
<1>1. ASSUME Contents' \in Changes(Contents), json' # Absent PROVE Register!Accept
  BY <1>1, SameChanges DEF Register!Accept
<1>2. ASSUME UNCHANGED Contents PROVE Register!LoseFile \/ Register!Refile
  BY <1>2 DEF Register!LoseFile, Register!Refile
<1>3. CASE Open
  BY <1>2, <1>3 DEF Open, files, Contents, Stored
<1>4. CASE Call \/ Refuse \/ RecurAgain \/ WriteJSON \/ JSONFails \/ MirrorFails
  <2>1. mem' = mem /\ phase # "closed" /\ phase' # "closed"
    BY <1>4 DEF Call, Refuse, RecurAgain, WriteJSON, JSONFails, MirrorFails
  <2> QED
    BY <1>2, <2>1 DEF Contents, Register!Next
<1>5. CASE WriteMirror
  <2>1. Contents = mem /\ Contents' = next /\ json' # Absent /\ next \in Changes(mem)
    BY <1>0, <1>5 DEF WriteMirror, Contents, LedgerInv, PairInv
  <2> QED
    BY <1>1, <2>1 DEF Register!Next
<1>6. CASE Exit
  <2>1. Contents = mem /\ Contents' = Stored /\ json' = json
    BY <1>6 DEF Exit, files, Contents, Stored
  <2>2. CASE json = Absent
    BY <2>1, <2>2 DEF Stored, Register!StartOver, Register!Next
  <2>3. CASE json # Absent
    <3>1. json = mem \/ json \in Changes(mem)
      BY <1>6, <2>3 DEF Exit, LedgerInv, AheadInv
    <3> QED
      BY <1>1, <1>2, <2>1, <2>3, <3>1 DEF Stored, Register!Next
  <2> QED
    BY <2>2, <2>3
<1>7. CASE UNCHANGED vars
  BY <1>7 DEF vars, files, Contents, Stored
<1> QED
  BY <1>2, <1>3, <1>4, <1>5, <1>6, <1>7 DEF Next, Register!Next

\* The two files and the handle implement one register changed in single steps,
\* whichever write fails; it starts over only without a file.
THEOREM Refinement == Spec => RegisterSpec
<1>1. Init => Register!Init
  BY DEF Init, Register!Init, Contents, Stored
<1>2. LedgerInv /\ [Next]_vars => [Register!Next]_(Register!vars)
  BY RefinementStep
<1> QED
  BY <1>1, <1>2, LedgerInvariant, PTL DEF Spec, RegisterSpec, Register!Spec
=============================================================================
