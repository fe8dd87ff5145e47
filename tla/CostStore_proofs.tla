--------------------------- MODULE CostStore_proofs ---------------------------
(***************************************************************************)
(* Proofs about CostStore, for every set of processes and transcripts,     *)
(* every roster, with or without blank lines and growing transcripts:      *)
(* every turn is accounted for, the abstract ledger is implemented and an  *)
(* answer about a past day is final.                                       *)
(***************************************************************************)
EXTENDS CostStore, FiniteSetTheorems, SequenceTheorems, WellFoundedInduction, TLAPS

(***************************************************************************)
(* The inductive invariant.                                                *)
(***************************************************************************)
Lines(p) == Len(Turns(transcript[p]))
TurnOf(p, n) == Turns(transcript[p])[n]
ModelOf(p, n) == TurnOf(p, n).model
\* A line that has to have an event: it was billable, or never parses.
Owed(p, n) == ModelOf(p, n) \in Models \/ TurnOf(p, n) = Garbled
Holds(q) == pc[q] \in {"walk", "commit"}

\* The event of the n-th turn of p is among some events.
Accounted(some, p, n) ==
  \E e \in some : e.path = p /\ e.line = n /\ (e.errored \/ e.model = ModelOf(p, n))
\* So is the event of a line that is still torn.
TornIn(some, p) == \E e \in some : e.path = p /\ e.line = Lines(p)

Bounded == \A p \in Paths : Len(transcript[p].lines) <= MaxLines /\ watermark[p] <= Lines(p)
Filed == \A e \in events : e.line <= watermark[e.path]
OneWriter == \A q \in Procs : Holds(q) => writer = q
Marked == \A q \in Procs : pc[q] # "idle" => job[q].mark <= watermark[job[q].path]
Dated ==
  /\ \A r \in rows : r.asOf <= day
  /\ \A q \in Procs : Holds(q) => job[q].day <= day /\ \A r \in rows : r.asOf <= job[q].day
TornAccounted ==
  \A p \in Paths : transcript[p].torn /\ Lines(p) <= watermark[p] /\ 1 <= Lines(p) => TornIn(events, p)
OneRate == Ledger!OnePerDateAndRate(rows)

\* What a process is about to commit carries on where the tables end.
StagedEvents(q) ==
  LET j == job[q] IN
  /\ \A e \in j.events : e.path = j.path /\ e.line \in watermark[j.path] + 1 .. j.upto
  /\ \A n \in j.mark + 1 .. j.upto : Owed(j.path, n) => Accounted(j.events, j.path, n)
  /\ transcript[j.path].torn /\ Lines(j.path) = j.upto /\ j.mark < j.upto => TornIn(j.events, j.path)
  /\ Ledger!OnePerLine(j.events)
StagedRows(q) ==
  LET j == job[q] IN
  /\ rows \subseteq j.rows
  /\ \A r \in j.rows \ rows : r.asOf = j.day /\ \E e \in j.events : e.model = r.model /\ e.rate = r.rate
  /\ Ledger!OnePerDateAndRate(j.rows)
Stage(q) ==
  /\ watermark[job[q].path] <= job[q].upto /\ job[q].upto <= Lines(job[q].path)
  /\ StagedEvents(q) /\ StagedRows(q)
Staged == \A q \in Procs : pc[q] = "commit" => Stage(q)

IInv ==
  /\ CostTypeOK /\ Bounded /\ Filed /\ OneWriter /\ Marked /\ Dated
  /\ EveryTurnAccounted /\ TornAccounted /\ OneRate /\ Staged

(***************************************************************************)
(* The turns of a transcript, by induction over its lines.                 *)
(***************************************************************************)
LEMMA SetInduction ==
  ASSUME NEW S, 0 \in S, \A n \in Nat : n \in S => n + 1 \in S
  PROVE  Nat \subseteq S
PROOF
<1> SUFFICES ASSUME Nat \ S # {} PROVE FALSE
  OBVIOUS
<1> DEFINE below == {mn \in Nat \X Nat : mn[1] < mn[2]}
           T == Nat \ S
<1>1. IsWellFoundedOn(below, Nat)
  BY NatLessThanWellFounded DEF OpToRel
<1>2. T \subseteq Nat /\ T # {}
  OBVIOUS
<1> HIDE DEF below, T
<1>3. PICK x \in T : \A y \in T : <<y, x>> \notin below
  BY <1>1, <1>2, WFMin
<1> USE DEF below, T
<1>4. x # 0 /\ x - 1 \in Nat /\ x - 1 < x
  BY <1>3
<1>5. x - 1 \notin T
  BY <1>3, <1>4
<1>6. x - 1 + 1 \in S
  BY <1>4, <1>5
<1> QED  BY <1>3, <1>4, <1>6

\* One line of the walk, and what the walk has seen after each of n lines.
Walked(l, g, i) ==
  IF i = 0 THEN << >> ELSE IF l[i] = Blank THEN g[i - 1] ELSE Append(g[i - 1], l[i])
IsWalk(l, n, g) == g = [i \in 0 .. n |-> Walked(l, g, i)]

LEMMA WalkExists == ASSUME NEW l, NEW n \in Nat PROVE \E g : IsWalk(l, n, g)
PROOF
<1> DEFINE S == {k \in Nat : \E g : IsWalk(l, k, g)}
<1>1. 0 \in S
  <2>1. IsWalk(l, 0, [i \in 0 .. 0 |-> <<>>])
    BY DEF IsWalk, Walked
  <2> QED  BY <2>1
<1>2. ASSUME NEW k \in Nat, k \in S PROVE k + 1 \in S
  <2>1. PICK g : IsWalk(l, k, g)
    BY <1>2
  <2> DEFINE h == [i \in 0 .. k + 1 |-> IF i = k + 1 THEN Walked(l, g, i) ELSE g[i]]
  <2>2. ASSUME NEW i \in 0 .. k + 1 PROVE h[i] = Walked(l, h, i)
    <3>1. CASE i = 0
      BY <2>1, <3>1 DEF IsWalk, Walked
    <3>2. CASE i # 0 /\ i # k + 1
      <4>1. i \in 0 .. k /\ i - 1 \in 0 .. k + 1 /\ i - 1 # k + 1
        BY <3>2
      <4>2. h[i - 1] = g[i - 1] /\ h[i] = g[i]
        BY <4>1, <3>2
      <4>3. g[i] = Walked(l, g, i)
        BY <2>1, <4>1 DEF IsWalk
      <4> QED  BY <4>2, <4>3, <3>2 DEF Walked
    <3>3. CASE i = k + 1
      <4>1. i - 1 \in 0 .. k + 1 /\ i - 1 # k + 1
        BY <3>3
      <4>2. h[i - 1] = g[i - 1] /\ h[i] = Walked(l, g, i)
        BY <4>1, <3>3
      <4> QED  BY <4>2, <3>3 DEF Walked
    <3> QED  BY <3>1, <3>2, <3>3
  <2>3. IsWalk(l, k + 1, h)
    BY <2>2 DEF IsWalk
  <2> QED  BY <2>3
<1> HIDE DEF S
<1> QED  BY <1>1, <1>2, SetInduction DEF S

LEMMA TurnsWalk == ASSUME NEW t, Len(t.lines) \in Nat
                   PROVE \E g : IsWalk(t.lines, Len(t.lines), g) /\ Turns(t) = g[Len(t.lines)]
PROOF
<1>1. Turns(t) = (CHOOSE g : IsWalk(t.lines, Len(t.lines), g))[Len(t.lines)]
  BY DEF Turns, IsWalk, Walked
<1> QED  BY <1>1, WalkExists

\* Two walks see the same as long as they meet the same lines.
LEMMA WalksAgree ==
  ASSUME NEW l, NEW k, NEW m \in Nat, NEW n \in Nat, NEW g, NEW h, IsWalk(l, m, g), IsWalk(k, n, h),
         m <= n, \A i \in 1 .. m : l[i] = k[i]
  PROVE  g[m] = h[m]
PROOF
<1> DEFINE S == {i \in Nat : i <= m => g[i] = h[i]}
<1>1. 0 \in S
  BY DEF IsWalk, Walked
<1>2. ASSUME NEW i \in Nat, i \in S PROVE i + 1 \in S
  <2> SUFFICES ASSUME i + 1 <= m PROVE g[i + 1] = h[i + 1]
    OBVIOUS
  <2>1. i + 1 \in 0 .. m /\ i + 1 \in 0 .. n /\ i + 1 # 0 /\ i + 1 - 1 = i /\ i + 1 \in 1 .. m
    OBVIOUS
  <2>2. g[i] = h[i]
    BY <1>2
  <2>3. g[i + 1] = Walked(l, g, i + 1) /\ h[i + 1] = Walked(k, h, i + 1)
    BY <2>1 DEF IsWalk
  <2> QED  BY <2>1, <2>2, <2>3 DEF Walked
<1> HIDE DEF S
<1>3. Nat \subseteq S
  BY <1>1, <1>2, SetInduction
<1> QED  BY <1>3, m \in S DEF S

Transcripts == [lines : Seq(Line), torn : BOOLEAN]

\* The turns are lines, no more of them than there are.
LEMMA TurnsType ==
  ASSUME NEW t \in Transcripts
  PROVE  Turns(t) \in Seq(Line) /\ Len(Turns(t)) \in Nat /\ Len(Turns(t)) <= Len(t.lines)
PROOF
<1>1. t.lines \in Seq(Line) /\ Len(t.lines) \in Nat
  BY DEF Transcripts
<1>2. PICK g : IsWalk(t.lines, Len(t.lines), g) /\ Turns(t) = g[Len(t.lines)]
  BY <1>1, TurnsWalk
<1> DEFINE n == Len(t.lines)
           S == {i \in Nat : i <= n => g[i] \in Seq(Line) /\ Len(g[i]) <= i}
<1>3. 0 \in S
  <2>1. g[0] = <<>>
    BY <1>1, <1>2 DEF IsWalk, Walked
  <2>2. g[0] \in Seq(Line)
    BY <2>1
  <2>3. Len(g[0]) = 0
    BY <2>1
  <2> QED  BY <2>2, <2>3
<1>4. ASSUME NEW i \in Nat, i \in S PROVE i + 1 \in S
  <2> SUFFICES ASSUME i + 1 <= n PROVE g[i + 1] \in Seq(Line) /\ Len(g[i + 1]) <= i + 1
    OBVIOUS
  <2>1. g[i] \in Seq(Line) /\ Len(g[i]) <= i /\ Len(g[i]) \in Nat
    BY <1>1, <1>4
  <2>2. i + 1 \in 0 .. n /\ i + 1 # 0 /\ i + 1 - 1 = i /\ i + 1 \in 1 .. n
    BY <1>1
  <2>3. g[i + 1] = IF t.lines[i + 1] = Blank THEN g[i] ELSE Append(g[i], t.lines[i + 1])
    <3>1. g[i + 1] = Walked(t.lines, g, i + 1)
      BY <1>2, <2>2 DEF IsWalk
    <3> QED  BY <2>2, <3>1 DEF Walked
  <2>4. t.lines[i + 1] \in Line
    BY <1>1, <2>2
  <2>5. CASE t.lines[i + 1] = Blank
    BY <2>1, <2>3, <2>5
  <2>6. CASE t.lines[i + 1] # Blank
    <3> DEFINE x == t.lines[i + 1]
    <3>1. x \in Line /\ g[i + 1] = Append(g[i], x)
      BY <2>3, <2>4, <2>6
    <3> HIDE DEF x
    <3> QED  BY <2>1, <3>1
  <2> QED  BY <2>5, <2>6
<1> HIDE DEF S
<1>5. Nat \subseteq S
  BY <1>3, <1>4, SetInduction
<1>6. g[n] \in Seq(Line) /\ Len(g[n]) <= n
  BY <1>1, <1>5 DEF S
<1> QED  BY <1>2, <1>6

\* A line more is a turn more, if it is not blank.
LEMMA TurnsAppend ==
  ASSUME NEW t \in Transcripts, NEW u \in Transcripts, NEW x \in Line, u.lines = Append(t.lines, x)
  PROVE  Turns(u) = IF x = Blank THEN Turns(t) ELSE Append(Turns(t), x)
PROOF
<1> DEFINE old == t.lines
           new == u.lines
           a == Len(old)
<1>1. a \in Nat /\ Len(new) = a + 1 /\ new[a + 1] = x /\ \A i \in 1 .. a : old[i] = new[i]
  BY DEF Transcripts
<1>2. PICK g : IsWalk(old, a, g) /\ Turns(t) = g[a]
  BY <1>1, TurnsWalk
<1> DEFINE b == Len(new)
<1>3. PICK h : IsWalk(new, b, h) /\ Turns(u) = h[b]
  <2>1. Len(u.lines) \in Nat
    BY <1>1
  <2> QED  BY <2>1, TurnsWalk
<1>4. b \in Nat /\ a <= b /\ b - 1 = a /\ b \in 0 .. b /\ b # 0 /\ a \in 0 .. a /\ new[b] = x
  BY <1>1
<1> HIDE DEF old, new, a, b
<1>5. g[a] = h[a]
  <2>1. a \in Nat /\ b \in Nat /\ a <= b /\ \A i \in 1 .. a : old[i] = new[i]
    BY <1>1, <1>4
  <2>2. IsWalk(old, a, g) /\ IsWalk(new, b, h)
    BY <1>2, <1>3
  <2> QED  BY <2>1, <2>2, WalksAgree
<1>6. h[b] = IF new[b] = Blank THEN h[b - 1] ELSE Append(h[b - 1], new[b])
  <2>1. h[b] = Walked(new, h, b)
    BY <1>3, <1>4 DEF IsWalk
  <2> QED  BY <1>4, <2>1 DEF Walked
<1> QED  BY <1>2, <1>3, <1>4, <1>5, <1>6

LEMMA TurnsOfLines == ASSUME NEW t, NEW u, t.lines = u.lines PROVE Turns(t) = Turns(u)
PROOF BY DEF Turns

LEMMA TurnsEmpty == ASSUME NEW b \in BOOLEAN PROVE Turns([lines |-> << >>, torn |-> b]) = << >>
PROOF
<1> DEFINE t == [lines |-> << >>, torn |-> b]
<1>1. Len(t.lines) = 0
  OBVIOUS
<1>2. PICK g : IsWalk(t.lines, 0, g) /\ Turns(t) = g[0]
  BY <1>1, TurnsWalk
<1> QED  BY <1>2 DEF IsWalk, Walked

(***************************************************************************)
(* How a transcript grows.                                                 *)
(***************************************************************************)
\* The bound on lines of all transcripts bounds each.
LEMMA NotFull ==
  ASSUME CostTypeOK, NEW p \in Paths, Cardinality(Written) < MaxLines
  PROVE  Len(transcript[p].lines) < MaxLines
PROOF
<1>n. PICK n \in Nat : n = Len(transcript[p].lines)
  BY DEF CostTypeOK
<1> DEFINE those == {p} \X (1 .. MaxLines)
<1>1. n \in Nat /\ MaxLines \in Nat
  BY BoundsAssumption
<1> SUFFICES n < MaxLines
  BY <1>n
<1> SUFFICES ASSUME n >= MaxLines PROVE FALSE
  BY <1>1
<1>2. those \subseteq Written
  <2>1. SUFFICES ASSUME NEW w \in those PROVE w \in Written
    OBVIOUS
  <2>2. PICK i \in 1 .. MaxLines : w = <<p, i>>
    OBVIOUS
  <2>3. i <= n
    BY <1>1
  <2>4. w \in Paths \X (1 .. MaxLines)
    OBVIOUS
  <2>5. w[1] = p /\ w[2] = i
    BY <2>2
  <2>6. w[2] <= Len(transcript[w[1]].lines)
    BY <1>n, <2>3, <2>5
  <2> QED  BY <2>4, <2>6 DEF Written
<1>3. IsFiniteSet(1 .. MaxLines) /\ Cardinality(1 .. MaxLines) = MaxLines
  BY <1>1, FS_Interval
<1>4. IsFiniteSet(Written)
  <2>1. IsFiniteSet(Paths \X (1 .. MaxLines))
    BY <1>3, PathsAssumption, FS_Product
  <2> QED  BY <2>1, FS_Subset DEF Written
<1>5. Cardinality(those) = MaxLines
  <2>1. IsFiniteSet({p}) /\ Cardinality({p}) = 1
    BY FS_Singleton
  <2>2. Cardinality(those) = Cardinality({p}) * Cardinality(1 .. MaxLines)
    BY <1>3, <2>1, FS_Product, Zenon
  <2> QED  BY <1>1, <1>3, <2>1, <2>2
<1>6. Cardinality(those) <= Cardinality(Written)
  BY <1>2, <1>4, FS_Subset
<1>7. Cardinality(Written) \in Nat
  BY <1>4, FS_CardinalityType
<1> QED  BY <1>1, <1>5, <1>6, <1>7

\* The session only adds: lines and turns stay, and nothing is torn again.
Longer(t, u) ==
  /\ Len(Turns(t)) <= Len(Turns(u))
  /\ \A n \in 1 .. Len(Turns(t)) : Turns(u)[n] = Turns(t)[n]
  /\ u.torn /\ Len(Turns(u)) = Len(Turns(t)) => t.torn

LEMMA LongerSelf == ASSUME NEW t \in Transcripts PROVE Longer(t, t)
PROOF BY TurnsType DEF Longer

LEMMA Growth ==
  ASSUME CostTypeOK, Bounded, NEW p \in Paths, Write(p) \/ Complete(p)
  PROVE  /\ transcript' \in [Paths -> Transcripts]
         /\ \A r \in Paths : Longer(transcript[r], transcript'[r])
         /\ \A r \in Paths : Len(transcript'[r].lines) <= MaxLines
PROOF
<1> DEFINE t == transcript[p]
           u == transcript'[p]
<1>1. transcript \in [Paths -> Transcripts] /\ t \in Transcripts /\ MaxLines \in Nat
  BY BoundsAssumption DEF CostTypeOK, Transcripts
<1>2. \A r \in Paths : Turns(transcript[r]) \in Seq(Line) /\ Len(Turns(transcript[r])) \in Nat
  BY <1>1, TurnsType
<1>3. CASE Write(p)
  <2>1. PICK line \in Line, torn \in BOOLEAN :
          /\ torn => line # Blank
          /\ transcript' = [transcript EXCEPT ![p] = [lines |-> Append(@.lines, line), torn |-> torn]]
    BY <1>3 DEF Write
  <2>2. t.lines \in Seq(Line) /\ Append(t.lines, line) \in Seq(Line)
    BY <1>1 DEF Transcripts
  <2>3. u = [lines |-> Append(t.lines, line), torn |-> torn] /\ \A r \in Paths \ {p} : transcript'[r] = transcript[r]
    BY <1>1, <2>1
  <2>4. u \in Transcripts /\ u.lines = Append(t.lines, line) /\ u.torn = torn
    BY <2>2, <2>3 DEF Transcripts
  <2>5. transcript' \in [Paths -> Transcripts]
    BY <1>1, <2>1, <2>3, <2>4
  <2>6. Turns(u) = IF line = Blank THEN Turns(t) ELSE Append(Turns(t), line)
    BY <1>1, <2>4, TurnsAppend
  <2> HIDE DEF t, u
  <2>7. Turns(t) \in Seq(Line) /\ Len(Turns(t)) \in Nat
    BY <1>2 DEF t
  <2>8. Longer(t, u)
    <3>1. CASE line = Blank
      BY <2>1, <2>4, <2>6, <2>7, <3>1 DEF Longer
    <3>2. CASE line # Blank
      BY <2>6, <2>7, <3>2 DEF Longer
    <3> QED  BY <3>1, <3>2
  <2>9. \A r \in Paths : Longer(transcript[r], transcript'[r])
    BY <1>1, <2>3, <2>8, LongerSelf DEF t, u
  <2>10. Len(t.lines) < MaxLines /\ Len(t.lines) \in Nat
    BY <1>1, <1>3, NotFull DEF Write, t, Transcripts
  <2>11. Len(u.lines) <= MaxLines
    BY <1>1, <2>2, <2>4, <2>10
  <2> QED  BY <2>3, <2>5, <2>9, <2>11 DEF Bounded, u
<1>4. CASE Complete(p)
  <2>1. u = [t EXCEPT !.torn = FALSE] /\ \A r \in Paths \ {p} : transcript'[r] = transcript[r]
    BY <1>1, <1>4 DEF Complete
  <2>2. u \in Transcripts /\ u.lines = t.lines /\ ~u.torn
    BY <1>1, <2>1 DEF Transcripts
  <2>3. transcript' \in [Paths -> Transcripts]
    BY <1>1, <1>4, <2>1, <2>2 DEF Complete
  <2>4. Turns(u) = Turns(t)
    BY <2>2, TurnsOfLines
  <2> HIDE DEF t, u
  <2>5. Longer(t, u)
    BY <1>1, <2>2, <2>4, TurnsType DEF Longer
  <2>6. \A r \in Paths : Longer(transcript[r], transcript'[r])
    BY <1>1, <2>1, <2>5, LongerSelf DEF t, u
  <2> QED  BY <2>1, <2>2, <2>3, <2>6 DEF Bounded, t, u
<1> QED  BY <1>3, <1>4

(***************************************************************************)
(* Every step keeps the invariant.                                         *)
(***************************************************************************)
LEMMA TypeFacts ==
  ASSUME CostTypeOK
  PROVE  /\ transcript \in [Paths -> Transcripts] /\ watermark \in [Paths -> Nat]
         /\ job \in [Procs -> Jobs] /\ pc \in [Procs -> {"idle", "scan", "begin", "walk", "commit"}]
         /\ \A p \in Paths : Lines(p) \in Nat /\ Turns(transcript[p]) \in Seq(Line)
         /\ \A q \in Procs : /\ job[q].path \in Paths /\ job[q].mark \in Nat /\ job[q].upto \in Nat /\ job[q].day \in Nat
                             /\ job[q].events \subseteq Event /\ job[q].rows \subseteq Row /\ job[q].roster \in Rosters
         /\ MaxLines \in Nat /\ MaxDays \in Nat /\ day \in Nat
PROOF
<1>1. MaxLines \in Nat /\ MaxDays \in Nat
  BY BoundsAssumption
<1>2. transcript \in [Paths -> Transcripts] /\ watermark \in [Paths -> Nat] /\ day \in Nat
  BY <1>1 DEF CostTypeOK, Transcripts, Days
<1>3. \A p \in Paths : Lines(p) \in Nat /\ Turns(transcript[p]) \in Seq(Line)
  BY <1>2, TurnsType DEF Lines
<1>4. job \in [Procs -> Jobs] /\ pc \in [Procs -> {"idle", "scan", "begin", "walk", "commit"}]
  BY DEF CostTypeOK
<1>5. ASSUME NEW j \in Jobs
      PROVE  /\ j.path \in Paths /\ j.mark \in Nat /\ j.upto \in Nat /\ j.day \in Nat
             /\ j.events \subseteq Event /\ j.rows \subseteq Row /\ j.roster \in Rosters
  BY <1>1 DEF Jobs, Days
<1> QED  BY <1>1, <1>2, <1>3, <1>4, <1>5

LEMMA GrowInv == ASSUME IInv, NEW p \in Paths, Write(p) \/ Complete(p) PROVE IInv'
PROOF
<1>1. /\ transcript' \in [Paths -> Transcripts]
      /\ \A r \in Paths : Longer(transcript[r], transcript'[r])
      /\ \A r \in Paths : Len(transcript'[r].lines) <= MaxLines
  BY Growth DEF IInv
<1>2. UNCHANGED <<day, pc, job, writer, watermark, events, rows>>
  BY DEF Write, Complete
<1>3. CostTypeOK'
  BY <1>1, <1>2 DEF IInv, CostTypeOK, Transcripts
<1>4. \A r \in Paths : /\ Lines(r) \in Nat /\ Lines(r)' \in Nat /\ Lines(r) <= Lines(r)'
                       /\ \A n \in 1 .. Lines(r) : TurnOf(r, n)' = TurnOf(r, n)
                       /\ transcript'[r].torn /\ Lines(r)' = Lines(r) => transcript[r].torn
  <2>1. \A r \in Paths : Lines(r) \in Nat
    BY TypeFacts DEF IInv
  <2>2. \A r \in Paths : Lines(r)' \in Nat
    BY <1>1, TurnsType DEF Lines
  <2> QED  BY <1>1, <2>1, <2>2 DEF Longer, Lines, ModelOf, TurnOf, Owed
<1>5. watermark \in [Paths -> Nat] /\ \A r \in Paths : watermark[r] <= Lines(r)
  BY TypeFacts DEF IInv, Bounded
<1>6. Bounded'
  BY <1>1, <1>2, <1>4, <1>5 DEF Bounded
<1>7. Filed' /\ OneWriter' /\ Marked' /\ Dated' /\ OneRate'
  BY <1>2 DEF IInv, Filed, OneWriter, Marked, Dated, OneRate, Holds, Ledger!OnePerDateAndRate
<1>8. \A r \in Paths, n \in Nat : n \in 1 .. Lines(r) =>
        \A some : Accounted(some, r, n) => \E e \in some : e.path = r /\ e.line = n /\ (e.errored \/ e.model = ModelOf(r, n)')
  BY <1>4 DEF Accounted, ModelOf
<1>9. EveryTurnAccounted'
  <2> SUFFICES ASSUME NEW r \in Paths, NEW n \in 1 .. watermark[r], Owed(r, n)'
               PROVE  \E e \in events : e.path = r /\ e.line = n /\ (e.errored \/ e.model = ModelOf(r, n)')
    BY <1>2 DEF EveryTurnAccounted, ModelOf, TurnOf, Owed
  <2>1. n \in 1 .. Lines(r)
    BY <1>4, <1>5
  <2>2. TurnOf(r, n)' = TurnOf(r, n)
    BY <1>4, <2>1
  <2>3. Owed(r, n) /\ ModelOf(r, n)' = ModelOf(r, n)
    BY <2>2 DEF Owed, ModelOf
  <2> QED  BY <2>3 DEF IInv, EveryTurnAccounted, ModelOf, TurnOf, Owed
<1>10. TornAccounted'
  <2> SUFFICES ASSUME NEW r \in Paths, transcript'[r].torn, Lines(r)' <= watermark[r], 1 <= Lines(r)'
               PROVE  TornIn(events, r)'
    BY <1>2 DEF TornAccounted
  <2>1. Lines(r)' = Lines(r)
    BY <1>4, <1>5
  <2>2. TornIn(events, r)
    BY <1>4, <2>1 DEF IInv, TornAccounted
  <2> QED  BY <1>2, <2>1, <2>2 DEF TornIn
<1>11. Staged'
  <2> SUFFICES ASSUME NEW q \in Procs, pc[q] = "commit" PROVE Stage(q)'
    BY <1>2 DEF Staged
  <2> DEFINE j == job[q]
  <2>1. Stage(q) /\ j.path \in Paths /\ j.upto \in Nat /\ j.mark \in Nat
    BY TypeFacts DEF IInv, Staged
  <2>0. PICK path \in Paths, upto \in Nat, mark \in Nat : path = j.path /\ upto = j.upto /\ mark = j.mark
    BY <2>1
  <2>2. j.upto <= Lines(path)'
    BY <1>4, <2>0, <2>1 DEF Stage
  <2>3. \A n \in mark + 1 .. upto : TurnOf(path, n)' = TurnOf(path, n)
    BY <1>4, <2>0, <2>1 DEF Stage
  <2>4. ASSUME transcript'[path].torn, Lines(path)' = upto
        PROVE  transcript[path].torn /\ Lines(path) = upto
    BY <1>4, <2>0, <2>1, <2>4 DEF Stage
  <2>5. StagedRows(q)'
    BY <1>2, <2>1 DEF Stage, StagedRows, Ledger!OnePerDateAndRate
  <2>6. \A n \in mark + 1 .. upto : Owed(path, n)' => Accounted(j.events, path, n)'
    BY <1>2, <2>0, <2>1, <2>3 DEF Stage, StagedEvents, Accounted, ModelOf, Owed
  <2>7. transcript'[path].torn /\ Lines(path)' = upto /\ mark < upto => TornIn(j.events, path)'
    BY <1>2, <2>0, <2>1, <2>4 DEF Stage, StagedEvents, TornIn
  <2>8. StagedEvents(q)'
    BY <1>2, <2>0, <2>1, <2>6, <2>7 DEF Stage, StagedEvents, Ledger!OnePerLine
  <2> QED  BY <1>2, <2>0, <2>1, <2>2, <2>5, <2>8 DEF Stage
<1> QED  BY <1>3, <1>6, <1>7, <1>9, <1>10, <1>11 DEF IInv

LEMMA MidnightInv == ASSUME IInv, Midnight PROVE IInv'
PROOF
<1>1. UNCHANGED <<transcript, pc, job, writer, watermark, events, rows>> /\ day' = day + 1 /\ day < MaxDays
  BY DEF Midnight
<1>2. day \in Nat /\ MaxDays \in Nat /\ \A q \in Procs : job[q].day \in Nat
  BY TypeFacts DEF IInv
<1>3. CostTypeOK'
  BY <1>1, <1>2 DEF IInv, CostTypeOK, Days
<1>4. Dated'
  <2>1. \A r \in rows : r.asOf \in Nat
    BY <1>2 DEF IInv, CostTypeOK, Row, Days
  <2> QED  BY <1>1, <1>2, <2>1 DEF IInv, Dated, Holds
<1>5. Bounded' /\ Filed' /\ OneWriter' /\ Marked' /\ OneRate' /\ EveryTurnAccounted' /\ TornAccounted'
  BY <1>1 DEF IInv, Bounded, Filed, OneWriter, Marked, OneRate, EveryTurnAccounted, TornAccounted, TornIn, Lines, Holds,
              Ledger!OnePerDateAndRate
<1>6. Staged'
  BY <1>1 DEF IInv, Staged, Stage, StagedEvents, StagedRows, Lines, ModelOf, TurnOf, Owed, Accounted, TornIn,
              Ledger!OnePerDateAndRate, Ledger!OnePerLine
<1> QED  BY <1>3, <1>4, <1>5, <1>6 DEF IInv

\* A step of q's Ingest before the commit touches only its own job.
LEMMA JobInv ==
  ASSUME IInv, NEW q \in Procs, NEW j \in Jobs, NEW at \in {"idle", "scan", "begin", "walk", "commit"},
         job' = [job EXCEPT ![q] = j], pc' = [pc EXCEPT ![q] = at],
         UNCHANGED <<transcript, day, watermark, events, rows>>,
         writer' \in Procs \cup {NoProc}, OneWriter',
         at # "idle" => j.mark <= watermark[j.path],
         at \in {"walk", "commit"} => j.day <= day /\ \A r \in rows : r.asOf <= j.day,
         at = "commit" => Stage(q)'
  PROVE  IInv'
PROOF
<1>1. /\ job \in [Procs -> Jobs] /\ pc \in [Procs -> {"idle", "scan", "begin", "walk", "commit"}]
      /\ job'[q] = j /\ pc'[q] = at
      /\ \A o \in Procs \ {q} : job'[o] = job[o] /\ pc'[o] = pc[o]
  BY TypeFacts DEF IInv
<1>2. CostTypeOK'
  BY <1>1 DEF IInv, CostTypeOK
<1>3. Bounded' /\ Filed' /\ OneRate' /\ EveryTurnAccounted' /\ TornAccounted'
  BY DEF IInv, Bounded, Filed, OneRate, EveryTurnAccounted, TornAccounted, TornIn, Lines, Ledger!OnePerDateAndRate
<1>4. Marked'
  BY <1>1 DEF IInv, Marked
<1>5. Dated'
  BY <1>1 DEF IInv, Dated, Holds
<1>6. Staged'
  <2> SUFFICES ASSUME NEW o \in Procs, o # q, pc[o] = "commit" PROVE Stage(o)'
    BY <1>1 DEF Staged
  <2>1. Stage(o)
    BY DEF IInv, Staged
  <2>2. job'[o] = job[o]
    BY <1>1
  <2> QED  BY <2>1, <2>2 DEF Stage, StagedEvents, StagedRows, Lines, ModelOf, TurnOf, Owed, Accounted, TornIn,
                            Ledger!OnePerDateAndRate, Ledger!OnePerLine
<1> QED  BY <1>2, <1>3, <1>4, <1>5, <1>6 DEF IInv

LEMMA FreshJob == NoJob \in Jobs
PROOF
<1>1. (CHOOSE p \in Paths : TRUE) \in Paths /\ (CHOOSE r \in Rosters : TRUE) \in Rosters
  BY PathsAssumption, RostersAssumption
<1>2. << >> \in Seq(Tools \cup {NoTool}) /\ 1 \in Days /\ 0 \in 0 .. MaxLines
  BY BoundsAssumption DEF Days
<1> QED  BY <1>1, <1>2 DEF NoJob, Jobs

LEMMA IngestInv == ASSUME IInv, NEW q \in Procs, Ingest(q) PROVE IInv'
PROOF
<1>1. PICK p \in Paths, r \in Rosters :
        job' = [job EXCEPT ![q].path = p, ![q].mark = watermark[p], ![q].roster = r, ![q].day = day]
  BY DEF Ingest
<1> DEFINE j == [job[q] EXCEPT !.path = p, !.mark = watermark[p], !.roster = r, !.day = day]
<1>2. watermark[p] \in 0 .. MaxLines /\ day \in Days /\ job \in [Procs -> Jobs] /\ job[q] \in Jobs
  BY DEF IInv, CostTypeOK
<1>3. j \in Jobs /\ j.path = p /\ j.mark = watermark[p]
  BY <1>2 DEF Jobs
<1>4. job' = [job EXCEPT ![q] = j]
  BY <1>1, <1>2
<1> HIDE DEF j
<1>5. /\ pc' = [pc EXCEPT ![q] = "scan"] /\ UNCHANGED <<transcript, day, watermark, events, rows, writer>>
      /\ pc \in [Procs -> {"idle", "scan", "begin", "walk", "commit"}]
      /\ writer \in Procs \cup {NoProc}
  BY DEF Ingest, Goto, IInv, CostTypeOK
<1>6. OneWriter'
  BY <1>5 DEF IInv, OneWriter, Holds
<1>7. j.mark <= watermark[j.path]
  BY <1>2, <1>3, BoundsAssumption
<1> QED  BY <1>3, <1>4, <1>5, <1>6, <1>7, JobInv

LEMMA ScanToolsInv == ASSUME IInv, NEW q \in Procs, ScanTools(q) PROVE IInv'
PROOF
<1> DEFINE t == transcript[job[q].path]
           j == [job[q] EXCEPT !.tools = ToolNames(t)]
<1>1. job \in [Procs -> Jobs] /\ job[q] \in Jobs /\ t \in Transcripts
  BY TypeFacts DEF IInv
<1>2. ToolNames(t) \in Seq(Tools \cup {NoTool})
  <2>1. Len(t.lines) \in Nat /\ \A i \in 1 .. Len(t.lines) : t.lines[i] \in Line
    BY <1>1 DEF Transcripts
  <2> HIDE DEF t
  <2>2. \A i \in 1 .. Len(t.lines) : t.lines[i] \notin {Blank, Garbled} => t.lines[i].tool \in Tools \cup {NoTool}
    BY <2>1 DEF Line, Turn
  <2>3. ToolNames(t) \in [1 .. Len(t.lines) -> Tools \cup {NoTool}]
    BY <2>2 DEF ToolNames
  <2> QED  BY <2>1, <2>3, SeqDef
<1>3. j \in Jobs /\ j.mark = job[q].mark /\ j.path = job[q].path
  BY <1>1, <1>2 DEF Jobs
<1>4. /\ job' = [job EXCEPT ![q] = j] /\ pc' = [pc EXCEPT ![q] = "begin"]
      /\ UNCHANGED <<transcript, day, watermark, events, rows, writer>>
      /\ writer \in Procs \cup {NoProc} /\ pc[q] = "scan" /\ pc \in [Procs -> {"idle", "scan", "begin", "walk", "commit"}]
  BY <1>1 DEF ScanTools, Goto, IInv, CostTypeOK
<1> HIDE DEF j, t
<1>5. OneWriter'
  BY <1>4 DEF IInv, OneWriter, Holds
<1>6. j.mark <= watermark[j.path]
  BY <1>3, <1>4 DEF IInv, Marked
<1> QED  BY <1>3, <1>4, <1>5, <1>6, JobInv

LEMMA BeginInv == ASSUME IInv, NEW q \in Procs, Begin(q) PROVE IInv'
PROOF
<1> DEFINE j == [job[q] EXCEPT !.day = day]
<1>1. job \in [Procs -> Jobs] /\ job[q] \in Jobs /\ day \in Days /\ day \in Nat
  BY TypeFacts DEF IInv, CostTypeOK
<1>2. j \in Jobs /\ j.mark = job[q].mark /\ j.path = job[q].path /\ j.day = day
  BY <1>1 DEF Jobs
<1>3. /\ job' = [job EXCEPT ![q] = j] /\ pc' = [pc EXCEPT ![q] = "walk"]
      /\ UNCHANGED <<transcript, day, watermark, events, rows>>
      /\ pc[q] = "begin" /\ pc \in [Procs -> {"idle", "scan", "begin", "walk", "commit"}]
      /\ writer = NoProc /\ writer' = q
  BY <1>1 DEF Begin, Goto, IInv, CostTypeOK
<1> HIDE DEF j
<1>4. OneWriter'
  BY <1>3, NoProcAssumption DEF IInv, OneWriter, Holds
<1>5. j.mark <= watermark[j.path]
  BY <1>2, <1>3 DEF IInv, Marked
<1>6. j.day <= day /\ \A r \in rows : r.asOf <= j.day
  BY <1>1, <1>2 DEF IInv, Dated
<1> QED  BY <1>2, <1>3, <1>4, <1>5, <1>6, JobInv

LEMMA FailInv == ASSUME IInv, NEW q \in Procs, Fail(q) PROVE IInv'
PROOF
<1>1. /\ job' = [job EXCEPT ![q] = NoJob] /\ pc' = [pc EXCEPT ![q] = "idle"]
      /\ UNCHANGED <<transcript, day, watermark, events, rows>>
      /\ writer' = IF writer = q THEN NoProc ELSE writer
      /\ pc \in [Procs -> {"idle", "scan", "begin", "walk", "commit"}]
      /\ writer' \in Procs \cup {NoProc}
  BY DEF Fail, Goto, IInv, CostTypeOK
<1>2. OneWriter'
  BY <1>1 DEF IInv, OneWriter, Holds
<1> QED  BY <1>1, <1>2, FreshJob, JobInv

\* What recordRateHistory adds: the roster's rate of a model, under the day's date.
LEMMA RecordedRows ==
  ASSUME NEW all, all \subseteq Row, Ledger!OnePerDateAndRate(all), NEW seen, seen \subseteq Models, NEW d \in Days,
         NEW roster \in Rosters, \A m \in seen : roster[m] # NoRate, NEW after, after = Recorded(all, seen, roster, d)
  PROVE  /\ after \subseteq Row /\ all \subseteq after /\ Ledger!OnePerDateAndRate(after)
         /\ \A r \in after \ all : r.asOf = d /\ r.model \in seen /\ r.rate = roster[r.model]
PROOF
<1>1. \A m \in seen : roster[m] \in Rates
  BY RostersAssumption
<1>2. ASSUME NEW r \in after, r \notin all
      PROVE  /\ r \in Row /\ r.asOf = d /\ r.model \in seen /\ r.rate = roster[r.model]
             /\ ~\E x \in all : x.model = r.model /\ (x.rate = r.rate \/ x.asOf = d)
  <2>1. PICK m \in seen : /\ r = [model |-> m, asOf |-> d, rate |-> roster[m]]
                         /\ ~\E x \in all : x.model = m /\ (x.rate = roster[m] \/ x.asOf = d)
    BY <1>2 DEF Recorded
  <2> QED  BY <1>1, <2>1 DEF Row
<1>3. all \subseteq after
  BY DEF Recorded
<1>4. ASSUME NEW r \in after, NEW x \in after, r.model = x.model, r.asOf = x.asOf \/ r.rate = x.rate PROVE r = x
  <2>1. CASE r \in all /\ x \in all
    BY <1>4, <2>1 DEF Ledger!OnePerDateAndRate
  <2>2. CASE r \notin all /\ x \in all
    BY <1>2, <1>4, <2>2
  <2>3. CASE r \in all /\ x \notin all
    BY <1>2, <1>4, <2>3
  <2>4. CASE r \notin all /\ x \notin all
    <3>1. r \in Row /\ x \in Row /\ r.asOf = x.asOf /\ r.rate = x.rate
      BY <1>2, <1>4, <2>4
    <3> QED  BY <1>4, <3>1 DEF Row
  <2> QED  BY <2>1, <2>2, <2>3, <2>4
<1>5. after \subseteq Row
  BY <1>2
<1>6. Ledger!OnePerDateAndRate(after)
  BY <1>4 DEF Ledger!OnePerDateAndRate
<1>7. \A r \in after \ all : r.asOf = d /\ r.model \in seen /\ r.rate = roster[r.model]
  BY <1>2
<1> QED  BY <1>3, <1>5, <1>6, <1>7

\* What the walk of a job finds in the transcript of its path.
LEMMA WalkFinds ==
  ASSUME IInv, NEW q \in Procs, \A m \in ModelsSeen(q) : job[q].roster[m] # NoRate
  PROVE  /\ NewEvents(q) \subseteq Event
         /\ \A e \in NewEvents(q) :
              /\ e.path = job[q].path /\ e.line \in NewTurns(q)
              /\ \/ Malformed(transcript[job[q].path], e.line) /\ e.errored
                 \/ /\ e.line \in Billable(q) /\ ~e.errored
                    /\ e.model = ModelOf(job[q].path, e.line) /\ e.rate = job[q].roster[e.model]
         /\ \A n \in NewTurns(q) : Malformed(transcript[job[q].path], n) \/ n \in Billable(q) =>
              \E e \in NewEvents(q) : e.path = job[q].path /\ e.line = n /\ (e.errored \/ e.model = ModelOf(job[q].path, n))
         /\ Ledger!OnePerLine(NewEvents(q))
         /\ \A m \in ModelsSeen(q) : m \in Models /\ \E e \in NewEvents(q) : e.model = m /\ e.rate = job[q].roster[m]
PROOF
<1> DEFINE path == job[q].path
           t == transcript[path]
           roster == job[q].roster
           priced(n) == [path |-> path, line |-> n, model |-> Turns(t)[n].model, rate |-> roster[Turns(t)[n].model],
                         tool |-> ToolAt(job[q].tools, n), errored |-> FALSE]
           broken(n) == [path |-> path, line |-> n, model |-> NoModel, rate |-> NoRate, tool |-> NoTool, errored |-> TRUE]
           torn == {n \in NewTurns(q) : Malformed(t, n)}
<1>1. NewEvents(q) = {priced(n) : n \in Billable(q)} \cup {broken(n) : n \in torn}
  BY DEF NewEvents, PricedEvents
<1>2. /\ path \in Paths /\ job[q].mark \in Nat /\ t \in Transcripts /\ roster \in [Models -> Rates \cup {NoRate}]
      /\ job[q].tools \in Seq(Tools \cup {NoTool})
      /\ Len(Turns(t)) \in Nat /\ Len(Turns(t)) <= MaxLines /\ MaxLines \in Nat
  <2>1. path \in Paths /\ job[q].mark \in Nat /\ t \in Transcripts /\ roster \in Rosters /\ MaxLines \in Nat
    BY TypeFacts DEF IInv
  <2>2. Len(t.lines) <= MaxLines /\ Len(t.lines) \in Nat
    BY <2>1 DEF IInv, Bounded, Transcripts
  <2>3. Len(Turns(t)) \in Nat /\ Len(Turns(t)) <= Len(t.lines)
    BY <2>1, TurnsType
  <2>4. job[q].tools \in Seq(Tools \cup {NoTool})
    BY DEF IInv, CostTypeOK, Jobs
  <2> QED  BY <2>1, <2>2, <2>3, <2>4, RostersAssumption
<1>3. \A n \in NewTurns(q) : n \in 1 .. MaxLines
  BY <1>2 DEF NewTurns
<1>4. Billable(q) = {n \in NewTurns(q) : ~Malformed(t, n) /\ Turns(t)[n].model \in Models}
  BY DEF Billable
<1>5. ModelsSeen(q) = {Turns(t)[n].model : n \in Billable(q)}
  BY DEF ModelsSeen
<1>6. \A n \in Billable(q) : roster[Turns(t)[n].model] \in Rates
  BY <1>2, <1>4, <1>5
<1>7. \A n : ToolAt(job[q].tools, n) \in Tools \cup {NoTool}
  BY <1>2 DEF ToolAt
<1>8. \A n : ModelOf(path, n) = Turns(t)[n].model
  BY DEF ModelOf, TurnOf, Owed
<1> HIDE DEF t, roster
<1>9. \A n \in Billable(q) : priced(n) \in Event
  BY <1>2, <1>3, <1>4, <1>6, <1>7 DEF Event, Priced
<1>10. \A n \in torn : broken(n) \in Event
  BY <1>2, <1>3 DEF Event, Errored
<1>11. NewEvents(q) \subseteq Event
  BY <1>1, <1>9, <1>10
<1>12. ASSUME NEW e \in NewEvents(q)
       PROVE  /\ e.path = path /\ e.line \in NewTurns(q)
              /\ \/ Malformed(t, e.line) /\ e.errored
                 \/ e.line \in Billable(q) /\ ~e.errored /\ e.model = ModelOf(path, e.line) /\ e.rate = roster[e.model]
  <2>1. CASE \E n \in Billable(q) : e = priced(n)
    BY <1>4, <1>8, <2>1
  <2>2. CASE \E n \in torn : e = broken(n)
    BY <2>2
  <2> QED  BY <1>1, <2>1, <2>2
<1>13. ASSUME NEW n \in NewTurns(q), Malformed(t, n) \/ n \in Billable(q)
       PROVE  \E e \in NewEvents(q) : e.path = path /\ e.line = n /\ (e.errored \/ e.model = ModelOf(path, n))
  <2>1. CASE Malformed(t, n)
    <3>1. broken(n) \in NewEvents(q)
      BY <1>1, <2>1
    <3> QED  BY <3>1
  <2>2. CASE n \in Billable(q)
    <3>1. priced(n) \in NewEvents(q)
      BY <1>1, <2>2
    <3> QED  BY <1>8, <3>1
  <2> QED  BY <1>13, <2>1, <2>2
<1>14. ASSUME NEW e \in NewEvents(q), NEW f \in NewEvents(q), e.line = f.line PROVE e = f
  <2>1. \A n \in Billable(q) : n \notin torn
    BY <1>4
  <2>2. CASE \E n \in Billable(q) : e = priced(n)
    BY <1>1, <1>14, <2>1, <2>2
  <2>3. CASE \E n \in torn : e = broken(n)
    BY <1>1, <1>14, <2>1, <2>3
  <2> QED  BY <1>1, <2>2, <2>3
<1>15. ASSUME NEW m \in ModelsSeen(q) PROVE m \in Models /\ \E e \in NewEvents(q) : e.model = m /\ e.rate = roster[m]
  <2>1. PICK n \in Billable(q) : m = Turns(t)[n].model
    BY <1>5
  <2>2. priced(n) \in NewEvents(q) /\ priced(n).model = m /\ priced(n).rate = roster[m]
    BY <1>1, <2>1
  <2> QED  BY <1>4, <2>1, <2>2
<1> QED  BY <1>11, <1>12, <1>13, <1>14, <1>15 DEF t, roster, Ledger!OnePerLine

LEMMA WalkInv == ASSUME IInv, NEW q \in Procs, Walk(q) PROVE IInv'
PROOF
<1> DEFINE path == job[q].path
           found == NewEvents(q)
           after == Recorded(rows, ModelsSeen(q), job[q].roster, job[q].day)
           upto == Len(Turns(transcript[path]))
           j == [job[q] EXCEPT !.events = found, !.rows = after, !.upto = upto]
<1>1. /\ job \in [Procs -> Jobs] /\ job[q] \in Jobs /\ path \in Paths /\ job[q].mark \in Nat
      /\ upto = Lines(path) /\ upto \in Nat /\ upto <= MaxLines /\ MaxLines \in Nat
      /\ watermark[path] \in Nat /\ watermark[path] <= upto /\ job[q].roster \in Rosters /\ job[q].day \in Days
  <2>1. /\ job \in [Procs -> Jobs] /\ path \in Paths /\ job[q].mark \in Nat /\ upto \in Nat /\ MaxLines \in Nat
        /\ watermark[path] \in Nat /\ job[q].roster \in Rosters /\ transcript[path] \in Transcripts
    BY TypeFacts DEF IInv, Lines
  <2>2. Len(transcript[path].lines) <= MaxLines /\ Len(transcript[path].lines) \in Nat /\ watermark[path] <= Lines(path)
    BY <2>1 DEF IInv, Bounded, Transcripts
  <2>3. upto <= Len(transcript[path].lines)
    BY <2>1, TurnsType
  <2>4. job[q].day \in Days
    BY DEF IInv, CostTypeOK, Jobs
  <2> QED  BY <2>1, <2>2, <2>3, <2>4 DEF Lines
<1>2. /\ \A m \in ModelsSeen(q) : job[q].roster[m] # NoRate
      /\ \A e \in events, n \in found : <<e.path, e.line>> # <<n.path, n.line>>
      /\ pc[q] = "walk" /\ pc' = [pc EXCEPT ![q] = "commit"]
      /\ UNCHANGED <<transcript, day, watermark, events, rows, writer>>
  BY DEF Walk, Goto
<1>3. job' = [job EXCEPT ![q] = j]
  BY <1>1 DEF Walk
<1>4. /\ found \subseteq Event
      /\ \A e \in found :
           /\ e.path = path /\ e.line \in NewTurns(q)
           /\ Malformed(transcript[path], e.line) \/ (e.line \in Billable(q) /\ e.model = ModelOf(path, e.line))
      /\ \A n \in NewTurns(q) : Malformed(transcript[path], n) \/ n \in Billable(q) => Accounted(found, path, n)
      /\ Ledger!OnePerLine(found)
      /\ \A m \in ModelsSeen(q) : m \in Models /\ \E e \in found : e.model = m /\ e.rate = job[q].roster[m]
  BY <1>2, WalkFinds DEF Accounted
<1>5. /\ after \subseteq Row /\ rows \subseteq after /\ Ledger!OnePerDateAndRate(after)
      /\ \A r \in after \ rows : r.asOf = job[q].day /\ r.model \in ModelsSeen(q) /\ r.rate = job[q].roster[r.model]
  <2>1. rows \subseteq Row /\ Ledger!OnePerDateAndRate(rows) /\ ModelsSeen(q) \subseteq Models
    BY <1>4 DEF IInv, CostTypeOK, OneRate
  <2>2. /\ job[q].day \in Days /\ job[q].roster \in Rosters
        /\ \A m \in ModelsSeen(q) : job[q].roster[m] # NoRate
    BY <1>1, <1>2
  <2>3. after = Recorded(rows, ModelsSeen(q), job[q].roster, job[q].day)
    OBVIOUS
  <2> HIDE DEF after
  <2> QED  BY <2>1, <2>2, <2>3, RecordedRows
<1>6. NewTurns(q) = job[q].mark + 1 .. upto
  BY DEF NewTurns
<1>7. \A n \in NewTurns(q) : n \in Billable(q) => ModelOf(path, n) \in Models
  BY DEF Billable, ModelOf, TurnOf, Owed
<1>8. \A n \in NewTurns(q) : Owed(path, n) => Malformed(transcript[path], n) \/ n \in Billable(q)
  BY DEF Billable, Malformed, ModelOf, TurnOf, Owed
<1>9. \A n : Malformed(transcript[path], n) <=> TurnOf(path, n) = Garbled \/ (transcript[path].torn /\ n = upto)
  BY DEF Malformed, TurnOf
<1> HIDE DEF found, after, upto
\* A turn up to the watermark has its event: the walk would have met it.
<1>10. ASSUME NEW e \in found PROVE e.line \in watermark[path] + 1 .. upto
  <2>1. e.line \in job[q].mark + 1 .. upto /\ e.path = path
    BY <1>4, <1>6
  <2> SUFFICES ASSUME e.line <= watermark[path] PROVE FALSE
    BY <1>1, <2>1
  <2>2. e.line \in 1 .. watermark[path]
    BY <1>1, <2>1
  <2>3. CASE Malformed(transcript[path], e.line) /\ TurnOf(path, e.line) # Garbled
    <3>1. transcript[path].torn /\ Lines(path) <= watermark[path] /\ 1 <= Lines(path) /\ e.line = Lines(path)
      BY <1>1, <1>9, <2>2, <2>3
    <3>2. TornIn(events, path)
      BY <1>1, <3>1 DEF IInv, TornAccounted
    <3> QED  BY <1>2, <2>1, <3>1, <3>2 DEF TornIn
  <2>4. CASE Owed(path, e.line)
    <3>1. \E f \in events : f.path = path /\ f.line = e.line
      BY <1>1, <2>2, <2>4 DEF IInv, EveryTurnAccounted, Owed, ModelOf, TurnOf
    <3> QED  BY <1>2, <2>1, <3>1
  <2> QED  BY <1>4, <1>7, <2>3, <2>4 DEF Owed
<1>11. j \in Jobs
  <2>1. upto \in 0 .. MaxLines
    BY <1>1
  <2> QED  BY <1>1, <1>4, <1>5, <2>1 DEF Jobs
<1>12. /\ j.path = path /\ j.mark = job[q].mark /\ j.day = job[q].day /\ j.events = found /\ j.rows = after /\ j.upto = upto
  BY <1>1 DEF Jobs
<1> HIDE DEF j
<1>13. job'[q] = j
  BY <1>1, <1>3
<1>14. Stage(q)'
  <2>1. \A n \in j.mark + 1 .. j.upto : Owed(path, n) => Accounted(found, path, n)
    BY <1>4, <1>6, <1>8, <1>12
  <2>2. transcript[path].torn /\ Lines(path) = upto /\ j.mark < upto => TornIn(found, path)
    <3> SUFFICES ASSUME transcript[path].torn, j.mark < upto PROVE TornIn(found, path)
      OBVIOUS
    <3>1. upto \in NewTurns(q) /\ Malformed(transcript[path], upto)
      BY <1>1, <1>6, <1>9, <1>12
    <3>2. Accounted(found, path, upto)
      BY <1>4, <3>1
    <3> QED  BY <1>1, <3>2 DEF Accounted, TornIn
  <2>3. StagedEvents(q)'
    BY <1>2, <1>4, <1>10, <1>12, <1>13, <2>1, <2>2 DEF StagedEvents, Accounted, TornIn, ModelOf, TurnOf, Owed, Lines, Ledger!OnePerLine
  <2>4. StagedRows(q)'
    <3>1. ASSUME NEW r \in after \ rows PROVE r.asOf = j.day /\ \E e \in found : e.model = r.model /\ e.rate = r.rate
      <4>1. r.asOf = job[q].day /\ r.model \in ModelsSeen(q) /\ r.rate = job[q].roster[r.model]
        BY <1>5
      <4> QED  BY <1>4, <1>12, <4>1
    <3> QED  BY <1>2, <1>5, <1>12, <1>13, <3>1 DEF StagedRows, Ledger!OnePerDateAndRate
  <2> QED  BY <1>1, <1>2, <1>12, <1>13, <2>3, <2>4 DEF Stage, Lines
<1>15. pc \in [Procs -> {"idle", "scan", "begin", "walk", "commit"}] /\ writer' \in Procs \cup {NoProc} /\ OneWriter'
  <2>1. pc \in [Procs -> {"idle", "scan", "begin", "walk", "commit"}] /\ writer' \in Procs \cup {NoProc}
    BY <1>2 DEF IInv, CostTypeOK
  <2> QED  BY <1>2, <2>1 DEF IInv, OneWriter, Holds
<1>16. j.mark <= watermark[j.path]
  BY <1>2, <1>12 DEF IInv, Marked
<1>17. j.day <= day /\ \A r \in rows : r.asOf <= j.day
  BY <1>2, <1>12 DEF IInv, Dated, Holds
<1> QED  BY <1>2, <1>3, <1>11, <1>14, <1>15, <1>16, <1>17, JobInv

\* What a commit does to the tables: the staged rows are there, and the watermark is
\* where the walk ended, also when that is where it was.
LEMMA CommitDoes ==
  ASSUME IInv, NEW q \in Procs, Commit(q)
  PROVE  /\ job[q].path \in Paths /\ job[q].upto \in Nat /\ job[q].mark \in Nat /\ watermark \in [Paths -> 0 .. MaxLines]
         /\ job[q].upto \in 0 .. MaxLines /\ job[q].mark <= watermark[job[q].path]
         /\ pc[q] = "commit" /\ writer = q /\ Stage(q)
         /\ events' = events \cup job[q].events /\ rows' = job[q].rows
         /\ watermark' = [watermark EXCEPT ![job[q].path] = job[q].upto]
         /\ watermark[job[q].path] <= job[q].upto
         /\ UNCHANGED <<transcript, day>>
PROOF
<1>1. /\ job[q].path \in Paths /\ job[q].upto \in Nat /\ job[q].mark \in Nat /\ watermark \in [Paths -> 0 .. MaxLines]
      /\ job[q].upto \in 0 .. MaxLines /\ MaxLines \in Nat
  BY BoundsAssumption, TypeFacts DEF IInv, CostTypeOK, Jobs
<1>2. pc[q] = "commit" /\ writer = q /\ job[q].mark <= watermark[job[q].path] /\ Stage(q)
  BY DEF Commit, IInv, OneWriter, Holds, Marked, Staged
<1>3. watermark[job[q].path] <= job[q].upto /\ watermark[job[q].path] \in Nat
  BY <1>1, <1>2 DEF Stage
<1>4. watermark' = [watermark EXCEPT ![job[q].path] = job[q].upto]
  <2>1. CASE job[q].upto > job[q].mark
    BY <2>1 DEF Commit
  <2>2. CASE ~(job[q].upto > job[q].mark)
    <3>1. watermark[job[q].path] = job[q].upto /\ watermark' = watermark
      BY <1>1, <1>2, <1>3, <2>2 DEF Commit
    <3> QED  BY <1>1, <3>1
  <2> QED  BY <2>1, <2>2
<1> QED  BY <1>1, <1>2, <1>3, <1>4 DEF Commit

LEMMA CommitInv == ASSUME IInv, NEW q \in Procs, Commit(q) PROVE IInv'
PROOF
<1> DEFINE j == job[q]
           path == j.path
<1>1. /\ path \in Paths /\ j.upto \in Nat /\ j.mark \in Nat /\ watermark \in [Paths -> 0 .. MaxLines]
      /\ j.upto \in 0 .. MaxLines /\ j.mark <= watermark[path]
      /\ pc[q] = "commit" /\ writer = q /\ Stage(q)
      /\ events' = events \cup j.events /\ rows' = j.rows
      /\ watermark' = [watermark EXCEPT ![path] = j.upto] /\ watermark[path] <= j.upto
      /\ UNCHANGED <<transcript, day>>
  BY CommitDoes
<1>2. job' = [job EXCEPT ![q] = NoJob] /\ pc' = [pc EXCEPT ![q] = "idle"] /\ writer' = NoProc
  BY DEF Commit, Goto
<1>3. /\ job \in [Procs -> Jobs] /\ pc \in [Procs -> {"idle", "scan", "begin", "walk", "commit"}]
      /\ j.events \subseteq Event /\ j.rows \subseteq Row /\ j.day \in Nat /\ MaxLines \in Nat
      /\ \A r \in Paths : Lines(r) \in Nat /\ watermark[r] \in Nat
  BY TypeFacts DEF IInv
<1>4. CostTypeOK'
  BY <1>1, <1>2, <1>3, FreshJob DEF IInv, CostTypeOK
<1>5. watermark'[path] = j.upto /\ (\A r \in Paths \ {path} : watermark'[r] = watermark[r])
      /\ \A r \in Paths : watermark[r] <= watermark'[r] /\ watermark'[r] \in Nat
  BY <1>1, <1>3
<1>6. pc'[q] = "idle" /\ \A o \in Procs \ {q} : job'[o] = job[o] /\ pc'[o] = pc[o] /\ ~Holds(o)
  BY <1>1, <1>2, <1>3 DEF IInv, OneWriter, Holds
<1>7. Bounded'
  BY <1>1, <1>3, <1>5 DEF IInv, Bounded, Stage, Lines
<1>8. Filed'
  <2>1. \A e \in j.events : e.path = path /\ e.line <= watermark'[e.path]
    BY <1>1, <1>3, <1>5 DEF Stage, StagedEvents
  <2>2. ASSUME NEW e \in events PROVE e.line <= watermark'[e.path]
    <3>1. e.path \in Paths /\ e.line \in Nat
      <4>1. e \in Priced \/ e \in Errored
        BY DEF IInv, CostTypeOK, Event
      <4>2. \A n \in 1 .. MaxLines : n \in Nat
        BY <1>3
      <4> QED  BY <4>1, <4>2 DEF Priced, Errored
    <3> QED  BY <1>3, <1>5, <3>1 DEF IInv, Filed
  <2> QED  BY <1>1, <2>1, <2>2 DEF Filed
<1>9. OneWriter'
  BY <1>6 DEF OneWriter, Holds
<1>10. Marked'
  <2> SUFFICES ASSUME NEW o \in Procs \ {q}, pc[o] # "idle" PROVE job[o].mark <= watermark'[job[o].path]
    BY <1>6 DEF Marked
  <2>1. job[o].path \in Paths /\ job[o].mark \in Nat /\ job[o].mark <= watermark[job[o].path]
    BY TypeFacts DEF IInv, Marked
  <2> QED  BY <1>3, <1>5, <2>1
<1>11. Dated'
  <2>1. j.day <= day /\ day \in Nat
    BY <1>1, TypeFacts DEF IInv, Dated, Holds
  <2>2. \A r \in j.rows : r \in rows \/ r.asOf = j.day
    BY <1>1 DEF Stage, StagedRows
  <2>3. \A r \in rows' : r.asOf <= day'
    BY <1>1, <2>1, <2>2 DEF IInv, Dated
  <2> QED  BY <1>6, <2>3 DEF Dated, Holds
<1>12. EveryTurnAccounted'
  <2> SUFFICES ASSUME NEW r \in Paths, NEW n \in 1 .. watermark'[r], Owed(r, n)
               PROVE  \E e \in events' : e.path = r /\ e.line = n /\ (e.errored \/ e.model = ModelOf(r, n))
    BY <1>1 DEF EveryTurnAccounted, ModelOf, TurnOf, Owed
  <2>1. CASE n <= watermark[r]
    BY <1>1, <1>3, <2>1 DEF IInv, EveryTurnAccounted, ModelOf, TurnOf, Owed
  <2>2. CASE ~(n <= watermark[r])
    <3>1. r = path /\ n \in j.mark + 1 .. j.upto
      BY <1>1, <1>3, <1>5, <2>2
    <3>2. Accounted(j.events, path, n)
      BY <1>1, <3>1 DEF Stage, StagedEvents
    <3> QED  BY <1>1, <3>1, <3>2 DEF Accounted
  <2> QED  BY <2>1, <2>2
<1>13. TornAccounted'
  <2> SUFFICES ASSUME NEW r \in Paths, transcript[r].torn, Lines(r) <= watermark'[r], 1 <= Lines(r)
               PROVE  TornIn(events', r)
    BY <1>1 DEF TornAccounted, Lines, TornIn
  <2>1. CASE Lines(r) <= watermark[r]
    BY <1>1, <2>1 DEF IInv, TornAccounted, TornIn
  <2>2. CASE ~(Lines(r) <= watermark[r])
    <3>1. r = path /\ Lines(path) = j.upto /\ j.mark < j.upto
      BY <1>1, <1>3, <1>5, <2>2 DEF Stage
    <3>2. TornIn(j.events, path)
      BY <1>1, <3>1 DEF Stage, StagedEvents
    <3> QED  BY <1>1, <3>1, <3>2 DEF TornIn
  <2> QED  BY <2>1, <2>2
<1>14. OneRate'
  BY <1>1 DEF OneRate, Stage, StagedRows, Ledger!OnePerDateAndRate
<1>15. Staged'
  BY <1>6 DEF Staged, Holds
<1> QED  BY <1>4, <1>7, <1>8, <1>9, <1>10, <1>11, <1>12, <1>13, <1>14, <1>15 DEF IInv

LEMMA InitInv == Init => IInv
PROOF
<1> SUFFICES ASSUME Init PROVE IInv
  OBVIOUS
<1>1. \A p \in Paths : transcript[p] = [lines |-> << >>, torn |-> FALSE] /\ watermark[p] = 0
  BY DEF Init
<1>2. \A p \in Paths : Turns(transcript[p]) = << >> /\ Len(transcript[p].lines) = 0
  <2>1. Turns([lines |-> << >>, torn |-> FALSE]) = << >>
    BY TurnsEmpty
  <2> QED  BY <1>1, <2>1
<1>3. MaxLines \in Nat /\ 1 \in Days
  BY BoundsAssumption DEF Days
<1>4. CostTypeOK
  <2>1. transcript \in [Paths -> [lines : Seq(Line), torn : BOOLEAN]]
    BY DEF Init
  <2> QED  BY <1>3, <2>1, FreshJob DEF Init, CostTypeOK
<1>5. \A p \in Paths : Lines(p) = 0
  BY <1>2 DEF Lines
<1>6. Bounded
  BY <1>1, <1>2, <1>3, <1>5 DEF Bounded
<1>7. EveryTurnAccounted /\ TornAccounted
  BY <1>1, <1>5 DEF EveryTurnAccounted, TornAccounted
<1>8. OneWriter /\ Marked /\ Dated /\ OneRate /\ Staged /\ Filed
  BY DEF Init, OneWriter, Marked, Dated, OneRate, Staged, Holds, Filed, Ledger!OnePerDateAndRate
<1> QED  BY <1>4, <1>6, <1>7, <1>8 DEF IInv

LEMMA NextInv == IInv /\ [Next]_vars => IInv'
PROOF
<1> SUFFICES ASSUME IInv, [Next]_vars PROVE IInv'
  OBVIOUS
<1>1. CASE \E p \in Paths : Write(p) \/ Complete(p)
  BY <1>1, GrowInv
<1>2. CASE Midnight
  BY <1>2, MidnightInv
<1>3. ASSUME NEW q \in Procs, Ingest(q) \/ ScanTools(q) \/ Begin(q) \/ Walk(q) \/ Commit(q) \/ Fail(q) PROVE IInv'
  BY <1>3, IngestInv, ScanToolsInv, BeginInv, WalkInv, CommitInv, FailInv
<1>4. CASE UNCHANGED vars
  <2>1. CostTypeOK' /\ Bounded' /\ Filed' /\ OneWriter' /\ Marked' /\ Dated'
    BY <1>4 DEF vars, IInv, CostTypeOK, Bounded, Filed, OneWriter, Marked, Dated, Holds, Lines
  <2>2. EveryTurnAccounted' /\ TornAccounted' /\ OneRate'
    BY <1>4 DEF vars, IInv, EveryTurnAccounted, TornAccounted, OneRate, Lines, TornIn, Ledger!OnePerDateAndRate
  <2>3. Staged'
    BY <1>4 DEF vars, IInv, Staged, Stage, StagedEvents, StagedRows, Lines, ModelOf, TurnOf, Owed, Accounted, TornIn,
                Ledger!OnePerDateAndRate, Ledger!OnePerLine
  <2> QED  BY <2>1, <2>2, <2>3 DEF IInv
<1> QED  BY <1>1, <1>2, <1>3, <1>4 DEF Next

LEMMA Invariance == Spec => []IInv
PROOF BY InitInv, NextInv, PTL DEF Spec

\* Every variable keeps its type: nothing but typed rows is ever stored, and no mark
\* runs past the last line (go/cost/store.go).
THEOREM TypeCorrect == Spec => []CostTypeOK
PROOF
<1>1. IInv => CostTypeOK
  BY DEF IInv
<1> QED  BY <1>1, Invariance, PTL

\* However ingests of one transcript overlap, fail or crash, and whatever is appended
\* meanwhile, no billable turn up to the watermark is without its event.
THEOREM TurnsAccounted == Spec => []EveryTurnAccounted
PROOF
<1>1. IInv => EveryTurnAccounted
  BY DEF IInv
<1> QED  BY <1>1, Invariance, PTL

\* A rate that is committed is dated no earlier than any recorded before it: calls
\* that wait for each other cannot change the answer about a day that is past.
THEOREM PastStable == Spec => PastRepriceStable
PROOF
<1> DEFINE A == \A m \in Models, d \in Days :
                  (\E r \in rows : r.asOf > d) => RateAsOf(rows', m, d) = RateAsOf(rows, m, d)
<1>1. ASSUME IInv, [Next]_vars PROVE [A]_vars
  <2> SUFFICES ASSUME NEW m \in Models, NEW d \in Days, NEW s \in rows, s.asOf > d
               PROVE  RateAsOf(rows', m, d) = RateAsOf(rows, m, d)
    OBVIOUS
  <2>1. CASE rows' = rows
    BY <2>1
  <2>2. CASE \E q \in Procs : Commit(q)
    <3>1. PICK q \in Procs : Commit(q)
      BY <2>2
    <3>2. pc[q] = "commit" /\ Stage(q) /\ rows' = job[q].rows
      BY <1>1, <3>1, CommitDoes
    <3>3. job[q].day \in Nat /\ d \in Nat /\ \A r \in rows : r.asOf \in Nat
      BY <1>1, TypeFacts, BoundsAssumption DEF IInv, CostTypeOK, Row, Days
    <3>4. job[q].day > d
      BY <1>1, <3>2, <3>3 DEF IInv, Dated, Holds
    <3>5. rows \subseteq rows' /\ \A r \in rows' \ rows : r.asOf = job[q].day
      BY <3>2 DEF Stage, StagedRows
    <3>6. \A r : r \in rows' /\ r.model = m /\ r.asOf <= d <=> r \in rows /\ r.model = m /\ r.asOf <= d
      BY <3>3, <3>4, <3>5
    <3>7. {r \in rows' : r.model = m /\ r.asOf <= d} = {r \in rows : r.model = m /\ r.asOf <= d}
      BY <3>6
    <3> DEFINE latest(at) == IF at = {} THEN NoRate ELSE (CHOOSE r \in at : \A x \in at : x.asOf <= r.asOf).rate
    <3>8. /\ RateAsOf(rows', m, d) = latest({r \in rows' : r.model = m /\ r.asOf <= d})
          /\ RateAsOf(rows, m, d) = latest({r \in rows : r.model = m /\ r.asOf <= d})
      BY DEF RateAsOf
    <3> HIDE DEF latest
    <3> QED  BY <3>7, <3>8
  <2> QED  BY <1>1, <2>1, <2>2 DEF Next, vars, Write, Complete, Midnight, Ingest, ScanTools, Begin, Walk, Fail
<1>2. Spec => [][A]_vars
  BY <1>1, Invariance, PTL DEF Spec
<1> QED  BY <1>2 DEF PastRepriceStable

\* Processes, transactions, the lock and failures implement the abstract ledger:
\* each commit bills a batch as a whole, past everything billed, or changes nothing.
THEOREM Refinement == Spec => LedgerSpec
PROOF
<1>1. Init => Ledger!Init
  BY DEF Init, Ledger!Init
<1>2. ASSUME IInv, [Next]_vars PROVE [Ledger!Next]_(Ledger!vars)
  <2>1. CASE UNCHANGED <<watermark, events, rows>>
    BY <2>1 DEF Ledger!vars
  <2>2. CASE \E q \in Procs : Commit(q)
    <3>1. PICK q \in Procs : Commit(q)
      BY <2>2
    <3> DEFINE j == job[q]
               path == j.path
    <3>2. /\ path \in Paths /\ j.upto \in Nat /\ watermark \in [Paths -> 0 .. MaxLines]
          /\ j.upto \in 0 .. MaxLines /\ Stage(q)
          /\ events' = events \cup j.events /\ rows' = j.rows
          /\ watermark' = [watermark EXCEPT ![path] = j.upto] /\ watermark[path] <= j.upto
      BY <1>2, <3>1, CommitDoes
    <3>3. watermark[path] \in Nat /\ MaxLines \in Nat
      BY <3>2, BoundsAssumption
    <3>4. /\ \A e \in j.events : e.path = path /\ e.line \in watermark[path] + 1 .. j.upto
          /\ Ledger!OnePerLine(j.events) /\ Ledger!OnePerDateAndRate(j.rows) /\ rows \subseteq j.rows
          /\ \A r \in j.rows \ rows : \E e \in j.events : e.model = r.model /\ e.rate = r.rate
      BY <3>2 DEF Stage, StagedEvents, StagedRows
    <3>5. \A e \in j.events : e \notin events
      BY <1>2, <3>3, <3>4 DEF IInv, Filed
    <3>6. CASE watermark[path] = j.upto
      <4>1. j.events = {}
        BY <3>3, <3>4, <3>6
      <4>2. j.rows = rows
        BY <3>4, <4>1
      <4> QED  BY <3>2, <3>6, <4>1, <4>2 DEF Ledger!vars
    <3>7. CASE watermark[path] # j.upto
      <4>1. watermark[path] < j.upto /\ j.upto \in 1 .. MaxLines
        BY <3>2, <3>3, <3>7
      <4>2. events' \ events = j.events
        BY <3>2, <3>5
      <4>3. Ledger!Bill(path, j.upto)
        BY <3>2, <3>4, <4>1, <4>2 DEF Ledger!Bill, Ledger!OnePerLine, Ledger!OnePerDateAndRate
      <4> QED  BY <3>2, <4>1, <4>3 DEF Ledger!Next
    <3> QED  BY <3>6, <3>7
  <2> QED  BY <1>2, <2>1, <2>2 DEF Next, vars, Write, Complete, Midnight, Ingest, ScanTools, Begin, Walk, Fail
<1>3. Spec => Ledger!Spec
  BY <1>1, <1>2, Invariance, PTL DEF Spec, Ledger!Spec
<1> QED  BY <1>3 DEF LedgerSpec
=============================================================================
