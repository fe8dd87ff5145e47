---------------------------- MODULE Graph_proofs ----------------------------
(***************************************************************************)
(* The graph's edges mirror each other whatever is added and removed, and  *)
(* Batch implements Schedule and never puts two nodes on one resource, for *)
(* any nodes, edges, domains, surfaces and caps.  The layers, closures,    *)
(* cycles, trees and references of such a graph are what they should be.   *)
(***************************************************************************)
EXTENDS GraphOrder, Surfaces_proofs, FiniteSetTheorems, NaturalsInduction

(***************************************************************************)
(* Sequences without repetition.                                           *)
(***************************************************************************)
LEMMA AppendOnce ==
  ASSUME NEW S, NEW s \in Seq(S), NEW e \in S
  PROVE  /\ Append(s, e) \in Seq(S)
         /\ Elements(Append(s, e)) = Elements(s) \cup {e}
         /\ Once(s) /\ e \notin Elements(s) => Once(Append(s, e))
PROOF BY DEF Elements, Once

\* removeID takes out the one occurrence and keeps the rest.
LEMMA RemoveOnce ==
  ASSUME NEW S, NEW s \in Seq(S), Once(s), NEW id
  PROVE  /\ removeID(s, id) \in Seq(S)
         /\ Elements(removeID(s, id)) = Elements(s) \ {id}
         /\ Once(removeID(s, id))
PROOF
<1>1. CASE id \notin Elements(s)
  BY <1>1 DEF removeID
<1>2. CASE id \in Elements(s)
  <2> DEFINE First(i) == i \in DOMAIN s /\ s[i] = id /\ \A j \in 1 .. i - 1 : s[j] # id
             k == CHOOSE i \in DOMAIN s : s[i] = id /\ \A j \in 1 .. i - 1 : s[j] # id
             n == Len(s) - 1
             t == [i \in 1 .. n |-> IF i < k THEN s[i] ELSE s[i + 1]]
  <2>1. \E i \in DOMAIN s : s[i] = id /\ \A j \in 1 .. i - 1 : s[j] # id
    BY <1>2 DEF Elements, Once
  <2>2. k \in DOMAIN s /\ s[k] = id
    BY <2>1
  <2>3. removeID(s, id) = t
    BY <1>2 DEF removeID
  <2>4. n \in Nat /\ k \in 1 .. n + 1
    BY <2>2
  <2> HIDE DEF k
  <2>5. t \in [1 .. n -> S]
    BY <2>4
  <2>6. t \in Seq(S) /\ Len(t) = n
    BY <2>4, <2>5, SeqDef
  <2>7. ASSUME NEW x PROVE x \in Elements(t) <=> x \in Elements(s) \ {id}
    <3>1. ASSUME NEW i \in 1 .. n PROVE t[i] \in Elements(s) /\ t[i] # id
      BY <2>2, <2>4 DEF Elements, Once
    <3>2. ASSUME NEW j \in DOMAIN s, s[j] # id PROVE s[j] \in Elements(t)
      <4>1. CASE j < k
        <5>1. j \in 1 .. n /\ t[j] = s[j]
          BY <2>4, <4>1
        <5> QED  BY <2>6, <5>1 DEF Elements
      <4>2. CASE j > k
        <5>1. j - 1 \in 1 .. n /\ t[j - 1] = s[j]
          BY <2>4, <4>2
        <5> QED  BY <2>6, <5>1 DEF Elements
      <4> QED  BY <2>2, <2>4, <3>2, <4>1, <4>2
    <3> QED  BY <2>6, <3>1, <3>2 DEF Elements
  <2>8. Once(t)
    <3> DEFINE from(i) == IF i < k THEN i ELSE i + 1
    <3>1. ASSUME NEW i \in 1 .. n PROVE from(i) \in DOMAIN s /\ t[i] = s[from(i)]
      BY <2>4
    <3>2. ASSUME NEW i \in 1 .. n, NEW j \in 1 .. n, from(i) = from(j) PROVE i = j
      BY <2>4, <3>2
    <3> HIDE DEF t, from
    <3> QED  BY <2>6, <3>1, <3>2 DEF Once
  <2>9. Elements(t) = Elements(s) \ {id}
    BY <2>7
  <2> HIDE DEF t
  <2> QED  BY <2>3, <2>6, <2>8, <2>9
<1> QED  BY <1>1, <1>2

(***************************************************************************)
(* The inductive invariant.                                                *)
(***************************************************************************)
Sided(s) == \A i, j \in DOMAIN s : i < j => coBatch(s[j], s[i])
IInv ==
  /\ GraphTypeOK /\ EdgesMirror
  /\ phase \in {"open", "cycle"} => scheduled = {} /\ at = 1 /\ members = <<>> /\ deferred = <<>> /\ groups = <<>>
  /\ phase \in {"batching", "done"} => [surfaces |-> surfaces, cap |-> cap] \in Calls
  /\ Sided(members) /\ \A k \in DOMAIN groups : Sided(groups[k].members)
  /\ \A m \in Elements(members) : ready(m)
  /\ cap > 0 => Len(members) <= cap
  /\ \A i \in 1 .. at - 1 :
       Candidate(order[i]) /\ ~full => order[i] \in Elements(members) \/ ~admits(order[i])

LEMMA GroundsType == ASSUME NEW a, NEW b PROVE Grounds(a, b) \subseteq Ground
PROOF
<1>1. Refusals(Domains[obstacle(a, b)], a, b) \subseteq Ground
  BY Zenon DEF Refusals
<1>2. {"unregistered-domain"} \subseteq Ground /\ {"proved-disjoint"} \subseteq Ground /\ {"undeclared-domain"} \subseteq Ground
  BY DEF Ground
<1>3. CASE ~Known(a, b)
  BY <1>2, <1>3 DEF Grounds
<1>4. CASE Known(a, b) /\ Proved(a, b)
  BY <1>2, <1>4 DEF Grounds
<1>5. CASE Known(a, b) /\ ~Proved(a, b)
  BY <1>1, <1>2, <1>5 DEF Grounds
<1> QED  BY <1>3, <1>4, <1>5

LEMMA EmptyElements == Elements(<<>>) = {} /\ Once(<<>>) /\ UNION {Elements(<<>>[k].members) : k \in DOMAIN <<>>} = {}
PROOF BY DEF Elements, Once

LEMMA InitInv == Init => IInv
PROOF
<1> SUFFICES ASSUME Init PROVE IInv
  OBVIOUS
<1> USE DEF Init, New
<1>1. GraphTypeOK
  BY EmptyElements DEF GraphTypeOK, NoCall, Elements
<1>4. EdgesMirror
  BY EmptyElements DEF EdgesMirror
<1>2. Sided(members) /\ (\A k \in DOMAIN groups : Sided(groups[k].members))
  BY DEF Sided
<1>3. (\A m \in Elements(members) : ready(m)) /\ (cap > 0 => Len(members) <= cap)
  BY EmptyElements DEF NoCall
<1> QED  BY <1>1, <1>2, <1>3, <1>4 DEF IInv

\* Every edit keeps the order without repetition and the edges mirrored.
LEMMA EditMirror ==
  ASSUME order \in Seq(Ids), Once(order), deps \in [Ids -> Seq(Ids)], rdeps \in [Ids -> Seq(Ids)], EdgesMirror,
         NEW id \in Ids, NEW d \in Ids,
         AddNode(id) \/ RemoveNode(id) \/ AddDep(id, d) \/ RemoveDep(id, d)
  PROVE  /\ order' \in Seq(Ids) /\ Once(order') /\ deps' \in [Ids -> Seq(Ids)] /\ rdeps' \in [Ids -> Seq(Ids)]
         /\ EdgesMirror'
PROOF
<1>1. \A x \in Ids : deps[x] \in Seq(Ids) /\ Once(deps[x]) /\ rdeps[x] \in Seq(Ids) /\ Once(rdeps[x])
  BY DEF EdgesMirror
<1>2. CASE AddNode(id)
  <2>1. /\ order' \in Seq(Ids) /\ Once(order') /\ Nodes' = Nodes \cup {id}
        /\ deps' = deps /\ rdeps' = rdeps
    BY <1>2, AppendOnce DEF AddNode, Nodes
  <2> QED  BY <2>1 DEF EdgesMirror
<1>3. CASE RemoveNode(id)
  <2>1. order' \in Seq(Ids) /\ Once(order') /\ Nodes' = Nodes \ {id}
    BY <1>3, RemoveOnce DEF RemoveNode, Nodes
  <2>2. ASSUME NEW x \in Ids
        PROVE  /\ deps'[x] \in Seq(Ids) /\ Once(deps'[x])
               /\ Elements(deps'[x]) = IF x = id THEN {} ELSE Elements(deps[x]) \ {id}
    <3>1. CASE x = id
      BY <1>3, <3>1, EmptyElements DEF RemoveNode
    <3>2. CASE x # id /\ x \in Elements(rdeps[id])
      BY <1>1, <1>3, <3>2, RemoveOnce DEF RemoveNode
    <3>3. CASE x # id /\ x \notin Elements(rdeps[id])
      BY <1>1, <1>3, <3>3 DEF RemoveNode, EdgesMirror
    <3> QED  BY <3>1, <3>2, <3>3
  <2>3. ASSUME NEW x \in Ids
        PROVE  /\ rdeps'[x] \in Seq(Ids) /\ Once(rdeps'[x])
               /\ Elements(rdeps'[x]) = IF x = id THEN {} ELSE Elements(rdeps[x]) \ {id}
    <3>1. CASE x = id
      BY <1>3, <3>1, EmptyElements DEF RemoveNode
    <3>2. CASE x # id /\ x \in Elements(deps[id])
      BY <1>1, <1>3, <3>2, RemoveOnce DEF RemoveNode
    <3>3. CASE x # id /\ x \notin Elements(deps[id])
      BY <1>1, <1>3, <3>3 DEF RemoveNode, EdgesMirror
    <3> QED  BY <3>1, <3>2, <3>3
  <2>4. deps' \in [Ids -> Seq(Ids)] /\ rdeps' \in [Ids -> Seq(Ids)]
    <3>1. /\ deps' = [x \in Ids |-> deps'[x]]
          /\ rdeps' = [x \in Ids |-> rdeps'[x]]
      BY <1>3 DEF RemoveNode
    <3> QED  BY <3>1, <2>2, <2>3
  <2>5. ASSUME NEW x \in Ids, NEW y \in Ids
        PROVE  /\ y \in Elements(deps'[x]) <=> y \in Elements(deps[x]) /\ x # id /\ y # id
               /\ x \in Elements(rdeps'[y]) <=> x \in Elements(rdeps[y]) /\ x # id /\ y # id
               /\ Once(deps'[x]) /\ Once(rdeps'[x])
    BY <2>2, <2>3
  <2>6. EdgesMirror'
    BY <2>1, <2>5 DEF EdgesMirror
  <2> QED  BY <2>1, <2>4, <2>6
<1>4. CASE AddDep(id, d)
  <2>1. order' = order /\ Nodes' = Nodes /\ id \in Nodes /\ d \in Nodes /\ d \notin Elements(deps[id])
    BY <1>4 DEF AddDep, Nodes
  <2>2. id \notin Elements(rdeps[d])
    BY <2>1 DEF EdgesMirror
  <2>3. /\ deps' = [deps EXCEPT ![id] = Append(deps[id], d)]
        /\ rdeps' = [rdeps EXCEPT ![d] = Append(rdeps[d], id)]
    BY <1>4 DEF AddDep
  <2>4. /\ Append(deps[id], d) \in Seq(Ids) /\ Once(Append(deps[id], d))
        /\ Elements(Append(deps[id], d)) = Elements(deps[id]) \cup {d}
        /\ Append(rdeps[d], id) \in Seq(Ids) /\ Once(Append(rdeps[d], id))
        /\ Elements(Append(rdeps[d], id)) = Elements(rdeps[d]) \cup {id}
    BY <1>1, <2>1, <2>2, AppendOnce
  <2>5. ASSUME NEW x \in Ids, NEW y \in Ids
        PROVE  /\ y \in Elements(deps'[x]) <=> y \in Elements(deps[x]) \/ (x = id /\ y = d)
               /\ x \in Elements(rdeps'[y]) <=> x \in Elements(rdeps[y]) \/ (x = id /\ y = d)
               /\ Once(deps'[x]) /\ Once(rdeps'[x])
    BY <1>1, <2>3, <2>4
  <2>6. EdgesMirror'
    BY <2>1, <2>5 DEF EdgesMirror
  <2> QED  BY <2>1, <2>3, <2>4, <2>6
<1>5. CASE RemoveDep(id, d)
  <2>1. order' = order /\ Nodes' = Nodes
    BY <1>5 DEF RemoveDep, Nodes
  <2>3. /\ deps' = [deps EXCEPT ![id] = removeID(deps[id], d)]
        /\ rdeps' = [rdeps EXCEPT ![d] = removeID(rdeps[d], id)]
    BY <1>5 DEF RemoveDep
  <2>4. /\ removeID(deps[id], d) \in Seq(Ids) /\ Once(removeID(deps[id], d))
        /\ Elements(removeID(deps[id], d)) = Elements(deps[id]) \ {d}
        /\ removeID(rdeps[d], id) \in Seq(Ids) /\ Once(removeID(rdeps[d], id))
        /\ Elements(removeID(rdeps[d], id)) = Elements(rdeps[d]) \ {id}
    BY <1>1, RemoveOnce
  <2>5. EdgesMirror'
    BY <2>1, <2>3, <2>4 DEF EdgesMirror
  <2> QED  BY <2>1, <2>3, <2>4, <2>5
<1> QED  BY <1>2, <1>3, <1>4, <1>5

\* Every edit of the graph finds and leaves Batch idle.
LEMMA EditInv ==
  ASSUME IInv, NEW id \in Ids, NEW d \in Ids,
         AddNode(id) \/ RemoveNode(id) \/ AddDep(id, d) \/ RemoveDep(id, d)
  PROVE  IInv'
PROOF
<1>1. /\ phase = "open" /\ phase' = "open" /\ surfaces' = surfaces /\ cap' = cap
      /\ scheduled' = {} /\ at' = 1 /\ members' = <<>> /\ deferred' = <<>> /\ groups' = <<>>
  BY DEF IInv, Building, AddNode, RemoveNode, AddDep, RemoveDep, args, round
<1>2. /\ order \in Seq(Ids) /\ Once(order) /\ deps \in [Ids -> Seq(Ids)] /\ rdeps \in [Ids -> Seq(Ids)] /\ EdgesMirror
      /\ [surfaces |-> surfaces, cap |-> cap] \in Calls \cup {NoCall} /\ cap \in Nat
  BY CallsAssumption DEF IInv, GraphTypeOK, NoCall
<1>3. /\ order' \in Seq(Ids) /\ Once(order') /\ deps' \in [Ids -> Seq(Ids)] /\ rdeps' \in [Ids -> Seq(Ids)]
      /\ EdgesMirror'
  BY <1>2, EditMirror
<1>4. GraphTypeOK'
  BY <1>1, <1>2, <1>3, EmptyElements DEF GraphTypeOK, Elements
<1>5. Sided(members)' /\ (\A k \in DOMAIN groups : Sided(groups[k].members))'
  BY <1>1 DEF Sided
<1>6. (\A m \in Elements(members) : ready(m))'
  BY <1>1, EmptyElements
<1> QED  BY <1>1, <1>2, <1>3, <1>4, <1>5, <1>6 DEF IInv

\* While the graph and the arguments stay, so does what may run beside what.
LEMMA SamePairs ==
  ASSUME UNCHANGED <<graph, args>>
  PROVE  Nodes' = Nodes /\ \A a, b : coBatch(a, b)' <=> coBatch(a, b)
PROOF
<1>1. order' = order /\ deps' = deps /\ surfaces' = surfaces
  BY DEF graph, args
<1>2. Nodes' = Nodes
  BY <1>1 DEF Nodes
<1>3. \A a, b : coBatch(a, b)' <=> coBatch(a, b)
  BY <1>1, <1>2 DEF coBatch, Independent, Reach, Closed
<1> QED  BY <1>2, <1>3

\* A step within a round: the next node is passed over, turned away or taken.
LEMMA ConsiderInv ==
  ASSUME IInv, NEW id \in Ids, Consider(id)
  PROVE  IInv'
PROOF
<1>1. /\ phase = "batching" /\ phase' = phase /\ at <= Len(order) /\ id = order[at] /\ at' = at + 1
      /\ order' = order /\ deps' = deps /\ rdeps' = rdeps /\ surfaces' = surfaces /\ cap' = cap
      /\ scheduled' = scheduled /\ groups' = groups /\ UNCHANGED <<graph, args>>
  BY DEF Consider, Skip, GroupFull, Refused, Admit, Considering, graph, args
<1>2. GraphTypeOK /\ cap \in Nat
  BY CallsAssumption DEF IInv, GraphTypeOK, NoCall
<1>3. Nodes' = Nodes /\ \A a, b : coBatch(a, b)' <=> coBatch(a, b)
  BY <1>1, SamePairs
<1>4. EdgesMirror' /\ (\A k \in DOMAIN groups : Sided(groups[k].members))'
  <2>1. EdgesMirror /\ \A k \in DOMAIN groups : Sided(groups[k].members)
    BY DEF IInv
  <2> QED  BY <1>1, <1>3, <2>1 DEF EdgesMirror, Sided
<1>5. \A x : (ready(x)' <=> ready(x)) /\ (Candidate(x)' <=> Candidate(x))
  BY <1>1 DEF ready, Candidate
<1>6. at' \in 1 .. Len(order') + 1 /\ at \in 1 .. Len(order) /\ id \in Nodes
  BY <1>1, <1>2 DEF GraphTypeOK, Nodes, Elements
<1>7. /\ members \in Seq(Ids) /\ deferred \in Seq(Deferrals) /\ Sided(members)
      /\ (\A m \in Elements(members) : ready(m)) /\ (cap > 0 => Len(members) <= cap)
      /\ \A i \in 1 .. at - 1 :
           Candidate(order[i]) /\ ~full => order[i] \in Elements(members) \/ ~admits(order[i])
  BY DEF IInv, GraphTypeOK
<1>8. /\ order' \in Seq(Ids) /\ Once(order') /\ deps' \in [Ids -> Seq(Ids)] /\ rdeps' \in [Ids -> Seq(Ids)]
       /\ phase' \in {"open", "batching", "done", "cycle"}
       /\ [surfaces |-> surfaces', cap |-> cap'] \in Calls \cup {NoCall}
       /\ groups' \in Seq([members : Seq(Ids), deferred : Seq(Deferrals)])
       /\ scheduled' = UNION {Elements(groups'[k].members) : k \in DOMAIN groups'}
       /\ scheduled' \subseteq Nodes'
  BY <1>1, <1>2, <1>3 DEF GraphTypeOK
<1>9. CASE members' = members /\ deferred' \in Seq(Deferrals) /\ (Candidate(id) /\ ~full => ~admits(id))
  <2>1. GraphTypeOK'
    <3>1. members' \in Seq(Ids) /\ Once(members') /\ Elements(members') \subseteq Nodes' \ scheduled'
      BY <1>1, <1>2, <1>3, <1>9 DEF GraphTypeOK
    <3> QED  BY <1>6, <1>9, <1>8, <3>1 DEF GraphTypeOK
  <2>2. Sided(members)' /\ (\A m \in Elements(members) : ready(m))' /\ (cap > 0 => Len(members) <= cap)'
    BY <1>1, <1>3, <1>5, <1>7, <1>9 DEF Sided
  <2>3. (full' <=> full) /\ \A x : admits(x)' <=> admits(x)
    BY <1>1, <1>3, <1>9 DEF full, admits
  <2>4. ASSUME NEW i \in 1 .. at' - 1, Candidate(order[i]), ~full
        PROVE  order[i] \in Elements(members) \/ ~admits(order[i])
    BY <1>1, <1>6, <1>7, <1>9, <2>4
  <2> QED  BY <1>1, <1>4, <1>5, <1>9, <2>1, <2>2, <2>3, <2>4 DEF IInv
<1>10. CASE Admit(id)
  <2>1. members' = Append(members, id) /\ deferred' = deferred /\ Candidate(id) /\ ~full /\ admits(id)
    BY <1>10 DEF Admit
  <2>2. id \notin Elements(members)
    BY <2>1 DEF admits, coBatch, Independent, Elements
  <2>3. members' \in Seq(Ids) /\ Once(members') /\ Elements(members') = Elements(members) \cup {id}
    BY <1>2, <1>7, <2>1, <2>2, AppendOnce DEF GraphTypeOK
  <2>10. Elements(members') \subseteq Nodes' \ scheduled' /\ deferred' \in Seq(Deferrals)
    BY <1>1, <1>2, <1>3, <1>6, <1>7, <2>1, <2>3 DEF GraphTypeOK, Candidate
  <2>4. GraphTypeOK'
    BY <1>6, <1>8, <2>3, <2>10 DEF GraphTypeOK
  <2>5. /\ Len(members') = Len(members) + 1 /\ DOMAIN members = 1 .. Len(members) /\ DOMAIN members' = 1 .. Len(members')
        /\ \A i \in DOMAIN members : members'[i] = members[i]
        /\ members'[Len(members')] = id
    BY <1>7, <2>1
  <2>6. Sided(members)'
    <3>1. ASSUME NEW i \in DOMAIN members', NEW j \in DOMAIN members', i < j
          PROVE  coBatch(members'[j], members'[i])
      <4>1. CASE j \in DOMAIN members
        BY <1>7, <2>5, <3>1, <4>1 DEF Sided
      <4>2. CASE j = Len(members')
        BY <1>7, <2>1, <2>5, <3>1, <4>2 DEF admits
      <4> QED  BY <1>7, <2>5, <4>1, <4>2
    <3> QED  BY <1>3, <3>1 DEF Sided
  <2>7. (\A m \in Elements(members) : ready(m))'
    BY <1>5, <1>7, <2>1, <2>3 DEF Candidate
  <2>8. (cap > 0 => Len(members) <= cap)'
    BY <1>1, <1>2, <1>7, <2>1, <2>5 DEF full
  <2>9. ASSUME NEW i \in 1 .. at' - 1, Candidate(order[i])
        PROVE  order[i] \in Elements(members') \/ ~admits(order[i])'
    <3>1. CASE i = at
      BY <1>1, <2>3, <3>1
    <3>2. CASE i \in 1 .. at - 1
      <4>1. order[i] \in Elements(members) \/ ~admits(order[i])
        BY <1>7, <2>1, <2>9, <3>2
      <4>2. ~admits(order[i]) => ~admits(order[i])'
        BY <1>1, <1>3, <2>5 DEF admits
      <4> QED  BY <2>3, <4>1, <4>2
    <3> QED  BY <1>1, <1>6, <3>1, <3>2
  <2> QED  BY <1>1, <1>4, <1>5, <2>4, <2>6, <2>7, <2>8, <2>9 DEF IInv
<1>11. CASE Skip(id)
  BY <1>7, <1>9, <1>11 DEF Skip
<1>12. CASE GroupFull(id)
  <2>1. [node |-> id, blocker |-> 0, ground |-> "group-full"] \in Deferrals
    BY DEF Deferrals, Ground
  <2> QED  BY <1>7, <1>9, <1>12, <2>1, AppendProperties DEF GroupFull
<1>13. CASE Refused(id)
  <2>0. PICK i \in DOMAIN members : \E g \in Verdicts(id, members[i]) :
          deferred' = Append(deferred, [node |-> id, blocker |-> i, ground |-> g])
    BY <1>13 DEF Refused
  <2>1. PICK g \in Verdicts(id, members[i]) : deferred' = Append(deferred, [node |-> id, blocker |-> i, ground |-> g])
    BY <2>0
  <2>2. g \in Ground
    BY <2>1, GroundsType DEF Verdicts, Ground
  <2>3. [node |-> id, blocker |-> i, ground |-> g] \in Deferrals
    BY <1>7, <2>2 DEF Deferrals
  <2> QED  BY <1>7, <1>9, <1>13, <2>1, <2>3, AppendProperties DEF Refused
<1> QED  BY <1>10, <1>11, <1>12, <1>13 DEF Consider

\* The end of a round.
LEMMA CloseInv ==
  ASSUME IInv, CloseRound
  PROVE  IInv'
PROOF
<1>1. /\ phase = "batching" /\ phase' = phase
      /\ order' = order /\ deps' = deps /\ rdeps' = rdeps /\ surfaces' = surfaces /\ cap' = cap
      /\ scheduled' = scheduled \cup Elements(members)
      /\ groups' = Append(groups, [members |-> members, deferred |-> deferred])
      /\ at' = 1 /\ members' = <<>> /\ deferred' = <<>> /\ UNCHANGED <<graph, args>>
  BY DEF CloseRound, graph, args
<1>2. GraphTypeOK /\ cap \in Nat /\ Sided(members) /\ \A k \in DOMAIN groups : Sided(groups[k].members)
  BY CallsAssumption DEF IInv, GraphTypeOK, NoCall
<1>3. Nodes' = Nodes /\ \A a, b : coBatch(a, b)' <=> coBatch(a, b)
  BY <1>1, SamePairs
<1> DEFINE G == [members : Seq(Ids), deferred : Seq(Deferrals)]
           g == [members |-> members, deferred |-> deferred]
<1>4. g \in G /\ groups \in Seq(G) /\ g.members = members
  BY <1>2 DEF GraphTypeOK
<1> HIDE DEF G, g
<1>5. /\ groups' = Append(groups, g)
      /\ groups' \in Seq(G) /\ DOMAIN groups' = DOMAIN groups \cup {Len(groups) + 1} /\ groups'[Len(groups) + 1] = g
      /\ \A k \in DOMAIN groups : groups'[k] = groups[k]
  BY <1>1, <1>4 DEF g
<1>6. scheduled' = UNION {Elements(groups'[k].members) : k \in DOMAIN groups'}
  <2>1. scheduled = UNION {Elements(groups[k].members) : k \in DOMAIN groups}
    BY <1>2 DEF GraphTypeOK
  <2> QED  BY <1>1, <1>4, <1>5, <2>1
<1>7. Len(order) \in Nat /\ scheduled' \subseteq Nodes
  BY <1>1, <1>2 DEF GraphTypeOK
<1>8. GraphTypeOK'
  <2>1. groups' \in Seq([members : Seq(Ids), deferred : Seq(Deferrals)])
    BY <1>5 DEF G
  <2>2. /\ members' \in Seq(Ids) /\ deferred' \in Seq(Deferrals) /\ at' \in 1 .. Len(order') + 1
        /\ Elements(members') = {} /\ Once(members')
    BY <1>1, <1>7, EmptyElements
  <2>3. /\ order' \in Seq(Ids) /\ Once(order')
        /\ deps' \in [Ids -> Seq(Ids)] /\ rdeps' \in [Ids -> Seq(Ids)]
        /\ phase' \in {"open", "batching", "done", "cycle"}
        /\ [surfaces |-> surfaces', cap |-> cap'] \in Calls \cup {NoCall}
    BY <1>1, <1>2 DEF GraphTypeOK
  <2>4. Elements(members') \subseteq Nodes' \ scheduled' /\ scheduled' \subseteq Nodes'
    BY <1>3, <1>7, <2>2
  <2> QED  BY <1>6, <2>1, <2>2, <2>3, <2>4 DEF GraphTypeOK
<1>9. (\A k \in DOMAIN groups : Sided(groups[k].members))'
  BY <1>2, <1>3, <1>4, <1>5 DEF Sided
<1>10. Sided(members)' /\ (\A m \in Elements(members) : ready(m))' /\ (cap > 0 => Len(members) <= cap)'
  BY <1>1, <1>2, EmptyElements DEF Sided
<1>11. EdgesMirror'
  BY <1>1, <1>3 DEF EdgesMirror, IInv
<1> QED  BY <1>1, <1>8, <1>9, <1>10, <1>11 DEF IInv

LEMMA NextInv == IInv /\ [Next]_vars => IInv'
PROOF
<1> SUFFICES ASSUME IInv, [Next]_vars PROVE IInv'
  OBVIOUS
<1>1. ASSUME NEW id \in Ids, AddNode(id) \/ RemoveNode(id) PROVE IInv'
  BY <1>1, EditInv
<1>2. ASSUME NEW a \in Ids, NEW b \in Ids, AddDep(a, b) \/ RemoveDep(a, b) PROVE IInv'
  BY <1>2, EditInv
<1>3. ASSUME NEW id \in Ids, Consider(id) PROVE IInv'
  BY <1>3, ConsiderInv
<1>4. CASE CloseRound
  BY <1>4, CloseInv
<1>5. ASSUME UNCHANGED <<graph, scheduled, round, groups>>
      PROVE  /\ Nodes' = Nodes /\ order' = order /\ deps' = deps /\ rdeps' = rdeps /\ scheduled' = scheduled
             /\ at' = at /\ members' = members /\ deferred' = deferred /\ groups' = groups
  BY <1>5 DEF graph, round, Nodes
<1>6. CASE BatchCyclic \/ Return \/ UNCHANGED vars
  <2>1. /\ UNCHANGED <<graph, scheduled, round, groups>> /\ UNCHANGED <<graph, args>>
        /\ surfaces' = surfaces /\ cap' = cap
    BY <1>6 DEF BatchCyclic, Return, vars, args
  <2>2. /\ Nodes' = Nodes /\ order' = order /\ deps' = deps /\ rdeps' = rdeps /\ scheduled' = scheduled
        /\ at' = at /\ members' = members /\ deferred' = deferred /\ groups' = groups
        /\ \A a, b : coBatch(a, b)' <=> coBatch(a, b)
    BY <1>5, <2>1, SamePairs
  <2>3. /\ phase' \in {"open", "batching", "done", "cycle"}
        /\ phase' \in {"open", "cycle"} => phase \in {"open", "cycle"}
        /\ phase' \in {"batching", "done"} => phase \in {"batching", "done"}
    BY <1>6 DEF BatchCyclic, Return, vars, IInv, GraphTypeOK
  <2>4. GraphTypeOK' /\ EdgesMirror'
    BY <2>1, <2>2, <2>3 DEF IInv, GraphTypeOK, EdgesMirror
  <2>5. /\ (\A x : ready(x)' <=> ready(x)) /\ (\A x : Candidate(x)' <=> Candidate(x))
        /\ (full' <=> full) /\ \A x : admits(x)' <=> admits(x)
    BY <2>1, <2>2 DEF ready, Candidate, full, admits
  <2>6. Sided(members)' /\ (\A k \in DOMAIN groups : Sided(groups[k].members))'
    BY <2>2 DEF IInv, Sided
  <2> QED  BY <2>1, <2>2, <2>3, <2>4, <2>5, <2>6 DEF IInv
<1>7. ASSUME NEW call \in Calls, BeginBatch(call) PROVE IInv'
  <2>1. /\ UNCHANGED <<graph, scheduled, round, groups>> /\ phase = "open" /\ phase' = "batching"
        /\ surfaces' = call.surfaces /\ cap' = call.cap
    BY <1>7 DEF BeginBatch
  <2>2. [surfaces |-> surfaces', cap |-> cap'] \in Calls /\ cap' \in Nat
    BY <2>1, CallsAssumption
  <2>3. /\ Nodes' = Nodes /\ order' = order /\ deps' = deps /\ rdeps' = rdeps /\ scheduled' = {}
        /\ at' = 1 /\ members' = <<>> /\ deferred' = <<>> /\ groups' = <<>>
        /\ scheduled' = scheduled /\ at' = at /\ members' = members /\ deferred' = deferred /\ groups' = groups
    BY <1>5, <2>1 DEF IInv
  <2>4. GraphTypeOK' /\ EdgesMirror'
    BY <2>1, <2>2, <2>3 DEF IInv, GraphTypeOK, EdgesMirror
  <2>5. /\ Sided(members)' /\ (\A k \in DOMAIN groups : Sided(groups[k].members))'
        /\ (\A m \in Elements(members) : ready(m))' /\ (cap > 0 => Len(members) <= cap)'
    BY <2>2, <2>3, EmptyElements DEF Sided
  <2> QED  BY <2>1, <2>2, <2>3, <2>4, <2>5 DEF IInv
<1> QED  BY <1>1, <1>2, <1>3, <1>4, <1>6, <1>7 DEF Next, BatchStep

LEMMA Inductive == Spec => []IInv
PROOF
<1>1. Init => IInv
  BY InitInv
<1>2. IInv /\ [Next]_vars => IInv'
  BY NextInv
<1> QED  BY <1>1, <1>2, PTL DEF Spec

\* The types hold: the groups are made of nodes, each in one group only.
THEOREM GraphTypeCorrect == Spec => []GraphTypeOK
PROOF
<1>1. IInv => GraphTypeOK
  BY DEF IInv
<1> QED  BY <1>1, Inductive, PTL

\* However nodes and edges are added and removed, the two maps hold the same
\* edges, each once, between nodes that are there.
THEOREM EdgesAlwaysMirror == Spec => []EdgesMirror
PROOF
<1>1. IInv => EdgesMirror
  BY DEF IInv
<1> QED  BY <1>1, Inductive, PTL

(***************************************************************************)
(* No two nodes of a group share a resource.                               *)
(***************************************************************************)
\* What CanCoBatch clears shares no resource, in any registered domain.
LEMMA ClearedApart ==
  ASSUME [surfaces |-> surfaces, cap |-> cap] \in Calls,
         NEW m \in Ids, NEW n \in Ids, coBatch(m, n)
  PROVE  ~Share(m, n)
PROOF
<1>1. \A i \in DOMAIN Domains : ~Undeclared(Domains[i], surfaces[m], surfaces[n]) /\ ~Unproved(Domains[i], surfaces[m], surfaces[n])
  BY DEF coBatch, Proved
<1>2. ASSUME NEW x \in Ids, NEW i \in DOMAIN Domains, Domains[i].name \in DOMAIN surfaces[x],
             NEW c \in surfaces[x][Domains[i].name]
      PROVE  WellFormed(Domains[i], c)
  <2> DEFINE call == [surfaces |-> surfaces, cap |-> cap]
  <2>1. call.surfaces = surfaces /\ call \in Calls
    OBVIOUS
  <2> QED  BY <1>2, <2>1, CallsAssumption
<1> SUFFICES ASSUME NEW i \in DOMAIN Domains,
                    Domains[i].name \in DOMAIN surfaces[m], Domains[i].name \in DOMAIN surfaces[n],
                    NEW x \in surfaces[m][Domains[i].name], NEW y \in surfaces[n][Domains[i].name],
                    NEW r, Reaches(Domains[i], x, r), Reaches(Domains[i], y, r)
             PROVE  FALSE
  BY DEF Share
<1>3. relate(Domains[i], x, y) = "disjoint"
  BY <1>1 DEF Unproved
<1>4. WellFormed(Domains[i], x) /\ WellFormed(Domains[i], y)
  BY <1>2
<1> QED  BY <1>3, <1>4, RelateSound

LEMMA SidedApart ==
  ASSUME [surfaces |-> surfaces, cap |-> cap] \in Calls, NEW s \in Seq(Ids), Sided(s)
  PROVE  Apart(s)
PROOF
<1> SUFFICES ASSUME NEW i \in DOMAIN s, NEW j \in DOMAIN s, i # j PROVE ~Share(s[i], s[j])
  BY DEF Apart
<1>1. \A m, n : Share(m, n) => Share(n, m)
  BY DEF Share
<1>2. CASE i < j
  <2>1. coBatch(s[j], s[i])
    BY <1>2 DEF Sided
  <2>2. ~Share(s[j], s[i])
    BY <2>1, ClearedApart
  <2> QED  BY <1>1, <2>2
<1>3. CASE j < i
  <2>1. coBatch(s[i], s[j])
    BY <1>3 DEF Sided
  <2> QED  BY <2>1, ClearedApart
<1> QED  BY <1>2, <1>3

\* Two nodes that Batch puts in one group never reach a common resource, for
\* every set of domains and every way the nodes declare their surfaces, given
\* that patterns match what Means says of them.
THEOREM NoResourceShared == Spec => []NoSharedResource
PROOF
<1>1. ASSUME IInv PROVE NoSharedResource
  <2>1. members \in Seq(Ids) /\ Sided(members) /\ \A k \in DOMAIN groups : groups[k].members \in Seq(Ids) /\ Sided(groups[k].members)
    <3>1. groups \in Seq([members : Seq(Ids), deferred : Seq(Deferrals)])
      BY <1>1 DEF IInv, GraphTypeOK
    <3>2. ASSUME NEW k \in DOMAIN groups PROVE groups[k].members \in Seq(Ids)
      <4> DEFINE G == [members : Seq(Ids), deferred : Seq(Deferrals)]
      <4>1. \A g \in G : g.members \in Seq(Ids)
        OBVIOUS
      <4>2. groups \in Seq(G)
        BY <3>1
      <4> HIDE DEF G
      <4>3. groups[k] \in G
        BY <4>2
      <4> QED  BY <4>1, <4>3
    <3> QED  BY <1>1, <3>2 DEF IInv, GraphTypeOK
  <2>2. CASE phase \in {"batching", "done"}
    <3>1. [surfaces |-> surfaces, cap |-> cap] \in Calls
      BY <1>1, <2>2 DEF IInv
    <3> QED  BY <2>1, <3>1, SidedApart DEF NoSharedResource
  <2>3. CASE phase \in {"open", "cycle"}
    BY <1>1, <2>3 DEF IInv, NoSharedResource, Apart
  <2> QED  BY <1>1, <2>2, <2>3 DEF IInv, GraphTypeOK
<1> QED  BY <1>1, Inductive, PTL

(***************************************************************************)
(* Batch implements Schedule.                                              *)
(***************************************************************************)
LEMMA OnceCardinality ==
  ASSUME NEW S, NEW s \in Seq(S), Once(s)
  PROVE  IsFiniteSet(Elements(s)) /\ Cardinality(Elements(s)) = Len(s)
PROOF
<1>1. Len(s) \in Nat /\ DOMAIN s = 1 .. Len(s)
  OBVIOUS
<1>2. IsFiniteSet(1 .. Len(s)) /\ Cardinality(1 .. Len(s)) = Len(s)
  BY <1>1, FS_Interval
<1>3. s \in Bijection(1 .. Len(s), Elements(s))
  BY <1>1 DEF Once, Elements, Bijection, Injection, Surjection, IsInjective
<1>4. ExistsBijection(1 .. Len(s), Elements(s))
  BY <1>3 DEF ExistsBijection
<1> QED  BY <1>2, <1>4, FS_Bijection

\* Linked and surface-compared either way round, the answer is the same.
LEMMA PairsSymmetric ==
  ASSUME [surfaces |-> surfaces, cap |-> cap] \in Calls, NEW m \in Ids, NEW n \in Ids, coBatch(m, n)
  PROVE  coBatch(n, m)
PROOF
<1>1. Independent(n, m)
  BY DEF coBatch, Independent
<1>2. \A i \in DOMAIN Domains : Domains[i].name \in DOMAIN surfaces[m] /\ Domains[i].name \in DOMAIN surfaces[n]
  BY DEF coBatch, Proved, Undeclared
<1>3. ASSUME NEW x \in {m, n}, NEW i \in DOMAIN Domains, NEW c \in surfaces[x][Domains[i].name]
      PROVE  WellFormed(Domains[i], c)
  <2> DEFINE call == [surfaces |-> surfaces, cap |-> cap]
  <2>1. call.surfaces = surfaces /\ call \in Calls
    OBVIOUS
  <2> QED  BY <1>2, <1>3, <2>1, CallsAssumption
<1>4. Proved(surfaces[n], surfaces[m])
  BY <1>3, ProvedSymmetric DEF coBatch
<1> QED  BY <1>1, <1>4 DEF coBatch

\* What a closing round has gathered is a batch of Schedule.
LEMMA RoundIsBatch ==
  ASSUME IInv, CloseRound
  PROVE  /\ BatchPlan!Batch(Elements(members)) /\ Elements(members) \in SUBSET BatchPlan!Ready
PROOF
<1> DEFINE B == Elements(members)
<1>1. /\ phase = "batching" /\ at > Len(order) /\ members # <<>>
      /\ [surfaces |-> surfaces, cap |-> cap] \in Calls
  BY DEF CloseRound, IInv
<1>2. GraphTypeOK /\ cap \in Nat
  BY CallsAssumption DEF IInv, GraphTypeOK, NoCall
<1>3. /\ members \in Seq(Ids) /\ Once(members) /\ B \subseteq Nodes \ scheduled /\ B \subseteq Ids /\ Nodes \subseteq Ids
      /\ order \in Seq(Ids) /\ at \in 1 .. Len(order) + 1
  <2>1. /\ members \in Seq(Ids) /\ Once(members) /\ B \subseteq Nodes \ scheduled
        /\ order \in Seq(Ids) /\ at \in 1 .. Len(order) + 1
    BY <1>2 DEF GraphTypeOK
  <2>2. Nodes \subseteq Ids
    BY <2>1 DEF Nodes, Elements
  <2> QED  BY <2>1, <2>2
<1>4. BatchPlan!Taken = scheduled
  <2>1. scheduled = UNION {Elements(groups[k].members) : k \in DOMAIN groups}
    BY <1>2 DEF GraphTypeOK
  <2> QED  BY <2>1 DEF BatchPlan!Taken
<1>5. \A n : n \in BatchPlan!Ready <=> n \in Nodes /\ Candidate(n)
  BY <1>3, <1>4 DEF BatchPlan!Ready, Candidate, ready
<1>6. B # {} /\ B \subseteq BatchPlan!Ready
  <2>0. Len(members) # 0
    BY <1>1, <1>3, EmptySeq, SeqEqual
  <2>1. members[1] \in B
    BY <1>3, <2>0 DEF Elements
  <2>2. \A m \in B : ready(m)
    BY DEF IInv
  <2> QED  BY <1>3, <1>5, <2>1, <2>2 DEF Candidate
<1>7. IsFiniteSet(B) /\ Cardinality(B) = Len(members)
  BY <1>3, OnceCardinality
<1>8. cap = 0 \/ Cardinality(B) <= cap
  BY <1>2, <1>7 DEF IInv
<1>9. ASSUME NEW m \in B, NEW n \in B, m # n PROVE <<m, n>> \in Beside
  <2>1. PICK i \in DOMAIN members, j \in DOMAIN members : m = members[i] /\ n = members[j] /\ i # j
    BY <1>9 DEF Elements
  <2>2. Sided(members)
    BY DEF IInv
  <2>3. coBatch(m, n) \/ coBatch(n, m)
    BY <1>3, <2>1, <2>2 DEF Sided
  <2>4. coBatch(m, n)
    BY <1>1, <1>3, <2>3, PairsSymmetric
  <2> QED  BY <1>3, <2>4 DEF Beside
<1>10. ASSUME NEW n \in BatchPlan!Ready \ B, cap = 0 \/ Cardinality(B) < cap
       PROVE  \E m \in B : m # n /\ <<n, m>> \notin Beside
  <2>1. n \in Nodes /\ Candidate(n)
    BY <1>5
  <2>2. PICK i \in DOMAIN order : n = order[i]
    BY <2>1 DEF Nodes, Elements
  <2>3. ~full
    BY <1>2, <1>3, <1>7, <1>10 DEF full
  <2>4. i \in 1 .. at - 1
    BY <1>1, <1>3
  <2>5. ~admits(n)
    BY <2>1, <2>2, <2>3, <2>4 DEF IInv
  <2>6. PICK k \in DOMAIN members : ~coBatch(n, members[k])
    BY <2>5 DEF admits
  <2>7. members[k] \in B /\ members[k] # n
    BY <1>3, <1>10 DEF Elements
  <2> QED  BY <2>6, <2>7 DEF Beside
<1>11. BatchPlan!Together(B)
  BY <1>9 DEF BatchPlan!Together
<1> HIDE DEF B
<1>12. ASSUME NEW n \in BatchPlan!Ready \ B, cap = 0 \/ Cardinality(B) < cap
       PROVE  ~BatchPlan!Together(B \cup {n})
  <2>2. PICK m \in B : m # n /\ <<n, m>> \notin Beside
    BY <1>10, <1>12
  <2>3. m \in B \cup {n} /\ n \in B \cup {n}
    OBVIOUS
  <2>4. BatchPlan!Together(B \cup {n}) => <<n, m>> \in Beside
    BY ONLY <2>2, <2>3 DEF BatchPlan!Together
  <2> QED  BY <2>2, <2>4
<1>TMP. BatchPlan!Cardinality(B) = Cardinality(B)
  BY DEF BatchPlan!Cardinality, Cardinality, BatchPlan!IsFiniteSet, IsFiniteSet
<1>14. BatchPlan!Batch(B)
  BY <1>6, <1>8, <1>11, <1>12, <1>TMP DEF BatchPlan!Batch, BatchPlan!HasRoom
<1> QED  BY <1>6, <1>14 DEF B

\* Batch implements Schedule: its groups are batches taken in an order that
\* dependencies allow, that may run side by side and leave nothing out.
THEOREM BatchImplementsSchedule == Spec => ImplementsSchedule
PROOF
<1>1. Init => BatchPlan!Init
  BY DEF Init, BatchPlan!Init
<1>2. IInv /\ [Next]_vars => [BatchPlan!Next]_(BatchPlan!vars)
  <2> SUFFICES ASSUME IInv, [Next]_vars PROVE [BatchPlan!Next]_(BatchPlan!vars)
    OBVIOUS
  <2> DEFINE Batches == [k \in DOMAIN groups |-> Elements(groups[k].members)]
             Needs == [x \in Ids |-> Elements(deps[x])]
  <2>1. ASSUME UNCHANGED <<graph, args>>
        PROVE  Nodes' = Nodes /\ Needs' = Needs /\ Beside' = Beside /\ cap' = cap
    <3>1. deps' = deps /\ cap' = cap
      BY <2>1 DEF graph, args
    <3>2. Nodes' = Nodes /\ \A a, b : coBatch(a, b)' <=> coBatch(a, b)
      BY <2>1, SamePairs
    <3>3. Beside' = Beside
      BY <3>2 DEF Beside
    <3> QED  BY <3>1, <3>2, <3>3
  <2>2. CASE phase \in {"open", "cycle"} /\ groups' = groups
    <3>1. phase \notin {"batching", "done"}
      BY <2>2
    <3> QED  BY <2>2, <3>1 DEF BatchPlan!Next, BatchPlan!Plan
  <2>3. CASE UNCHANGED <<graph, args, groups>> /\ phase \in {"batching", "done"} /\ phase' \in {"batching", "done"}
    <3>1. Nodes' = Nodes /\ Needs' = Needs /\ Beside' = Beside /\ cap' = cap /\ Batches' = Batches
      BY <2>1, <2>3
    <3> QED  BY <2>3, <3>1 DEF BatchPlan!vars, BatchPlan!plan
  <2>4. CASE CloseRound
    <3>1. BatchPlan!Batch(Elements(members)) /\ Elements(members) \in SUBSET BatchPlan!Ready
      BY <2>4, RoundIsBatch
    <3>2. /\ phase = "batching" /\ phase' = "batching" /\ UNCHANGED <<graph, args>>
          /\ groups' = Append(groups, [members |-> members, deferred |-> deferred])
      BY <2>4 DEF CloseRound
    <3>3. Nodes' = Nodes /\ Needs' = Needs /\ Beside' = Beside /\ cap' = cap
      BY <2>1, <3>2
    <3>4. Batches' = Append(Batches, Elements(members))
      <4> DEFINE G == [members : Seq(Ids), deferred : Seq(Deferrals)]
                 g == [members |-> members, deferred |-> deferred]
      <4>1. groups \in Seq(G) /\ g \in G /\ g.members = members
        BY DEF IInv, GraphTypeOK
      <4> HIDE DEF G, g
      <4>2. /\ groups' = Append(groups, g) /\ DOMAIN groups = 1 .. Len(groups) /\ DOMAIN groups' = 1 .. Len(groups) + 1
            /\ \A k \in DOMAIN groups : groups'[k] = groups[k]
            /\ groups'[Len(groups) + 1] = g /\ Len(groups) \in Nat
        BY <3>2, <4>1 DEF g
      <4>3. Batches \in [1 .. Len(groups) -> SUBSET Ids]
        <5>1. ASSUME NEW k \in DOMAIN groups PROVE Elements(groups[k].members) \subseteq Ids
          <6>1. \A h \in G : h.members \in Seq(Ids)
            BY DEF G
          <6>2. groups[k].members \in Seq(Ids)
            BY ONLY <4>1, <6>1, k \in DOMAIN groups
          <6> QED  BY <6>2 DEF Elements
        <5> QED  BY <4>2, <5>1
      <4>4. Batches \in Seq(SUBSET Ids) /\ Len(Batches) = Len(groups) /\ Elements(members) \in SUBSET Ids
        <5>1. Batches \in Seq(SUBSET Ids)
          BY <4>2, <4>3, SeqDef
        <5>2. DOMAIN Batches = 1 .. Len(groups)
          BY <4>3
        <5>3. members \in Seq(Ids)
          BY DEF IInv, GraphTypeOK
        <5>4. Elements(members) \subseteq Ids
          BY <5>3 DEF Elements
        <5> HIDE DEF Batches
        <5> QED  BY <4>2, <5>1, <5>2, <5>4
      <4> DEFINE longer == Append(Batches, Elements(members))
      <4>5. /\ longer \in Seq(SUBSET Ids) /\ Len(longer) = Len(groups) + 1
            /\ \A k \in 1 .. Len(groups) : longer[k] = Batches[k]
            /\ longer[Len(groups) + 1] = Elements(members)
        <5> HIDE DEF Batches
        <5> QED  BY <4>4, AppendProperties
      <4>6. Batches' = [k \in 1 .. Len(groups) + 1 |-> Elements(groups'[k].members)]
        BY <4>2
      <4>7. \A k \in 1 .. Len(groups) + 1 : Elements(groups'[k].members) = longer[k]
        <5>1. ASSUME NEW k \in 1 .. Len(groups) PROVE Elements(groups'[k].members) = longer[k]
          BY <4>2, <4>5, <5>1
        <5>2. Elements(groups'[Len(groups) + 1].members) = longer[Len(groups) + 1]
          BY <4>1, <4>2, <4>5
        <5> HIDE DEF longer
        <5> QED  BY <4>2, <5>1, <5>2
      <4>8. longer = [k \in 1 .. Len(groups) + 1 |-> longer[k]]
        <5> HIDE DEF longer
        <5> QED  BY <4>2, <4>5
      <4> QED
        <5> HIDE DEF longer, Batches
        <5>1. Batches' = longer
          BY <4>6, <4>7, <4>8
        <5> QED  BY <5>1 DEF longer
    <3> QED  BY <3>1, <3>2, <3>3, <3>4 DEF BatchPlan!Next, BatchPlan!Take, BatchPlan!plan
  <2>5. ASSUME NEW id \in Ids, Consider(id)
        PROVE  UNCHANGED <<graph, args, groups>> /\ phase \in {"batching", "done"} /\ phase' \in {"batching", "done"}
    BY <2>5 DEF Consider, Skip, GroupFull, Refused, Admit, Considering
  <2>6. CASE Return
    BY <2>3, <2>6 DEF Return
  <2>7. ASSUME NEW id \in Ids, NEW d \in Ids, AddNode(id) \/ RemoveNode(id) \/ AddDep(id, d) \/ RemoveDep(id, d)
        PROVE  phase \in {"open", "cycle"} /\ groups' = groups
    BY <2>7 DEF AddNode, RemoveNode, AddDep, RemoveDep, Building
  <2>8. ASSUME NEW call \in Calls, BeginBatch(call)
        PROVE  phase \in {"open", "cycle"} /\ groups' = groups
    BY <2>8 DEF BeginBatch
  <2>9. CASE UNCHANGED vars
    <3>1. UNCHANGED <<graph, args, groups>> /\ phase' = phase /\ phase \in {"open", "cycle", "batching", "done"}
      BY <2>9 DEF vars, IInv, GraphTypeOK
    <3> QED  BY <2>2, <2>3, <3>1
  <2>10. CASE BatchCyclic
    BY <2>2, <2>10 DEF BatchCyclic
  <2> QED  BY <2>2, <2>3, <2>4, <2>5, <2>6, <2>7, <2>8, <2>9, <2>10 DEF Next, BatchStep
<1> QED  BY <1>1, <1>2, Inductive, PTL DEF Spec, BatchPlan!Spec, ImplementsSchedule

(***************************************************************************)
(* Loops.                                                                  *)
(***************************************************************************)
LEMMA SetInduction ==
  ASSUME NEW S, 0 \in S, \A n \in Nat : n \in S => n + 1 \in S
  PROVE  Nat \subseteq S
PROOF
<1> SUFFICES ASSUME Nat \ S # {} PROVE FALSE
  OBVIOUS
<1> DEFINE below == {mn \in Nat \X Nat : mn[1] < mn[2]}
           T == Nat \ S
<1>1. IsWellFoundedOn(below, Nat)
  BY NatLessThanWellFounded DEF OpToRel
<1>2. T \subseteq Nat /\ T # {}
  OBVIOUS
<1> HIDE DEF below, T
<1>3. PICK x \in T : \A y \in T : <<y, x>> \notin below
  BY <1>1, <1>2, WFMin
<1> USE DEF below, T
<1>4. x # 0 /\ x - 1 \in Nat /\ x - 1 < x
  BY <1>3
<1>5. x - 1 \notin T
  BY <1>3, <1>4
<1>6. x - 1 + 1 \in S
  BY <1>4, <1>5
<1> QED  BY <1>3, <1>4, <1>6

\* A loop of n turns that starts with s and whose k-th turn is body[k].
IsLoop(f, n, s, body) == f = [k \in 0 .. n |-> IF k = 0 THEN s ELSE body[k][f[k - 1]]]

\* The loop has one run, and its values stay where its turns keep them.
LEMMA LoopRuns ==
  ASSUME NEW A, NEW s \in A, NEW n \in Nat, NEW body \in [1 .. n -> [A -> A]]
  PROVE  \E f \in [0 .. n -> A] : IsLoop(f, n, s, body)
PROOF
<1> DEFINE S == {m \in Nat : m <= n => \E f \in [0 .. m -> A] : IsLoop(f, m, s, body)}
<1>1. 0 \in S
  <2>1. [k \in 0 .. 0 |-> s] \in [0 .. 0 -> A] /\ IsLoop([k \in 0 .. 0 |-> s], 0, s, body)
    BY DEF IsLoop
  <2> QED  BY <2>1
<1>2. ASSUME NEW m \in Nat, m \in S PROVE m + 1 \in S
  <2> SUFFICES ASSUME m + 1 <= n PROVE \E f \in [0 .. m + 1 -> A] : IsLoop(f, m + 1, s, body)
    OBVIOUS
  <2>1. PICK f \in [0 .. m -> A] : IsLoop(f, m, s, body)
    BY <1>2
  <2> DEFINE next == body[m + 1][f[m]]
             g == [k \in 0 .. m + 1 |-> IF k = m + 1 THEN next ELSE f[k]]
  <2>2. next \in A
    BY <2>1
  <2>3. g \in [0 .. m + 1 -> A]
    BY <2>1, <2>2
  <2>4. ASSUME NEW k \in 0 .. m + 1 PROVE g[k] = IF k = 0 THEN s ELSE body[k][g[k - 1]]
    <3>1. CASE k = m + 1
      <4>1. g[k - 1] = f[m] /\ g[k] = next
        BY <3>1
      <4> QED  BY <3>1, <4>1
    <3>2. CASE k # m + 1
      <4>1. k \in 0 .. m /\ g[k] = f[k]
        BY <3>2
      <4>2. k # 0 => k - 1 \in 0 .. m /\ g[k - 1] = f[k - 1]
        BY <4>1
      <4>3. f[k] = IF k = 0 THEN s ELSE body[k][f[k - 1]]
        BY <2>1, <4>1 DEF IsLoop
      <4> QED  BY <4>1, <4>2, <4>3
    <3> QED  BY <3>1, <3>2
  <2> HIDE DEF next
  <2>5. IsLoop(g, m + 1, s, body)
    BY <2>4 DEF IsLoop
  <2> QED  BY <2>3, <2>5
<1> HIDE DEF S
<1>3. n \in S
  BY <1>1, <1>2, SetInduction
<1> QED  BY <1>3 DEF S

\* What every turn keeps is so at the end.
LEMMA LoopKeeps ==
  ASSUME NEW f, NEW T, NEW n \in Nat, f[0] \in T[0], \A k \in 1 .. n : f[k - 1] \in T[k - 1] => f[k] \in T[k]
  PROVE  \A k \in 0 .. n : f[k] \in T[k]
PROOF
<1> DEFINE S == {m \in Nat : m <= n => f[m] \in T[m]}
<1>1. 0 \in S
  OBVIOUS
<1>2. ASSUME NEW m \in Nat, m \in S PROVE m + 1 \in S
  <2>1. CASE m + 1 <= n
    <3>1. m + 1 \in 1 .. n /\ m + 1 - 1 = m
      BY <2>1
    <3> QED  BY <1>2, <2>1, <3>1
  <2> QED  BY <2>1
<1> HIDE DEF S
<1>3. Nat \subseteq S
  BY <1>1, <1>2, SetInduction
<1> QED  BY <1>3 DEF S

(***************************************************************************)
(* The shape of a graph that was built by its operations.                  *)
(***************************************************************************)
WellBuilt ==
  /\ order \in Seq(Ids) /\ Once(order)
  /\ deps \in [Ids -> Seq(Ids)] /\ rdeps \in [Ids -> Seq(Ids)]
  /\ EdgesMirror

LEMMA Shape ==
  ASSUME WellBuilt
  PROVE  /\ Len(order) \in Nat /\ DOMAIN order = 1 .. Len(order)
         /\ Nodes \subseteq Ids /\ IsFiniteSet(Nodes) /\ Cardinality(Nodes) = Len(order)
         /\ \A x \in Ids : /\ deps[x] \in Seq(Ids) /\ Once(deps[x]) /\ Elements(deps[x]) \subseteq Nodes
                           /\ Len(deps[x]) \in Nat /\ Len(deps[x]) <= Len(order)
         /\ MaxTurns \in Nat /\ MaxTurns = Len(order) * Len(order) + 2 * Len(order)
PROOF
<1>1. Len(order) \in Nat /\ DOMAIN order = 1 .. Len(order) /\ Nodes \subseteq Ids
  BY DEF WellBuilt, Nodes, Elements
<1>2. IsFiniteSet(Nodes) /\ Cardinality(Nodes) = Len(order)
  BY OnceCardinality DEF WellBuilt, Nodes
<1>3. ASSUME NEW x \in Ids
      PROVE  /\ deps[x] \in Seq(Ids) /\ Once(deps[x]) /\ Elements(deps[x]) \subseteq Nodes
             /\ Len(deps[x]) \in Nat /\ Len(deps[x]) <= Len(order)
  <2>1. deps[x] \in Seq(Ids) /\ Once(deps[x]) /\ Len(deps[x]) \in Nat
    BY DEF WellBuilt, EdgesMirror
  <2>2. Elements(deps[x]) \subseteq Ids
    BY <2>1 DEF Elements
  <2>3. Elements(deps[x]) \subseteq Nodes
    BY <2>2 DEF WellBuilt, EdgesMirror
  <2>4. IsFiniteSet(Elements(deps[x])) /\ Cardinality(Elements(deps[x])) = Len(deps[x])
    BY <2>1, OnceCardinality
  <2>5. Cardinality(Elements(deps[x])) <= Cardinality(Nodes)
    BY <1>2, <2>3, FS_Subset
  <2> QED  BY <1>2, <2>1, <2>3, <2>4, <2>5
<1>4. MaxTurns \in Nat /\ MaxTurns = Len(order) * Len(order) + 2 * Len(order)
  BY <1>1 DEF MaxTurns
<1> QED  BY <1>1, <1>2, <1>3, <1>4

\* What a node reaches holds its dependencies, is closed, and is the least such set.
LEMMA ReachHolds ==
  ASSUME WellBuilt, NEW x \in Ids
  PROVE  Reach(x) \subseteq Nodes /\ Elements(deps[x]) \subseteq Reach(x) /\ Closed(Reach(x))
PROOF
<1>1. Elements(deps[x]) \subseteq Nodes /\ Nodes \subseteq Ids /\ \A y \in Ids : Elements(deps[y]) \subseteq Nodes
  BY Shape
<1> QED  BY <1>1 DEF Reach, Closed

LEMMA ReachLeast ==
  ASSUME NEW x, NEW S, S \subseteq Nodes, Elements(deps[x]) \subseteq S, Closed(S)
  PROVE  Reach(x) \subseteq S
PROOF BY DEF Reach

\* What is reached reaches no further.
LEMMA ReachOnward ==
  ASSUME WellBuilt, NEW x \in Ids, NEW y \in Reach(x)
  PROVE  y \in Ids /\ Reach(y) \subseteq Reach(x)
PROOF
<1>1. Reach(x) \subseteq Nodes /\ Closed(Reach(x)) /\ Nodes \subseteq Ids
  BY ReachHolds, Shape
<1>2. Elements(deps[y]) \subseteq Reach(x)
  BY <1>1 DEF Closed
<1> QED  BY <1>1, <1>2, ReachLeast

(***************************************************************************)
(* Nodes in insertion order.                                               *)
(***************************************************************************)
KeptAfter(S, f, i) ==
  IF i = 0 THEN <<>> ELSE IF order[i] \in S THEN Append(f[i - 1], order[i]) ELSE f[i - 1]
IsKept(S, f) == f = [i \in 0 .. Len(order) |-> KeptAfter(S, f, i)]

\* The loop of InOrder is a function.
LEMMA KeptRuns == ASSUME WellBuilt, NEW S PROVE \E f : IsKept(S, f) /\ InOrder(S) = f[Len(order)]
PROOF
<1> DEFINE n == Len(order)
           A == Seq(Ids)
           body == [k \in 1 .. n |-> [s \in A |-> IF order[k] \in S THEN Append(s, order[k]) ELSE s]]
<1>1. n \in Nat /\ <<>> \in A /\ \A k \in 1 .. n : order[k] \in Ids
  BY Shape DEF WellBuilt
<1>2. body \in [1 .. n -> [A -> A]]
  BY <1>1
<1> HIDE DEF n, A
<1>3. PICK f \in [0 .. n -> A] : IsLoop(f, n, <<>>, body)
  <2> HIDE DEF body
  <2> QED  BY <1>1, <1>2, LoopRuns
<1>4. ASSUME NEW i \in 0 .. n PROVE f[i] = KeptAfter(S, f, i)
  <2>1. f[i] = IF i = 0 THEN <<>> ELSE body[i][f[i - 1]]
    BY <1>3 DEF IsLoop
  <2>2. i # 0 => i \in 1 .. n /\ i - 1 \in 0 .. n /\ f[i - 1] \in A
    BY <1>1
  <2>3. i # 0 => body[i][f[i - 1]] = IF order[i] \in S THEN Append(f[i - 1], order[i]) ELSE f[i - 1]
    BY <2>2
  <2> QED  BY <2>1, <2>3 DEF KeptAfter
<1>5. IsKept(S, f)
  BY <1>3, <1>4 DEF IsKept, IsLoop, n
<1>6. InOrder(S) = (CHOOSE g : IsKept(S, g))[Len(order)]
  BY DEF InOrder, IsKept, KeptAfter
<1> QED  BY <1>5, <1>6

\* It is those nodes, each once.
LEMMA InOrderIs ==
  ASSUME WellBuilt, NEW S
  PROVE  InOrder(S) \in Seq(Ids) /\ Once(InOrder(S)) /\ Elements(InOrder(S)) = S \cap Nodes
PROOF
<1>1. PICK f : IsKept(S, f) /\ InOrder(S) = f[Len(order)]
  BY KeptRuns
<1> DEFINE n == Len(order)
           Upto(k) == {order[i] : i \in 1 .. k}
           At(k) == {s \in Seq(Ids) : Once(s) /\ Elements(s) = S \cap Upto(k)}
           T == [k \in 0 .. n |-> At(k)]
<1>2. /\ n \in Nat /\ DOMAIN order = 1 .. n /\ \A i \in 1 .. n : order[i] \in Ids
      /\ \A i, j \in 1 .. n : order[i] = order[j] => i = j
  BY Shape DEF WellBuilt, Once
<1>3. f[0] \in T[0]
  <2>1. f[0] = <<>>
    BY <1>1, <1>2 DEF IsKept, KeptAfter
  <2>2. <<>> \in Seq(Ids) /\ Upto(0) = {}
    OBVIOUS
  <2>3. <<>> \in At(0)
    BY <2>2, EmptyElements
  <2> HIDE DEF At
  <2> QED  BY <1>2, <2>1, <2>3
<1>4. ASSUME NEW k \in 1 .. n, f[k - 1] \in T[k - 1] PROVE f[k] \in T[k]
  <2>1. k - 1 \in 0 .. n /\ k \in 0 .. n /\ order[k] \in Ids
    BY <1>2
  <2>2. f[k - 1] \in Seq(Ids) /\ Once(f[k - 1]) /\ Elements(f[k - 1]) = S \cap Upto(k - 1)
    BY <1>4, <2>1
  <2>3. f[k] = IF order[k] \in S THEN Append(f[k - 1], order[k]) ELSE f[k - 1]
    <3>1. f[k] = KeptAfter(S, f, k)
      BY <1>1, <2>1 DEF IsKept
    <3> QED  BY <3>1, <2>1 DEF KeptAfter
  <2>4. order[k] \notin Upto(k - 1)
    BY <1>2
  <2>5. Upto(k) = Upto(k - 1) \cup {order[k]}
    BY <1>2
  <2> HIDE DEF Upto
  <2>6. f[k] \in Seq(Ids) /\ Once(f[k]) /\ Elements(f[k]) = S \cap Upto(k)
    <3>1. CASE order[k] \in S
      <4>1. f[k] = Append(f[k - 1], order[k])
        BY <2>3, <3>1
      <4> QED  BY <2>1, <2>2, <2>4, <2>5, <3>1, <4>1, AppendOnce
    <3>2. CASE order[k] \notin S
      BY <2>2, <2>3, <2>5, <3>2
    <3> QED  BY <3>1, <3>2
  <2>7. f[k] \in At(k)
    BY <2>6
  <2> HIDE DEF At
  <2> QED  BY <2>1, <2>7
<1>5. Upto(n) = Nodes
  BY <1>2 DEF Nodes, Elements
<1> HIDE DEF T, Upto, At, n
<1>6. f[n] \in T[n]
  BY <1>2, <1>3, <1>4, LoopKeeps
<1> QED  BY <1>1, <1>2, <1>5, <1>6 DEF T, At, n

\* The first of some nodes in insertion order is one of them.
LEMMA FirstIs ==
  ASSUME WellBuilt, NEW S, InOrder(S) # <<>>
  PROVE  Len(InOrder(S)) \in Nat \ {0} /\ InOrder(S)[1] \in S \cap Nodes
PROOF
<1>1. InOrder(S) \in Seq(Ids) /\ Elements(InOrder(S)) = S \cap Nodes
  BY InOrderIs
<1>2. Len(InOrder(S)) \in Nat \ {0}
  BY <1>1, EmptySeq
<1> QED  BY <1>1, <1>2 DEF Elements

LEMMA NoneIs == ASSUME WellBuilt, NEW S PROVE InOrder(S) = <<>> <=> S \cap Nodes = {}
PROOF BY InOrderIs, FirstIs, EmptyElements

\* One node in order is one node.
LEMMA SoleIs ==
  ASSUME WellBuilt, NEW S
  PROVE  Len(InOrder(S)) = 1 <=> \E x : S \cap Nodes = {x}
PROOF
<1>1. InOrder(S) \in Seq(Ids) /\ Once(InOrder(S)) /\ Elements(InOrder(S)) = S \cap Nodes
  BY InOrderIs
<1>2. IsFiniteSet(S \cap Nodes) /\ Cardinality(S \cap Nodes) = Len(InOrder(S))
  BY <1>1, OnceCardinality
<1> QED  BY <1>2, FS_Singleton

\* A sequence without its last element.
LEMMA FrontIs ==
  ASSUME NEW S, NEW s \in Seq(S), s # <<>>
  PROVE  /\ Len(s) \in Nat \ {0} /\ s[Len(s)] \in S
         /\ Front(s) \in Seq(S) /\ Len(Front(s)) = Len(s) - 1 /\ (\A i \in 1 .. Len(s) - 1 : Front(s)[i] = s[i])
         /\ Elements(s) = Elements(Front(s)) \cup {s[Len(s)]}
         /\ Once(s) => Once(Front(s)) /\ s[Len(s)] \notin Elements(Front(s))
PROOF
<1>1. Len(s) \in Nat \ {0} /\ DOMAIN s = 1 .. Len(s)
  BY EmptySeq
<1>2. s[Len(s)] \in S /\ \A i \in 1 .. Len(s) : s[i] \in S
  BY <1>1
<1>3. /\ Front(s) \in Seq(S) /\ Len(Front(s)) = Len(s) - 1 /\ DOMAIN Front(s) = 1 .. Len(s) - 1
      /\ \A i \in 1 .. Len(s) - 1 : Front(s)[i] = s[i]
  BY <1>1, <1>2 DEF Front
<1>4. Elements(s) = Elements(Front(s)) \cup {s[Len(s)]}
  BY <1>1, <1>3 DEF Elements
<1>5. Once(s) => Once(Front(s)) /\ s[Len(s)] \notin Elements(Front(s))
  BY <1>1, <1>3 DEF Once, Elements
<1> QED  BY <1>1, <1>2, <1>3, <1>4, <1>5

\* One sequence after another.
LEMMA ConcatElements ==
  ASSUME NEW S, NEW s \in Seq(S), NEW t \in Seq(S)
  PROVE  /\ s \o t \in Seq(S) /\ Elements(s \o t) = Elements(s) \cup Elements(t)
         /\ Once(s) /\ Once(t) /\ Elements(s) \cap Elements(t) = {} => Once(s \o t)
PROOF
<1>1. /\ s \o t \in Seq(S) /\ Len(s \o t) = Len(s) + Len(t) /\ Len(s) \in Nat /\ Len(t) \in Nat
      /\ \A i \in 1 .. Len(s) + Len(t) : (s \o t)[i] = IF i <= Len(s) THEN s[i] ELSE t[i - Len(s)]
  BY ConcatProperties
<1> DEFINE u == s \o t
<1> HIDE DEF u
<1>2. u \in Seq(S) /\ Len(u) = Len(s) + Len(t) /\ DOMAIN u = 1 .. Len(s) + Len(t)
  BY <1>1 DEF u
<1>3. \A i \in DOMAIN s : i \in DOMAIN u /\ u[i] = s[i]
  BY <1>1, <1>2 DEF u
<1>4. \A j \in DOMAIN t : Len(s) + j \in DOMAIN u /\ u[Len(s) + j] = t[j]
  BY <1>1, <1>2 DEF u
<1>5. \A i \in DOMAIN u : (i \in DOMAIN s /\ u[i] = s[i]) \/ (i - Len(s) \in DOMAIN t /\ u[i] = t[i - Len(s)])
  BY <1>1, <1>2 DEF u
<1>6. Elements(u) = Elements(s) \cup Elements(t)
  BY <1>3, <1>4, <1>5 DEF Elements
<1>7. ASSUME Once(s), Once(t), Elements(s) \cap Elements(t) = {} PROVE Once(u)
  <2>1. \A i \in DOMAIN s, j \in DOMAIN t : s[i] # t[j]
    BY <1>7 DEF Elements
  <2> SUFFICES ASSUME NEW i \in DOMAIN u, NEW j \in DOMAIN u, u[i] = u[j] PROVE i = j
    BY DEF Once
  <2>2. CASE i \in DOMAIN s /\ u[i] = s[i]
    BY <1>5, <1>7, <2>1, <2>2 DEF Once
  <2>3. CASE i - Len(s) \in DOMAIN t /\ u[i] = t[i - Len(s)]
    <3>1. j - Len(s) \in DOMAIN t /\ u[j] = t[j - Len(s)]
      BY <1>5, <2>1, <2>3
    <3>2. i - Len(s) = j - Len(s)
      BY <1>7, <2>3, <3>1 DEF Once
    <3> QED  BY <1>1, <1>2, <3>2
  <2> QED  BY <1>5, <2>2, <2>3
<1> QED  BY <1>2, <1>6, <1>7 DEF u

(***************************************************************************)
(* closure: what has been popped and what is on the stack is reached, and  *)
(* holds all dependencies of what has been popped.                         *)
(***************************************************************************)
\* What k nodes can push, kept as one number.
Room(k) == k * Len(order)
Stacks == [stack : Seq(Nodes), out : SUBSET Nodes]
Pending(id, n, c) ==
  /\ \A x \in {id} \cup c.out : Elements(deps[x]) \subseteq c.out \cup Elements(c.stack)
  /\ c.out \cup Elements(c.stack) \subseteq Reach(id)
  /\ c.stack = <<>> \/ n + Len(c.stack) <= Len(order) + Room(Cardinality(c.out))

LEMMA RoomIs ==
  ASSUME Len(order) \in Nat, NEW a \in Nat
  PROVE  /\ Room(a) \in Nat /\ Room(a + 1) = Room(a) + Len(order) /\ Room(Len(order)) = Len(order) * Len(order)
         /\ \A b \in Nat : a <= b => Room(a) <= Room(b)
PROOF BY DEF Room

\* A pop keeps the account of what is still to be popped.
LEMMA PopKeeps ==
  ASSUME WellBuilt, NEW c \in Stacks
  PROVE  /\ pop(c) \in Stacks
         /\ \A id \in Ids, n \in Nat : Pending(id, n, c) => Pending(id, n + 1, pop(c))
PROOF
<1>1. /\ c = [stack |-> c.stack, out |-> c.out] /\ c.stack \in Seq(Nodes) /\ c.out \in SUBSET Nodes
      /\ Len(order) \in Nat /\ Nodes \subseteq Ids /\ IsFiniteSet(Nodes)
  BY Shape DEF Stacks
<1>2. CASE c.stack = <<>>
  <2>1. pop(c) = c
    BY <1>2 DEF pop
  <2> QED  BY <1>2, <2>1 DEF Pending
<1>3. CASE c.stack # <<>>
  <2> DEFINE cur == c.stack[Len(c.stack)]
             rest == Front(c.stack)
             N == Len(order)
  <2>1. /\ Len(c.stack) \in Nat \ {0} /\ cur \in Nodes /\ rest \in Seq(Nodes) /\ Len(rest) = Len(c.stack) - 1
        /\ Elements(c.stack) = Elements(rest) \cup {cur}
    BY <1>1, <1>3, FrontIs
  <2>2. /\ deps[cur] \in Seq(Nodes) /\ Len(deps[cur]) \in Nat /\ Len(deps[cur]) <= N
    <3>1. /\ deps[cur] \in Seq(Ids) /\ Len(deps[cur]) \in Nat /\ Len(deps[cur]) <= N
          /\ Elements(deps[cur]) \subseteq Nodes
      BY <1>1, <2>1, Shape
    <3> QED  BY <3>1 DEF Elements
  <2>3. IsFiniteSet(c.out) /\ Cardinality(c.out) \in Nat
    BY <1>1, FS_Subset, FS_CardinalityType
  <2> HIDE DEF cur, rest, N
  <2>4. CASE cur \in c.out
    <3>0. pop(c) = [stack |-> rest, out |-> c.out]
      BY <1>1, <1>3, <2>4 DEF pop, cur, rest
    <3>1. PICK p : p = [stack |-> rest, out |-> c.out] /\ pop(c) = p /\ p.stack = rest /\ p.out = c.out
      BY <3>0
    <3>2. ASSUME NEW id \in Ids, NEW n \in Nat, Pending(id, n, c) PROVE Pending(id, n + 1, pop(c))
      <4>1. /\ \A x \in {id} \cup c.out : Elements(deps[x]) \subseteq c.out \cup Elements(c.stack)
            /\ c.out \cup Elements(c.stack) \subseteq Reach(id)
            /\ n + Len(c.stack) <= N + Room(Cardinality(c.out))
        BY <1>3, <3>2 DEF Pending, N
      <4>2. n + 1 + Len(rest) <= N + Room(Cardinality(c.out))
        BY <1>1, <2>1, <2>3, <4>1, RoomIs DEF N
      <4>3. c.out \cup Elements(rest) = c.out \cup Elements(c.stack)
        BY <2>1, <2>4
      <4> QED  BY <1>1, <2>1, <3>1, <4>1, <4>2, <4>3 DEF Pending, N
    <3> QED  BY <1>1, <2>1, <3>1, <3>2 DEF Stacks
  <2>5. CASE cur \notin c.out
    <3> DEFINE on == rest \o deps[cur]
    <3>0. pop(c) = [stack |-> on, out |-> c.out \cup {cur}]
      BY <1>1, <1>3, <2>5 DEF pop, cur, rest
    <3>6. PICK p : p = [stack |-> on, out |-> c.out \cup {cur}]
      OBVIOUS
    <3>7. p.stack = on /\ p.out = c.out \cup {cur}
      BY <3>6
    <3>1. p = [stack |-> on, out |-> c.out \cup {cur}] /\ pop(c) = p /\ p.stack = on /\ p.out = c.out \cup {cur}
      BY <3>0, <3>6, <3>7, Zenon
    <3>2. /\ on \in Seq(Nodes) /\ Elements(on) = Elements(rest) \cup Elements(deps[cur])
          /\ Len(on) = Len(rest) + Len(deps[cur])
      <4>1. on \in Seq(Nodes) /\ Elements(on) = Elements(rest) \cup Elements(deps[cur])
        BY <2>1, <2>2, ConcatElements
      <4>2. Len(on) = Len(rest) + Len(deps[cur])
        BY <2>1, <2>2, ConcatProperties
      <4> QED  BY <4>1, <4>2
    <3>3. Cardinality(c.out \cup {cur}) = Cardinality(c.out) + 1
      BY <2>3, <2>5, FS_AddElement
    <3> HIDE DEF on
    <3>4. ASSUME NEW id \in Ids, NEW n \in Nat, Pending(id, n, c) PROVE Pending(id, n + 1, pop(c))
      <4>1. /\ \A x \in {id} \cup c.out : Elements(deps[x]) \subseteq c.out \cup Elements(c.stack)
            /\ c.out \cup Elements(c.stack) \subseteq Reach(id)
            /\ n + Len(c.stack) <= N + Room(Cardinality(c.out))
        BY <1>3, <3>4 DEF Pending, N
      <4>2. n + 1 + Len(on) <= N + Room(Cardinality(c.out \cup {cur}))
        <5>1. Room(Cardinality(c.out) + 1) = Room(Cardinality(c.out)) + N /\ Room(Cardinality(c.out)) \in Nat /\ N \in Nat
          BY <1>1, <2>3, RoomIs DEF N
        <5>2. PICK m \in Nat : m = Room(Cardinality(c.out)) /\ Room(Cardinality(c.out \cup {cur})) = m + N
          BY <3>3, <5>1
        <5>3. n + 1 + Len(on) = n + Len(c.stack) + Len(deps[cur])
          <6>1. PICK a \in Nat, b \in Nat : a = Len(c.stack) /\ b = Len(deps[cur]) /\ Len(on) = a - 1 + b /\ a # 0
            BY <2>1, <2>2, <3>2
          <6>2. n + 1 + (a - 1 + b) = n + a + b
            OBVIOUS
          <6> QED  BY <6>1, <6>2, Zenon
        <5>4. PICK a \in Nat : a = n + Len(c.stack) /\ a <= N + m
          BY <2>1, <4>1, <5>2
        <5>5. PICK b \in Nat : b = Len(deps[cur]) /\ b <= N
          BY <2>2, <5>1
        <5>6. a + b <= N + (m + N)
          <6>1. PICK l \in Nat : l = N
            BY <5>1
          <6>2. a <= l + m /\ b <= l
            BY <5>4, <5>5, <6>1
          <6>3. a + b <= l + (m + l)
            BY <5>2, <6>2
          <6> QED  BY <6>1, <6>3
        <5>7. n + 1 + Len(on) = a + b
          BY <5>3, <5>4, <5>5
        <5> QED  BY <5>2, <5>6, <5>7
      <4>3. \A x \in {id} \cup (c.out \cup {cur}) : Elements(deps[x]) \subseteq (c.out \cup {cur}) \cup Elements(on)
        BY <2>1, <3>2, <4>1
      <4>4. (c.out \cup {cur}) \cup Elements(on) \subseteq Reach(id)
        <5>1. Closed(Reach(id)) /\ cur \in Reach(id)
          BY <2>1, <4>1, ReachHolds
        <5> QED  BY <2>1, <3>2, <4>1, <5>1 DEF Closed
      <4> QED  BY <1>1, <2>1, <3>1, <3>2, <4>2, <4>3, <4>4 DEF Pending, N
    <3>5. p \in Stacks
      BY <1>1, <2>1, <3>1, <3>2 DEF Stacks
    <3> QED  BY <3>1, <3>4, <3>5
  <2> QED  BY <2>4, <2>5
<1> QED  BY <1>2, <1>3

IsPopping(id, f) ==
  f = [n \in 0 .. MaxTurns |-> IF n = 0 THEN [stack |-> deps[id], out |-> {}] ELSE pop(f[n - 1])]

\* The loop of closure is a function.
LEMMA PoppingRuns ==
  ASSUME WellBuilt, NEW id \in Nodes
  PROVE  \E f : IsPopping(id, f) /\ closure(id) = f[MaxTurns].out
PROOF
<1> DEFINE s == [stack |-> deps[id], out |-> {}]
           body == [k \in 1 .. MaxTurns |-> [c \in Stacks |-> pop(c)]]
<1>1. MaxTurns \in Nat /\ s \in Stacks
  <2>1. deps[id] \in Seq(Ids) /\ Elements(deps[id]) \subseteq Nodes /\ MaxTurns \in Nat
    BY Shape
  <2>2. deps[id] \in Seq(Nodes)
    BY <2>1 DEF Elements
  <2> QED  BY <2>1, <2>2 DEF Stacks
<1>2. body \in [1 .. MaxTurns -> [Stacks -> Stacks]]
  BY PopKeeps
<1> HIDE DEF s
<1>3. PICK f \in [0 .. MaxTurns -> Stacks] : IsLoop(f, MaxTurns, s, body)
  <2> HIDE DEF body
  <2> QED  BY <1>1, <1>2, LoopRuns
<1>4. ASSUME NEW n \in 0 .. MaxTurns PROVE f[n] = IF n = 0 THEN s ELSE pop(f[n - 1])
  <2>1. f[n] = IF n = 0 THEN s ELSE body[n][f[n - 1]]
    BY <1>3 DEF IsLoop
  <2>2. n # 0 => n \in 1 .. MaxTurns /\ f[n - 1] \in Stacks
    BY <1>1
  <2> QED  BY <2>1, <2>2
<1>5. IsPopping(id, f)
  BY <1>3, <1>4 DEF IsPopping, IsLoop, s
<1>6. closure(id) = (CHOOSE g : IsPopping(id, g))[MaxTurns].out
  BY DEF closure, IsPopping
<1> QED  BY <1>5, <1>6

\* The loop of closure ends with what the node reaches.
LEMMA ClosureIsReach == ASSUME WellBuilt, NEW id \in Nodes PROVE closure(id) = Reach(id)
PROOF
<1>1. PICK f : IsPopping(id, f) /\ closure(id) = f[MaxTurns].out
  BY PoppingRuns
<1> DEFINE M == MaxTurns
           N == Len(order)
           T == [n \in 0 .. M |-> {c \in Stacks : Pending(id, n, c)}]
<1>2. M \in Nat /\ M = N * N + 2 * N /\ N \in Nat /\ id \in Ids /\ IsFiniteSet(Nodes) /\ Cardinality(Nodes) = N
  BY Shape
<1>3. f[0] \in T[0]
  <2>1. /\ deps[id] \in Seq(Ids) /\ Elements(deps[id]) \subseteq Nodes /\ Len(deps[id]) <= N
        /\ Elements(deps[id]) \subseteq Reach(id)
    BY <1>2, Shape, ReachHolds
  <2>2. deps[id] \in Seq(Nodes)
    BY <2>1 DEF Elements
  <2>3. PICK c : c = [stack |-> deps[id], out |-> {}] /\ f[0] = c /\ c.stack = deps[id] /\ c.out = {}
    BY <1>1, <1>2 DEF IsPopping
  <2>4. Cardinality(c.out) = 0 /\ Room(0) \in Nat /\ 0 + Len(c.stack) <= N + Room(0)
    <3>1. Cardinality(c.out) = 0
      BY <2>3, FS_EmptySet
    <3>2. Room(0) \in Nat
      BY <1>2, RoomIs
    <3> QED  BY <1>2, <2>1, <2>3, <3>1, <3>2, Shape
  <2>5. Pending(id, 0, c)
    BY <2>1, <2>3, <2>4 DEF Pending
  <2> QED  BY <1>2, <2>2, <2>3, <2>5 DEF Stacks
<1>4. ASSUME NEW n \in 1 .. M, f[n - 1] \in T[n - 1] PROVE f[n] \in T[n]
  <2>1. n - 1 \in 0 .. M /\ n \in 0 .. M /\ n - 1 \in Nat /\ n - 1 + 1 = n
    BY <1>2
  <2>2. f[n - 1] \in Stacks /\ Pending(id, n - 1, f[n - 1])
    BY <1>4, <2>1
  <2>3. f[n] = pop(f[n - 1])
    <3>1. f[n] = IF n = 0 THEN [stack |-> deps[id], out |-> {}] ELSE pop(f[n - 1])
      BY <1>1, <2>1 DEF IsPopping
    <3> QED  BY <3>1
  <2>4. f[n] \in Stacks /\ Pending(id, n, f[n])
    BY <1>2, <2>1, <2>2, <2>3, PopKeeps
  <2> QED  BY <2>1, <2>4
<1> HIDE DEF T, M, N
<1>5. f[M] \in T[M]
  BY <1>2, <1>3, <1>4, LoopKeeps
<1>6. PICK c : c = f[M] /\ c \in Stacks /\ Pending(id, M, c) /\ closure(id) = c.out
  BY <1>1, <1>2, <1>5 DEF T, M
<1>7. c.stack = <<>>
  <2> SUFFICES ASSUME c.stack # <<>> PROVE FALSE
    OBVIOUS
  <2>1. c.out \in SUBSET Nodes /\ c.stack \in Seq(Nodes) /\ M + Len(c.stack) <= N + Room(Cardinality(c.out))
    BY <1>6 DEF Pending, Stacks, N
  <2>2. Cardinality(c.out) \in Nat /\ Cardinality(c.out) <= N
    BY <1>2, <2>1, FS_Subset, FS_CardinalityType
  <2>3. Room(Cardinality(c.out)) <= Room(N) /\ Room(Cardinality(c.out)) \in Nat /\ M = Room(N) + 2 * N /\ Room(N) \in Nat
    BY <1>2, <2>2, RoomIs DEF N
  <2>4. Len(c.stack) \in Nat \ {0}
    BY <2>1, EmptySeq
  <2>5. N \in Nat
    BY <1>2
  <2>6. PICK a \in Nat, b \in Nat : a = Room(Cardinality(c.out)) /\ b = Room(N) /\ a <= b /\ M = b + 2 * N
    BY <2>3
  <2> QED  BY <2>1, <2>4, <2>5, <2>6
<1>8. /\ c.out \subseteq Nodes /\ Elements(deps[id]) \subseteq c.out /\ Closed(c.out) /\ c.out \subseteq Reach(id)
  BY <1>6, <1>7, EmptyElements DEF Pending, Closed, Stacks
<1>9. Reach(id) \subseteq c.out
  BY <1>8, ReachLeast
<1> QED  BY <1>6, <1>8, <1>9

(***************************************************************************)
(* frontiers: what every pass keeps, and that the last one finds nothing.  *)
(***************************************************************************)
Layered == [layers : Seq(Seq(Ids)), undrained : SUBSET Nodes]
Drains(f) == {x \in f.undrained : indeg(x, Nodes \ f.undrained) = 0}
In(f, k, x) == x \in Elements(f.layers[k])

Layering(f) ==
  LET K == DOMAIN f.layers IN
  /\ \A k \in K : f.layers[k] = InOrder(Elements(f.layers[k]))
  /\ \A x \in Nodes : x \notin f.undrained <=> \E k \in K : In(f, k, x)
  /\ \A k \in K, l \in K, x \in Nodes : In(f, k, x) /\ In(f, l, x) => k = l
  /\ \A k \in K, x \in Nodes : In(f, k, x) =>
       /\ \A d \in Elements(deps[x]) : \E l \in K : l < k /\ In(f, l, d)
       /\ k > 1 => \E d \in Elements(deps[x]) : In(f, k - 1, d)
  /\ \A x \in f.undrained : K # {} =>
       \E d \in Elements(deps[x]) : d \in f.undrained \/ In(f, Len(f.layers), d)
Counted(n, f) == Drains(f) = {} \/ n + Cardinality(f.undrained) <= Len(order)

\* The in-degree is 0 when no dependency is undrained.
LEMMA IndegZero ==
  ASSUME WellBuilt, NEW x \in Nodes, NEW D \in SUBSET Nodes
  PROVE  indeg(x, D) = 0 <=> Elements(deps[x]) \subseteq D
PROOF
<1> DEFINE E == Elements(deps[x])
           C == {d \in D : x \in Elements(rdeps[d])}
<1>1. x \in Ids /\ Nodes \subseteq Ids /\ deps[x] \in Seq(Ids) /\ Once(deps[x]) /\ E \subseteq Nodes /\ Len(deps[x]) \in Nat
  BY Shape
<1>2. C = D \cap E
  BY <1>1 DEF WellBuilt, EdgesMirror
<1>3. IsFiniteSet(E) /\ Cardinality(E) = Len(deps[x])
  BY <1>1, OnceCardinality
<1>4. indeg(x, D) = Cardinality(E) - Cardinality(C)
  BY <1>3 DEF indeg
<1>5. IsFiniteSet(C) /\ Cardinality(C) \in Nat /\ (Cardinality(C) = Cardinality(E) => C = E)
  BY <1>2, <1>3, FS_Subset, FS_CardinalityType
<1> HIDE DEF C, E
<1>6. indeg(x, D) = 0 <=> C = E
  BY <1>1, <1>3, <1>4, <1>5
<1> QED  BY <1>2, <1>6 DEF E

\* A pass drains what has no dependency undrained, or changes nothing.
LEMMA PassIs ==
  ASSUME WellBuilt, NEW f \in Layered
  PROVE  \E layer \in Seq(Ids), p \in Layered :
           /\ pass(f) = p /\ layer = InOrder(Elements(layer)) /\ Elements(layer) = Drains(f)
           /\ Drains(f) = {} => p = f
           /\ Drains(f) # {} => p.layers = Append(f.layers, layer) /\ p.undrained = f.undrained \ Drains(f)
PROOF
<1>1. f = [layers |-> f.layers, undrained |-> f.undrained] /\ f.layers \in Seq(Seq(Ids)) /\ f.undrained \subseteq Nodes
  BY DEF Layered
<1>2. Drains(f) \subseteq Nodes
  BY <1>1 DEF Drains
<1>3. PICK layer : layer = InOrder(Drains(f))
  OBVIOUS
<1>4. layer \in Seq(Ids) /\ Elements(layer) = Drains(f)
  BY <1>2, <1>3, InOrderIs
<1>5. layer = <<>> <=> Drains(f) = {}
  BY <1>2, <1>3, NoneIs
<1>6. pass(f) = Drained(f, layer)
  BY <1>3 DEF pass, Drains
<1>7. CASE Drains(f) = {}
  <2>1. f.undrained \ Elements(layer) = f.undrained
    BY <1>4, <1>7
  <2>2. pass(f) = f
    BY <1>1, <1>5, <1>6, <1>7, <2>1 DEF Drained
  <2> QED  BY <1>3, <1>4, <1>7, <2>2
<1>8. CASE Drains(f) # {}
  <2>1. pass(f) = [layers |-> Append(f.layers, layer), undrained |-> f.undrained \ Drains(f)]
    BY <1>4, <1>5, <1>6, <1>8 DEF Drained
  <2>2. pass(f) \in Layered
    BY <1>1, <1>4, <2>1 DEF Layered
  <2> QED  BY <1>3, <1>4, <1>8, <2>1, <2>2
<1> QED  BY <1>7, <1>8

\* A pass keeps the layers as they should be.
LEMMA PassKeeps ==
  ASSUME WellBuilt, NEW f \in Layered, Layering(f)
  PROVE  Layering(pass(f))
PROOF
<1>1. PICK layer \in Seq(Ids), p \in Layered :
        /\ pass(f) = p /\ layer = InOrder(Elements(layer)) /\ Elements(layer) = Drains(f)
        /\ Drains(f) = {} => p = f
        /\ Drains(f) # {} => p.layers = Append(f.layers, layer) /\ p.undrained = f.undrained \ Drains(f)
  BY PassIs
<1> SUFFICES ASSUME Drains(f) # {} PROVE Layering(p)
  BY <1>1
<1> DEFINE m == Len(f.layers)
           R == Drains(f)
           K == DOMAIN f.layers
           L == DOMAIN p.layers
<1>2. /\ m \in Nat /\ K = 1 .. m /\ L = 1 .. m + 1 /\ Len(p.layers) = m + 1
      /\ (\A k \in K : p.layers[k] = f.layers[k]) /\ p.layers[m + 1] = layer
  <2>1. f.layers \in Seq(Seq(Ids)) /\ p.layers = Append(f.layers, layer)
    BY <1>1 DEF Layered
  <2>2. PICK s : s = Seq(Ids) /\ f.layers \in Seq(s) /\ layer \in s
    BY <2>1
  <2> QED  BY <2>1, <2>2, AppendProperties, LenProperties
<1>3. /\ R \subseteq f.undrained /\ f.undrained \subseteq Nodes /\ p.undrained = f.undrained \ R
      /\ \A x \in f.undrained : x \in R <=> Elements(deps[x]) \subseteq Nodes \ f.undrained
  BY <1>1, IndegZero DEF Layered, Drains
<1>4. \A x \in Nodes : Elements(deps[x]) \subseteq Nodes
  BY Shape
<1>5. /\ \A k \in K : \A x : In(p, k, x) <=> In(f, k, x)
      /\ \A x : In(p, m + 1, x) <=> x \in R
  BY <1>1, <1>2 DEF In
<1> HIDE DEF R, m
<1>6. \A k \in L : p.layers[k] = InOrder(Elements(p.layers[k]))
  BY <1>1, <1>2 DEF Layering
<1>7. /\ \A x \in Nodes : x \notin f.undrained <=> \E k \in K : In(f, k, x)
      /\ \A k \in K, l \in K, x \in Nodes : In(f, k, x) /\ In(f, l, x) => k = l
      /\ \A k \in K, x \in Nodes : In(f, k, x) =>
           /\ \A d \in Elements(deps[x]) : \E l \in K : l < k /\ In(f, l, d)
           /\ k > 1 => \E d \in Elements(deps[x]) : In(f, k - 1, d)
      /\ \A x \in f.undrained : K # {} =>
           \E d \in Elements(deps[x]) : d \in f.undrained \/ In(f, m, d)
  BY DEF Layering, m
<1> HIDE DEF K, L
<1>8. K = 1 .. m /\ L = 1 .. m + 1 /\ K \subseteq L /\ m \in Nat
  BY <1>2
<1>9. ASSUME NEW x \in Nodes PROVE x \notin p.undrained <=> \E k \in L : In(p, k, x)
  <2>1. x \notin p.undrained <=> x \notin f.undrained \/ x \in R
    BY <1>3
  <2>2. (\E k \in L : In(p, k, x)) <=> (\E k \in K : In(f, k, x)) \/ x \in R
    BY <1>5, <1>8
  <2> QED  BY <1>7, <2>1, <2>2
<1>10. ASSUME NEW k \in L, NEW l \in L, NEW x \in Nodes, In(p, k, x), In(p, l, x) PROVE k = l
  <2>1. ~(x \in R /\ \E j \in K : In(f, j, x))
    BY <1>3, <1>7
  <2> QED  BY <1>5, <1>7, <1>8, <1>10, <2>1
<1>11. ASSUME NEW k \in L, NEW x \in Nodes, In(p, k, x)
       PROVE  /\ \A d \in Elements(deps[x]) : \E l \in L : l < k /\ In(p, l, d)
              /\ k > 1 => \E d \in Elements(deps[x]) : In(p, k - 1, d)
  <2>1. CASE k \in K
    <3>1. In(f, k, x)
      BY <1>5, <1>11, <2>1
    <3>2. \A d \in Elements(deps[x]) : \E l \in K : l < k /\ In(f, l, d)
      BY <1>7, <2>1, <3>1
    <3>3. k > 1 => k - 1 \in K /\ \E d \in Elements(deps[x]) : In(f, k - 1, d)
      BY <1>7, <1>8, <2>1, <3>1
    <3> QED  BY <1>5, <1>8, <3>2, <3>3
  <2>2. CASE k = m + 1
    <3>1. x \in R /\ x \in f.undrained /\ Elements(deps[x]) \subseteq Nodes \ f.undrained
      BY <1>3, <1>5, <1>11, <2>2
    <3>2. \A d \in Elements(deps[x]) : \E l \in K : In(f, l, d)
      BY <1>7, <3>1
    <3>3. \A d \in Elements(deps[x]) : \E l \in L : l < k /\ In(p, l, d)
      BY <1>5, <1>8, <2>2, <3>2
    <3>4. ASSUME k > 1 PROVE \E d \in Elements(deps[x]) : In(p, k - 1, d)
      <4>1. k - 1 = m /\ m \in K
        BY <1>8, <2>2, <3>4
      <4>2. PICK d \in Elements(deps[x]) : d \in f.undrained \/ In(f, m, d)
        BY <1>7, <3>1, <4>1
      <4> QED  BY <1>5, <3>1, <4>1, <4>2
    <3> QED  BY <3>3, <3>4
  <2> QED  BY <1>8, <2>1, <2>2
<1>12. ASSUME NEW x \in p.undrained PROVE \E d \in Elements(deps[x]) : d \in p.undrained \/ In(p, m + 1, d)
  <2>1. x \in f.undrained /\ x \notin R
    BY <1>3
  <2>2. PICK d \in Elements(deps[x]) : d \in f.undrained
    BY <1>3, <1>4, <2>1
  <2> QED  BY <1>3, <1>5, <2>2
<1> QED  BY <1>2, <1>6, <1>9, <1>10, <1>11, <1>12 DEF Layering, L

\* Every pass but the last drains a node.
LEMMA PassCounts ==
  ASSUME WellBuilt, NEW f \in Layered, NEW n \in Nat, Counted(n, f)
  PROVE  Counted(n + 1, pass(f))
PROOF
<1>1. PICK p \in Layered :
        /\ pass(f) = p
        /\ Drains(f) = {} => p = f
        /\ Drains(f) # {} => p.undrained = f.undrained \ Drains(f)
  BY PassIs
<1>2. CASE Drains(f) = {}
  BY <1>1, <1>2 DEF Counted
<1>3. CASE Drains(f) # {}
  <2>1. IsFiniteSet(f.undrained) /\ Cardinality(f.undrained) \in Nat
    BY Shape, FS_Subset, FS_CardinalityType DEF Layered
  <2>2. p.undrained \subseteq f.undrained /\ p.undrained # f.undrained
    BY <1>1, <1>3 DEF Drains
  <2>3. Cardinality(p.undrained) \in Nat /\ Cardinality(p.undrained) < Cardinality(f.undrained)
    BY <2>1, <2>2, FS_Subset, FS_CardinalityType
  <2>4. n + Cardinality(f.undrained) <= Len(order)
    BY <1>3 DEF Counted
  <2>5. n + 1 + Cardinality(p.undrained) <= Len(order)
    BY <2>1, <2>3, <2>4, Shape
  <2> QED  BY <1>1, <2>5 DEF Counted
<1> QED  BY <1>2, <1>3

IsDraining(f) ==
  f = [n \in 0 .. MaxTurns |-> IF n = 0 THEN [layers |-> <<>>, undrained |-> Nodes] ELSE pass(f[n - 1])]

\* The loop of frontiers is a function.
LEMMA DrainingRuns == ASSUME WellBuilt PROVE \E f : IsDraining(f) /\ frontiers = f[MaxTurns]
PROOF
<1> DEFINE s == [layers |-> <<>>, undrained |-> Nodes]
           body == [k \in 1 .. MaxTurns |-> [c \in Layered |-> pass(c)]]
<1>1. MaxTurns \in Nat /\ s \in Layered
  BY Shape DEF Layered
<1>2. body \in [1 .. MaxTurns -> [Layered -> Layered]]
  <2>1. \A c \in Layered : pass(c) \in Layered
    BY PassIs
  <2> QED  BY <2>1
<1> HIDE DEF s
<1>3. PICK f \in [0 .. MaxTurns -> Layered] : IsLoop(f, MaxTurns, s, body)
  <2> HIDE DEF body
  <2> QED  BY <1>1, <1>2, LoopRuns
<1>4. ASSUME NEW n \in 0 .. MaxTurns PROVE f[n] = IF n = 0 THEN s ELSE pass(f[n - 1])
  <2>1. f[n] = IF n = 0 THEN s ELSE body[n][f[n - 1]]
    BY <1>3 DEF IsLoop
  <2>2. n # 0 => n \in 1 .. MaxTurns /\ f[n - 1] \in Layered
    BY <1>1
  <2> QED  BY <2>1, <2>2
<1>5. IsDraining(f)
  BY <1>3, <1>4 DEF IsDraining, IsLoop, s
<1>6. frontiers = (CHOOSE g : IsDraining(g))[MaxTurns]
  BY DEF frontiers, IsDraining
<1> QED  BY <1>5, <1>6

\* The passes end with every node in its layer but those that wait for one
\* that does not drain.
LEMMA FrontiersAre ==
  ASSUME WellBuilt
  PROVE  frontiers \in Layered /\ Layering(frontiers) /\ Drains(frontiers) = {}
PROOF
<1>1. PICK f : IsDraining(f) /\ frontiers = f[MaxTurns]
  BY DrainingRuns
<1> DEFINE M == MaxTurns
           N == Len(order)
           T == [n \in 0 .. M |-> {c \in Layered : Layering(c) /\ Counted(n, c)}]
<1>2. M \in Nat /\ N \in Nat /\ IsFiniteSet(Nodes) /\ Cardinality(Nodes) = N
  BY Shape
<1>3. f[0] \in T[0]
  <2>0. PICK c : c = [layers |-> <<>>, undrained |-> Nodes]
    OBVIOUS
  <2>1. c = [layers |-> <<>>, undrained |-> Nodes] /\ c.layers = <<>> /\ c.undrained = Nodes
    BY <2>0
  <2>2. f[0] = c
    BY <1>1, <1>2, <2>1 DEF IsDraining
  <2>3. c \in Layered
    BY <2>1 DEF Layered
  <2>4. DOMAIN c.layers = {}
    BY <2>1
  <2>5. Layering(c)
    BY <2>1, <2>4 DEF Layering
  <2>6. Counted(0, c)
    BY <1>2, <2>1 DEF Counted
  <2> QED  BY <1>2, <2>2, <2>3, <2>5, <2>6
<1>4. ASSUME NEW n \in 1 .. M, f[n - 1] \in T[n - 1] PROVE f[n] \in T[n]
  <2>1. n - 1 \in 0 .. M /\ n \in 0 .. M /\ n - 1 \in Nat /\ n - 1 + 1 = n
    BY <1>2
  <2>2. f[n - 1] \in Layered /\ Layering(f[n - 1]) /\ Counted(n - 1, f[n - 1])
    BY <1>4, <2>1
  <2>3. f[n] = pass(f[n - 1])
    <3>1. f[n] = IF n = 0 THEN [layers |-> <<>>, undrained |-> Nodes] ELSE pass(f[n - 1])
      BY <1>1, <2>1 DEF IsDraining
    <3> QED  BY <3>1
  <2>4. f[n] \in Layered
    BY <2>2, <2>3, PassIs
  <2>5. Layering(f[n])
    BY <2>2, <2>3, PassKeeps
  <2>6. Counted(n, f[n])
    BY <2>1, <2>2, <2>3, PassCounts
  <2> QED  BY <2>1, <2>4, <2>5, <2>6
<1> HIDE DEF T, M, N
<1>5. f[M] \in T[M]
  BY <1>2, <1>3, <1>4, LoopKeeps
<1>6. PICK c : c = frontiers /\ c \in Layered /\ Layering(c) /\ Counted(M, c)
  BY <1>1, <1>2, <1>5 DEF T, M
<1>7. Drains(c) = {}
  <2> SUFFICES ASSUME Drains(c) # {} PROVE FALSE
    OBVIOUS
  <2>1. c.undrained \subseteq Nodes /\ c.undrained # {} /\ M + Cardinality(c.undrained) <= N
    BY <1>6 DEF Layered, Drains, Counted, N
  <2>2. IsFiniteSet(c.undrained) /\ Cardinality(c.undrained) \in Nat /\ Cardinality(c.undrained) # 0
    BY <1>2, <2>1, FS_Subset, FS_CardinalityType, FS_EmptySet
  <2>3. M >= N
    <3>1. PICK a \in Nat : a = N * N
      BY <1>2
    <3>2. M = a + 2 * N
      BY <3>1, Shape DEF M, N
    <3> QED  BY <1>2, <3>1, <3>2
  <2> QED  BY <1>2, <2>1, <2>2, <2>3
<1> QED  BY <1>6, <1>7

(***************************************************************************)
(* TopoSort: one layer after the other.                                    *)
(***************************************************************************)
IsFlat(layers, f) == f = [k \in 0 .. Len(layers) |-> IF k = 0 THEN <<>> ELSE f[k - 1] \o layers[k]]

\* The loop of Flat is a function.
LEMMA FlatRuns ==
  ASSUME NEW layers, Len(layers) \in Nat, \A k \in 1 .. Len(layers) : layers[k] \in Seq(Ids)
  PROVE  \E f : IsFlat(layers, f) /\ Flat(layers) = f[Len(layers)]
PROOF
<1> DEFINE n == Len(layers)
           A == Seq(Ids)
           body == [k \in 1 .. n |-> [s \in A |-> s \o layers[k]]]
<1>1. n \in Nat /\ <<>> \in A
  OBVIOUS
<1>2. body \in [1 .. n -> [A -> A]]
  <2>1. \A s \in A, k \in 1 .. n : s \o layers[k] \in A
    BY ConcatProperties
  <2> QED  BY <2>1
<1> HIDE DEF A
<1>3. PICK f \in [0 .. n -> A] : IsLoop(f, n, <<>>, body)
  <2> HIDE DEF body, n
  <2> QED  BY <1>1, <1>2, LoopRuns
<1>4. ASSUME NEW k \in 0 .. n PROVE f[k] = IF k = 0 THEN <<>> ELSE f[k - 1] \o layers[k]
  <2>1. f[k] = IF k = 0 THEN <<>> ELSE body[k][f[k - 1]]
    BY <1>3 DEF IsLoop
  <2>2. k # 0 => k \in 1 .. n /\ f[k - 1] \in A
    BY <1>1
  <2> QED  BY <2>1, <2>2
<1>5. IsFlat(layers, f)
  BY <1>3, <1>4 DEF IsFlat, IsLoop
<1>6. Flat(layers) = (CHOOSE g : IsFlat(layers, g))[Len(layers)]
  BY DEF Flat, IsFlat
<1> QED  BY <1>5, <1>6

\* Layers one after the other hold what the layers hold, once if they are apart.
LEMMA FlatIs ==
  ASSUME NEW layers, Len(layers) \in Nat, DOMAIN layers = 1 .. Len(layers),
         \A k \in DOMAIN layers : layers[k] \in Seq(Ids) /\ Once(layers[k]),
         \A k \in DOMAIN layers, l \in DOMAIN layers : k # l => Elements(layers[k]) \cap Elements(layers[l]) = {}
  PROVE  /\ Flat(layers) \in Seq(Ids) /\ Once(Flat(layers))
         /\ \A x : x \in Elements(Flat(layers)) <=> \E k \in DOMAIN layers : x \in Elements(layers[k])
PROOF
<1> DEFINE n == Len(layers)
           Upto(k) == UNION {Elements(layers[j]) : j \in 1 .. k}
           At(k) == {s \in Seq(Ids) : Once(s) /\ Elements(s) = Upto(k)}
           T == [k \in 0 .. n |-> At(k)]
<1>1. n \in Nat /\ DOMAIN layers = 1 .. n /\ \A k \in 1 .. n : layers[k] \in Seq(Ids) /\ Once(layers[k])
  OBVIOUS
<1>2. PICK f : IsFlat(layers, f) /\ Flat(layers) = f[n]
  BY <1>1, FlatRuns
<1>0. f = [k \in 0 .. n |-> IF k = 0 THEN <<>> ELSE f[k - 1] \o layers[k]]
  BY <1>2 DEF IsFlat
<1> HIDE DEF n
<1>3. f[0] \in T[0]
  <2>1. f[0] = <<>>
    BY <1>1, <1>0
  <2>2. Upto(0) = {}
    OBVIOUS
  <2>3. <<>> \in At(0)
    BY <2>2, EmptyElements
  <2> HIDE DEF At
  <2> QED  BY <1>1, <2>1, <2>3
<1>4. ASSUME NEW k \in 1 .. n, f[k - 1] \in T[k - 1] PROVE f[k] \in T[k]
  <2>1. k - 1 \in 0 .. n /\ k \in 0 .. n /\ layers[k] \in Seq(Ids) /\ Once(layers[k])
    BY <1>1
  <2>2. f[k - 1] \in Seq(Ids) /\ Once(f[k - 1]) /\ Elements(f[k - 1]) = Upto(k - 1)
    BY <1>4, <2>1
  <2>3. f[k] = f[k - 1] \o layers[k]
    <3>1. f[k] = IF k = 0 THEN <<>> ELSE f[k - 1] \o layers[k]
      BY <1>0, <2>1
    <3>2. k # 0
      BY <1>1
    <3> QED  BY <3>1, <3>2, Zenon
  <2>4. Upto(k) = Upto(k - 1) \cup Elements(layers[k])
    <3>1. 1 .. k = 1 .. k - 1 \cup {k}
      BY <1>1
    <3> QED  BY <3>1
  <2>5. Upto(k - 1) \cap Elements(layers[k]) = {}
    <3>1. \A j \in 1 .. k - 1 : j \in DOMAIN layers /\ k \in DOMAIN layers /\ j # k
      BY <1>1
    <3> QED  BY <3>1
  <2> HIDE DEF Upto
  <2>6. f[k] \in Seq(Ids) /\ Once(f[k]) /\ Elements(f[k]) = Upto(k)
    BY <2>1, <2>2, <2>3, <2>4, <2>5, ConcatElements
  <2>7. f[k] \in At(k)
    BY <2>6
  <2> HIDE DEF At
  <2> QED  BY <2>1, <2>7
<1> HIDE DEF T, At, Upto
<1>5. f[n] \in T[n]
  <2>1. n \in Nat /\ n \in 0 .. n
    BY <1>1
  <2>2. \A k \in 0 .. n : f[k] \in T[k]
    BY <1>3, <1>4, <2>1, LoopKeeps
  <2> QED  BY <2>1, <2>2
<1>6. Flat(layers) \in Seq(Ids) /\ Once(Flat(layers)) /\ Elements(Flat(layers)) = Upto(n)
  BY <1>1, <1>2, <1>5 DEF T, At
<1> QED  BY <1>1, <1>6 DEF Upto

(***************************************************************************)
(* Cycles: where every node of a set has a dependency in it, one is        *)
(* reached from each of them.                                              *)
(***************************************************************************)
LEMMA LeastOf == ASSUME NEW S \in SUBSET Nat, S # {} PROVE \E m \in S : \A n \in S : m <= n
PROOF
<1> SUFFICES ASSUME \A m \in S : \E n \in S : n < m PROVE FALSE
  OBVIOUS
<1> DEFINE Q == {n \in Nat : \A k \in 0 .. n : k \notin S}
<1>1. 0 \in Q
  OBVIOUS
<1>2. ASSUME NEW n \in Nat, n \in Q PROVE n + 1 \in Q
  <2>1. n + 1 \notin S
    BY <1>2
  <2> QED  BY <1>2, <2>1
<1> HIDE DEF Q
<1>3. Nat \subseteq Q
  BY <1>1, <1>2, SetInduction
<1>4. PICK m \in S : m \in Nat
  OBVIOUS
<1>5. m \in Q
  BY <1>3, <1>4
<1> QED  BY <1>4, <1>5 DEF Q

\* Of some nodes, one that reaches as few as any.
LEMMA ReachesFewest ==
  ASSUME WellBuilt, NEW R \in SUBSET Nodes, R # {}
  PROVE  \E y \in R : \A z \in R : ~(Reach(z) \subseteq Reach(y) /\ Reach(z) # Reach(y))
PROOF
<1> DEFINE size(y) == Cardinality(Reach(y))
<1>1. R \subseteq Ids /\ \A y \in R : IsFiniteSet(Reach(y)) /\ size(y) \in Nat
  BY Shape, ReachHolds, FS_Subset, FS_CardinalityType
<1>2. PICK y \in R : \A z \in R : size(y) <= size(z)
  <2> DEFINE sizes == {size(y) : y \in R}
  <2>1. sizes \in SUBSET Nat /\ sizes # {}
    BY <1>1
  <2> HIDE DEF sizes
  <2>2. PICK m \in sizes : \A n \in sizes : m <= n
    BY <2>1, LeastOf
  <2> QED  BY <2>2 DEF sizes
<1>3. ASSUME NEW z \in R, Reach(z) \subseteq Reach(y), Reach(z) # Reach(y) PROVE FALSE
  <2>1. size(z) < size(y)
    BY <1>1, <1>3, FS_Subset
  <2> QED  BY <1>1, <1>2, <2>1
<1> QED  BY <1>3

\* Nodes that each depend on one of them lead to a cycle.
LEMMA EndlessIsCyclic ==
  ASSUME WellBuilt, NEW U \in SUBSET Nodes, NEW x \in U, \A y \in U : \E d \in Elements(deps[y]) : d \in U
  PROVE  \E y \in Reach(x) \cup {x} : y \in Reach(y)
PROOF
<1> DEFINE R == (Reach(x) \cup {x}) \cap U
<1>1. R \in SUBSET Nodes /\ R # {} /\ Nodes \subseteq Ids
  BY Shape
<1>2. PICK y \in R : \A z \in R : ~(Reach(z) \subseteq Reach(y) /\ Reach(z) # Reach(y))
  BY <1>1, ReachesFewest
<1>3. PICK d \in Elements(deps[y]) : d \in U
  OBVIOUS
<1>4. d \in Reach(y) /\ Reach(y) \subseteq Reach(x) \cup {x} /\ Reach(d) \subseteq Reach(y)
  <2>1. y \in Ids /\ x \in Ids
    BY <1>1
  <2>2. d \in Reach(y)
    BY <2>1, ReachHolds
  <2>3. Reach(d) \subseteq Reach(y)
    BY <2>1, <2>2, ReachOnward
  <2>4. y = x \/ Reach(y) \subseteq Reach(x)
    BY <2>1, ReachOnward
  <2> QED  BY <2>2, <2>3, <2>4
<1>5. d \in R
  BY <1>3, <1>4
<1>6. Reach(d) = Reach(y)
  BY <1>2, <1>4, <1>5
<1> QED  BY <1>4, <1>5, <1>6

(***************************************************************************)
(* OrderIsSound.                                                           *)
(***************************************************************************)
\* What never drains is on a cycle or reaches one.
LEMMA UndrainedTrapped == ASSUME WellBuilt PROVE frontiers.undrained = Trapped
PROOF
<1>1. PICK f : f = frontiers /\ f \in Layered /\ Layering(f) /\ Drains(f) = {}
  BY FrontiersAre
<1>2. /\ f.undrained \subseteq Nodes /\ Nodes \subseteq Ids /\ DOMAIN f.layers = 1 .. Len(f.layers) /\ Len(f.layers) \in Nat
      /\ \A x \in Nodes : Elements(deps[x]) \subseteq Nodes
  <2>1. PICK s : s = Seq(Ids) /\ f.layers \in Seq(s) /\ f.undrained \subseteq Nodes
    BY <1>1 DEF Layered
  <2> QED  BY <2>1, Shape, LenProperties
<1>3. ASSUME NEW x \in f.undrained PROVE x \in Trapped
  <2>1. \A y \in f.undrained : \E d \in Elements(deps[y]) : d \in f.undrained
    BY <1>1, <1>2, IndegZero DEF Drains
  <2> QED  BY <1>2, <2>1, EndlessIsCyclic DEF Trapped
<1>4. ASSUME NEW x \in Nodes, x \notin f.undrained PROVE Reach(x) \subseteq Nodes \ f.undrained /\ x \notin Reach(x)
  <2>1. PICK k \in DOMAIN f.layers : In(f, k, x)
    BY <1>1, <1>4 DEF Layering
  <2> DEFINE S == {y \in Nodes : \E l \in DOMAIN f.layers : l < k /\ In(f, l, y)}
  <2>2. Elements(deps[x]) \subseteq S
    BY <1>1, <1>2, <2>1 DEF Layering
  <2>3. Closed(S)
    <3>1. ASSUME NEW y \in S, NEW d \in Elements(deps[y]) PROVE d \in S
      <4>1. PICK l \in DOMAIN f.layers : l < k /\ In(f, l, y)
        OBVIOUS
      <4>2. PICK j \in DOMAIN f.layers : j < l /\ In(f, j, d)
        BY <1>1, <4>1 DEF Layering
      <4> QED  BY <1>2, <4>1, <4>2
    <3> QED  BY <3>1 DEF Closed
  <2>4. Reach(x) \subseteq S
    BY <2>2, <2>3, ReachLeast
  <2>5. x \notin S
    BY <1>1, <1>2, <2>1 DEF Layering
  <2> QED  BY <1>1, <2>4, <2>5 DEF Layering
<1>5. ASSUME NEW x \in Nodes, x \notin f.undrained PROVE x \notin Trapped
  BY <1>4, <1>5 DEF Trapped
<1> QED  BY <1>1, <1>2, <1>3, <1>5 DEF Trapped

\* The layers are what they should be over any graph so built.
LEMMA LayersSound ==
  ASSUME WellBuilt
  PROVE  /\ frontiers.undrained = Trapped
         /\ Elements(TopoSort) = Nodes \ Trapped /\ Once(TopoSort)
         /\ \A k \in DOMAIN frontiers.layers : frontiers.layers[k] = InOrder(Elements(frontiers.layers[k]))
         /\ \A x \in Nodes \ Trapped :
              LET l == frontiers.layers
              IN  /\ \A d \in Elements(deps[x]) : Level(l, d) < Level(l, x)
                  /\ Level(l, x) > 1 => \E d \in Elements(deps[x]) : Level(l, d) = Level(l, x) - 1
PROOF
<1>1. PICK f : f = frontiers /\ f \in Layered /\ Layering(f) /\ Drains(f) = {}
  BY FrontiersAre
<1> DEFINE K == DOMAIN f.layers
           L == f.layers
<1>2. f.undrained = Trapped /\ Trapped \subseteq Nodes
  BY <1>1, UndrainedTrapped DEF Trapped
<1>3. K = 1 .. Len(f.layers) /\ Len(f.layers) \in Nat /\ \A k \in K : f.layers[k] \in Seq(Ids)
  <2>1. PICK s : s = Seq(Ids) /\ f.layers \in Seq(s)
    BY <1>1 DEF Layered
  <2> QED  BY <2>1, LenProperties, ElementOfSeq
<1>4. \A k \in K : f.layers[k] = InOrder(Elements(f.layers[k]))
  BY <1>1 DEF Layering
<1>5. \A k \in K : Once(f.layers[k]) /\ Elements(f.layers[k]) \subseteq Nodes
  <2> SUFFICES ASSUME NEW k \in K PROVE Once(f.layers[k]) /\ Elements(f.layers[k]) \subseteq Nodes
    OBVIOUS
  <2>1. PICK E : E = Elements(f.layers[k]) /\ f.layers[k] = InOrder(E)
    BY <1>4
  <2> QED  BY <2>1, InOrderIs
<1>6. \A x \in Nodes : x \notin f.undrained <=> \E k \in K : x \in Elements(f.layers[k])
  BY <1>1 DEF Layering, In
<1>7. \A k \in K, l \in K : k # l => Elements(f.layers[k]) \cap Elements(f.layers[l]) = {}
  BY <1>1, <1>5 DEF Layering, In
<1>8. Elements(TopoSort) = Nodes \ Trapped /\ Once(TopoSort)
  <2>1. TopoSort = Flat(f.layers)
    BY <1>1 DEF TopoSort
  <2>2. /\ Once(Flat(f.layers))
        /\ \A x : x \in Elements(Flat(f.layers)) <=> \E k \in K : x \in Elements(f.layers[k])
    BY <1>3, <1>5, <1>7, FlatIs
  <2> QED  BY <1>2, <1>5, <1>6, <2>1, <2>2
<1>9. \A x \in Nodes \ Trapped : Level(L, x) \in K /\ x \in Elements(f.layers[Level(L, x)])
  BY <1>2, <1>6 DEF Level
<1>10. \A x \in Nodes \ Trapped, k \in K : x \in Elements(f.layers[k]) => k = Level(L, x)
  BY <1>7, <1>9
<1>11. ASSUME NEW x \in Nodes \ Trapped
       PROVE  /\ \A d \in Elements(deps[x]) : Level(L, d) < Level(L, x)
              /\ Level(L, x) > 1 => \E d \in Elements(deps[x]) : Level(L, d) = Level(L, x) - 1
  <2>1. Elements(deps[x]) \subseteq Nodes
    BY Shape
  <2>2. In(f, Level(L, x), x) /\ Level(L, x) \in K
    BY <1>9 DEF In
  <2>3. ASSUME NEW d \in Elements(deps[x]), NEW l \in K, In(f, l, d) PROVE Level(L, d) = l
    <3>1. d \in Nodes \ Trapped
      BY <1>2, <1>6, <2>1, <2>3 DEF In
    <3> QED  BY <1>10, <2>3, <3>1 DEF In
  <2>4. \A d \in Elements(deps[x]) : Level(L, d) < Level(L, x)
    <3> SUFFICES ASSUME NEW d \in Elements(deps[x]) PROVE Level(L, d) < Level(L, x)
      OBVIOUS
    <3>1. PICK l \in K : l < Level(L, x) /\ In(f, l, d)
      BY <1>1, <2>2 DEF Layering
    <3> QED  BY <2>3, <3>1
  <2>5. ASSUME Level(L, x) > 1 PROVE \E d \in Elements(deps[x]) : Level(L, d) = Level(L, x) - 1
    <3>1. PICK d \in Elements(deps[x]) : In(f, Level(L, x) - 1, d)
      BY <1>1, <2>2, <2>5 DEF Layering
    <3>2. Level(L, x) - 1 \in K
      BY <1>3, <2>2, <2>5
    <3> QED  BY <2>3, <3>1, <3>2
  <2> QED  BY <2>4, <2>5
<1>12. /\ frontiers.undrained = Trapped
       /\ Elements(TopoSort) = Nodes \ Trapped /\ Once(TopoSort)
       /\ \A k \in DOMAIN frontiers.layers : frontiers.layers[k] = InOrder(Elements(frontiers.layers[k]))
  BY <1>1, <1>2, <1>4, <1>8
<1> QED  BY <1>1, <1>11, <1>12

\* The answers are what they should be over any graph so built.
LEMMA OrderSound == ASSUME WellBuilt PROVE OrderIsSound
PROOF BY LayersSound, ClosureIsReach DEF OrderIsSound

\* The layers, the topological order and the closures are right, over every
\* graph that the operations build.
THEOREM OrderAlwaysSound == Spec => []OrderIsSound
PROOF
<1>1. IInv => WellBuilt
  BY DEF IInv, GraphTypeOK, WellBuilt
<1>2. IInv => OrderIsSound
  BY <1>1, OrderSound
<1> QED  BY <1>2, Inductive, PTL

(***************************************************************************)
(* RefsHold: what resolves is the only candidate there is.                 *)
(***************************************************************************)
Sole == \A ref : ResolveRef(ref) # 0 => Candidates(ref) = {ResolveRef(ref)}

\* A reference that resolves has one candidate.
LEMMA ResolvesSole == ASSUME WellBuilt PROVE Sole
PROOF
<1> SUFFICES ASSUME NEW ref, ResolveRef(ref) # 0 PROVE Candidates(ref) = {ResolveRef(ref)}
  BY DEF Sole
<1>1. PICK c : c = InOrder(Candidates(ref))
  OBVIOUS
<1>2. Len(c) = 1 /\ ResolveRef(ref) = c[1]
  BY <1>1 DEF ResolveRef
<1>3. Candidates(ref) \subseteq Nodes
  BY DEF Candidates
<1>4. PICK x : Candidates(ref) = {x}
  <2>1. PICK S : S = Candidates(ref) /\ S \cap Nodes = S
    BY <1>3
  <2>2. Len(InOrder(S)) = 1
    BY <1>1, <1>2, <2>1
  <2>3. \E x : S \cap Nodes = {x}
    BY <2>2, SoleIs
  <2> QED  BY <2>1, <2>3
<1>5. c \in Seq(Ids) /\ Elements(c) = Candidates(ref)
  BY <1>1, <1>3, InOrderIs
<1>6. c[1] \in Candidates(ref)
  BY <1>2, <1>5 DEF Elements
<1> QED  BY <1>2, <1>4, <1>6

\* What a step does to the nodes.
LEMMA NodesStep ==
  ASSUME IInv, [Next]_vars
  PROVE  order' = order \/ \E id \in Ids : Nodes' = Nodes \cup {id} \/ Nodes' = Nodes \ {id}
PROOF
<1>1. order \in Seq(Ids) /\ Once(order)
  BY DEF IInv, GraphTypeOK
<1>2. ASSUME NEW id \in Ids, AddNode(id) PROVE Nodes' = Nodes \cup {id}
  <2>1. order' = Append(order, id)
    BY <1>2 DEF AddNode
  <2> QED  BY <1>1, <2>1, AppendOnce DEF Nodes
<1>3. ASSUME NEW id \in Ids, RemoveNode(id) PROVE Nodes' = Nodes \ {id}
  <2>1. order' = removeID(order, id)
    BY <1>3 DEF RemoveNode
  <2> QED  BY <1>1, <2>1, RemoveOnce DEF Nodes
<1>4. ASSUME NEW a \in Ids, NEW b \in Ids, AddDep(a, b) \/ RemoveDep(a, b) PROVE order' = order
  BY <1>4 DEF AddDep, RemoveDep
<1>5. ASSUME BatchCyclic \/ (\E call \in Calls : BeginBatch(call)) \/ BatchStep \/ UNCHANGED vars PROVE order' = order
  BY <1>5 DEF BatchCyclic, BeginBatch, BatchStep, Consider, Skip, GroupFull, Refused, Admit, Considering, CloseRound, Return, vars, graph
<1> QED  BY <1>2, <1>3, <1>4, <1>5, Zenon DEF Next

\* A reference never moves quietly from a node that is still there.
THEOREM RefsNeverMove == Spec => RefsHold
PROOF
<1>1. IInv => Sole
  <2>1. IInv => WellBuilt
    BY DEF IInv, GraphTypeOK, WellBuilt
  <2> QED  BY <2>1, ResolvesSole
<1>2. ASSUME IInv, Sole, Sole', [Next]_vars, NEW ref \in Refs, order' # order,
             ResolveRef(ref) # 0, ResolveRef(ref)' # 0, ResolveRef(ref) # ResolveRef(ref)', ResolveRef(ref) \in Nodes'
      PROVE  TextOf[ResolveRef(ref)'] = ref /\ ResolveRef(ref)' \notin Nodes
  <2>1. PICK was, is : /\ was = ResolveRef(ref) /\ is = ResolveRef(ref)' /\ was # is /\ was \in Nodes'
                       /\ Candidates(ref) = {was} /\ Candidates(ref)' = {is}
    BY <1>2 DEF Sole
  <2>2. PICK id \in Ids : Nodes' = Nodes \cup {id} \/ Nodes' = Nodes \ {id}
    BY <1>2, NodesStep
  <2> DEFINE Full(N) == {x \in N : TextOf[x] = ref}
             Short(N) == {x \in N : ShortOf[x] = ref}
  <2>3. /\ {was} = IF Full(Nodes) # {} THEN Full(Nodes) ELSE Short(Nodes)
        /\ {is} = IF Full(Nodes') # {} THEN Full(Nodes') ELSE Short(Nodes')
    BY <2>1 DEF Candidates
  <2>4. was \in Nodes /\ is \in Nodes'
    BY <2>3
  <2> QED  BY <2>1, <2>2, <2>3, <2>4
<1>3. IInv /\ Sole /\ Sole' /\ [Next]_vars =>
        [\A ref \in Refs :
           LET was == ResolveRef(ref)
               is == ResolveRef(ref)'
           IN  was # 0 /\ is # 0 /\ was # is /\ was \in Nodes' => TextOf[is] = ref /\ is \notin Nodes]_order
  BY <1>2
<1> QED  BY <1>1, <1>3, Inductive, PTL DEF Spec, RefsHold

(***************************************************************************)
(* canonicalCycle: the cycle that an edge back onto the path closes.       *)
(***************************************************************************)
Next1(c, i) == IF i < Len(c) THEN c[i + 1] ELSE c[1]
IsCycle(c) ==
  /\ c \in Seq(Nodes) /\ c # <<>> /\ Once(c)
  /\ \A i \in DOMAIN c : Next1(c, i) \in Elements(deps[c[i]])

Pivot(s, k) ==
  \A i \in DOMAIN s : TextOf[s[k]] < TextOf[s[i]] \/ (TextOf[s[k]] = TextOf[s[i]] /\ k <= i)

\* A part of a sequence.
LEMMA SliceIs ==
  ASSUME NEW S, NEW s \in Seq(S), NEW m \in Nat \ {0}, NEW n \in Nat, n <= Len(s), m <= n + 1
  PROVE  /\ SubSeq(s, m, n) \in Seq(S) /\ Len(SubSeq(s, m, n)) = n - m + 1
         /\ DOMAIN SubSeq(s, m, n) = 1 .. n - m + 1
         /\ \A i \in 1 .. n - m + 1 : SubSeq(s, m, n)[i] = s[m + i - 1]
PROOF
<1>1. m \in Int /\ n \in Int /\ \A i \in m .. n : s[i] \in S
  OBVIOUS
<1>2. SubSeq(s, m, n) \in Seq(S)
  BY <1>1, SubSeqProperties
<1>3. Len(SubSeq(s, m, n)) = IF m <= n THEN n - m + 1 ELSE 0
  BY <1>1, SubSeqProperties
<1>4. \A i \in 1 .. n - m + 1 : SubSeq(s, m, n)[i] = s[m + i - 1]
  BY <1>1, SubSeqProperties
<1>5. Len(SubSeq(s, m, n)) = n - m + 1
  BY <1>3
<1> QED  BY <1>2, <1>4, <1>5

\* A cycle has a first least text.
LEMMA PivotExists ==
  ASSUME NEW s \in Seq(Ids), s # <<>>
  PROVE  \E k \in DOMAIN s : Pivot(s, k)
PROOF
<1> DEFINE texts == {TextOf[s[i]] : i \in DOMAIN s}
<1>1. DOMAIN s = 1 .. Len(s) /\ Len(s) \in Nat \ {0} /\ \A i \in DOMAIN s : s[i] \in Ids /\ TextOf[s[i]] \in Nat
  BY EmptySeq, SchemeAssumption
<1>2. texts \in SUBSET Nat /\ texts # {}
  BY <1>1
<1>3. PICK m \in Nat : m \in texts /\ \A i \in DOMAIN s : m <= TextOf[s[i]]
  <2> HIDE DEF texts
  <2>1. PICK m \in texts : \A n \in texts : m <= n
    BY <1>2, LeastOf
  <2> QED  BY <1>2, <2>1 DEF texts
<1> DEFINE places == {i \in DOMAIN s : TextOf[s[i]] = m}
<1>4. places \in SUBSET Nat /\ places # {}
  BY <1>1, <1>3
<1>5. PICK k \in places : \A i \in places : k <= i
  <2> HIDE DEF places
  <2> QED  BY <1>4, LeastOf
<1>6. ASSUME NEW i \in DOMAIN s PROVE TextOf[s[k]] < TextOf[s[i]] \/ (TextOf[s[k]] = TextOf[s[i]] /\ k <= i)
  <2>1. m <= TextOf[s[i]] /\ TextOf[s[k]] = m /\ TextOf[s[i]] \in Nat
    BY <1>1, <1>3, <1>5
  <2>2. CASE TextOf[s[i]] = m
    BY <1>5, <2>1, <2>2
  <2>3. CASE TextOf[s[i]] # m
    BY <2>1, <2>3
  <2> QED  BY <2>2, <2>3
<1> QED  BY <1>5, <1>6 DEF Pivot

\* A cycle read from another of its nodes on is the same cycle.
LEMMA RotatedIs ==
  ASSUME NEW s, IsCycle(s), NEW k \in DOMAIN s
  PROVE  /\ IsCycle(From(s, k)) /\ Elements(From(s, k)) = Elements(s)
         /\ From(s, k)[1] = s[k]
PROOF
<1> DEFINE n == Len(s)
           r == n - k + 1
           t == From(s, k)
           place(j) == IF j <= r THEN k + j - 1 ELSE j - r
<1>1. s \in Seq(Nodes) /\ n \in Nat \ {0} /\ DOMAIN s = 1 .. n /\ k \in 1 .. n
  BY EmptySeq DEF IsCycle
<1>2. /\ SubSeq(s, k, n) \in Seq(Nodes) /\ Len(SubSeq(s, k, n)) = r
      /\ \A i \in 1 .. r : SubSeq(s, k, n)[i] = s[k + i - 1]
  BY <1>1, SliceIs
<1>3. /\ SubSeq(s, 1, k - 1) \in Seq(Nodes) /\ Len(SubSeq(s, 1, k - 1)) = k - 1
      /\ \A i \in 1 .. k - 1 : SubSeq(s, 1, k - 1)[i] = s[i]
  <2>1. 1 \in Nat \ {0} /\ k - 1 \in Nat /\ k - 1 <= Len(s) /\ 1 <= k - 1 + 1 /\ k - 1 - 1 + 1 = k - 1
    BY <1>1
  <2>2. /\ SubSeq(s, 1, k - 1) \in Seq(Nodes) /\ Len(SubSeq(s, 1, k - 1)) = k - 1 - 1 + 1
        /\ \A i \in 1 .. k - 1 - 1 + 1 : SubSeq(s, 1, k - 1)[i] = s[1 + i - 1]
    BY <1>1, <2>1, SliceIs
  <2> QED  BY <2>1, <2>2
<1>4. PICK a, b : a = SubSeq(s, k, n) /\ b = SubSeq(s, 1, k - 1) /\ t = a \o b
  BY DEF From
<1> HIDE DEF t
<1>5. /\ t \in Seq(Nodes) /\ Len(t) = n /\ DOMAIN t = 1 .. n
      /\ \A j \in 1 .. n : t[j] = s[place(j)]
  <2>1. /\ a \in Seq(Nodes) /\ Len(a) = r /\ (\A i \in 1 .. r : a[i] = s[k + i - 1])
        /\ b \in Seq(Nodes) /\ Len(b) = k - 1 /\ (\A i \in 1 .. k - 1 : b[i] = s[i])
    BY <1>2, <1>3, <1>4
  <2>2. /\ t \in Seq(Nodes) /\ Len(t) = Len(a) + Len(b)
        /\ \A i \in 1 .. Len(a) + Len(b) : t[i] = IF i <= Len(a) THEN a[i] ELSE b[i - Len(a)]
    <3>1. a \in Seq(Nodes) /\ b \in Seq(Nodes)
      BY <2>1
    <3> QED  BY <1>4, <3>1, ConcatProperties
  <2>3. Len(a) + Len(b) = n
    BY <1>1, <2>1
  <2> HIDE DEF n
  <2>4. ASSUME NEW j \in 1 .. n PROVE t[j] = s[place(j)]
    <3>1. t[j] = IF j <= r THEN a[j] ELSE b[j - r]
      BY <2>1, <2>2, <2>3
    <3>2. CASE j <= r
      BY <1>1, <2>1, <3>1, <3>2
    <3>3. CASE ~(j <= r)
      BY <1>1, <2>1, <3>1, <3>3
    <3> QED  BY <3>2, <3>3
  <2> QED  BY <1>1, <2>2, <2>3, <2>4
<1>6. /\ \A j \in 1 .. n : place(j) \in 1 .. n
      /\ \A i, j \in 1 .. n : place(i) = place(j) => i = j
      /\ \A i \in 1 .. n : \E j \in 1 .. n : i = place(j)
      /\ \A j \in 1 .. n : place(IF j < n THEN j + 1 ELSE 1) = IF place(j) < n THEN place(j) + 1 ELSE 1
      /\ place(1) = k
  <2>1. ASSUME NEW i \in 1 .. n PROVE \E j \in 1 .. n : i = place(j)
    <3>1. CASE i >= k
      <4>1. i - k + 1 \in 1 .. n /\ i = place(i - k + 1)
        BY <1>1, <3>1
      <4> QED  BY <4>1
    <3>2. CASE i < k
      <4>1. i + r \in 1 .. n /\ i = place(i + r)
        BY <1>1, <3>2
      <4> QED  BY <4>1
    <3> QED  BY <1>1, <3>1, <3>2
  <2>2. \A j \in 1 .. n : place(j) \in 1 .. n
    BY <1>1
  <2>3. \A i, j \in 1 .. n : place(i) = place(j) => i = j
    BY <1>1
  <2>4. \A j \in 1 .. n : place(IF j < n THEN j + 1 ELSE 1) = IF place(j) < n THEN place(j) + 1 ELSE 1
    BY <1>1
  <2>5. place(1) = k
    BY <1>1
  <2> QED  BY <2>1, <2>2, <2>3, <2>4, <2>5
<1> HIDE DEF place, r, n
<1>7. Elements(t) = Elements(s)
  <2>1. ASSUME NEW y \in Elements(t) PROVE y \in Elements(s)
    <3>1. PICK j \in 1 .. n : y = t[j]
      BY <1>5 DEF Elements
    <3>2. place(j) \in DOMAIN s /\ y = s[place(j)]
      BY <1>1, <1>5, <1>6, <3>1
    <3> QED  BY <3>2 DEF Elements
  <2>2. ASSUME NEW y \in Elements(s) PROVE y \in Elements(t)
    <3>1. PICK i \in 1 .. n : y = s[i]
      BY <1>1 DEF Elements
    <3>2. PICK j \in 1 .. n : i = place(j)
      BY <1>6
    <3>3. j \in DOMAIN t /\ y = t[j]
      BY <1>5, <3>1, <3>2
    <3> QED  BY <3>3 DEF Elements
  <2> QED  BY <2>1, <2>2
<1>8. Once(t)
  <2> SUFFICES ASSUME NEW i \in 1 .. n, NEW j \in 1 .. n, t[i] = t[j] PROVE i = j
    BY <1>5 DEF Once
  <2>1. place(i) \in DOMAIN s /\ place(j) \in DOMAIN s /\ s[place(i)] = s[place(j)]
    BY <1>1, <1>5, <1>6
  <2>2. place(i) = place(j)
    BY <2>1 DEF IsCycle, Once
  <2> QED  BY <1>6, <2>2
<1>9. ASSUME NEW j \in DOMAIN t PROVE Next1(t, j) \in Elements(deps[t[j]])
  <2>1. Next1(t, j) = t[IF j < n THEN j + 1 ELSE 1]
    BY <1>5 DEF Next1
  <2>2. (IF j < n THEN j + 1 ELSE 1) \in 1 .. n
    BY <1>1, <1>5
  <2>3. Next1(t, j) = s[IF place(j) < n THEN place(j) + 1 ELSE 1]
    BY <1>5, <1>6, <2>1, <2>2
  <2>4. Next1(t, j) = Next1(s, place(j))
    BY <2>3 DEF Next1, n
  <2> QED  BY <1>1, <1>5, <1>6, <2>4 DEF IsCycle
<1>10. t # <<>> /\ t[1] = s[k]
  BY <1>1, <1>5, <1>6
<1> QED  BY <1>5, <1>7, <1>8, <1>9, <1>10 DEF IsCycle, t

Least(c) == \A i \in DOMAIN c : TextOf[c[1]] <= TextOf[c[i]]

\* The canonical form is the same cycle, from its least text on.
LEMMA CanonicalIs ==
  ASSUME WellBuilt, NEW s, IsCycle(s)
  PROVE  IsCycle(canonicalCycle(s)) /\ Least(canonicalCycle(s)) /\ Elements(canonicalCycle(s)) = Elements(s)
PROOF
<1> DEFINE k == CHOOSE k \in DOMAIN s : Pivot(s, k)
<1>1. s \in Seq(Ids) /\ s # <<>>
  <2>1. s \in Seq(Nodes) /\ s # <<>> /\ Nodes \subseteq Ids
    BY Shape DEF IsCycle
  <2> QED  BY <2>1, SeqMonotonic
<1>2. k \in DOMAIN s /\ Pivot(s, k)
  BY <1>1, PivotExists
<1>3. canonicalCycle(s) = From(s, k)
  BY DEF canonicalCycle, Pivot
<1> HIDE DEF k
<1>4. PICK t : t = From(s, k) /\ IsCycle(t) /\ Elements(t) = Elements(s) /\ t[1] = s[k]
  BY <1>2, RotatedIs
<1>5. ASSUME NEW i \in DOMAIN t PROVE TextOf[t[1]] <= TextOf[t[i]]
  <2>1. PICK j \in DOMAIN s : t[i] = s[j]
    BY <1>4 DEF Elements
  <2>2. TextOf[s[k]] \in Nat /\ TextOf[s[j]] \in Nat
    BY <1>1, <1>2, SchemeAssumption
  <2> QED  BY <1>2, <1>4, <2>1, <2>2 DEF Pivot
<1> QED  BY <1>3, <1>4, <1>5 DEF Least

IsPath(p) == p \in Seq(Nodes) /\ Once(p) /\ \A i \in 1 .. Len(p) - 1 : p[i + 1] \in Elements(deps[p[i]])

\* The part of the path from the target of a back edge on is a cycle.
LEMMA ClosingIs ==
  ASSUME WellBuilt, NEW p, IsPath(p), NEW i \in DOMAIN p, p[i] \in Elements(deps[p[Len(p)]])
  PROVE  IsCycle(SubSeq(p, i, Len(p))) /\ p[Len(p)] \in Elements(SubSeq(p, i, Len(p)))
PROOF
<1> DEFINE m == Len(p)
           n == m - i + 1
<1>1. p \in Seq(Nodes) /\ m \in Nat /\ DOMAIN p = 1 .. m /\ i \in 1 .. m /\ n \in Nat \ {0}
  BY DEF IsPath
<1>2. PICK s : /\ s = SubSeq(p, i, m) /\ s \in Seq(Nodes) /\ Len(s) = n
               /\ \A j \in 1 .. n : s[j] = p[i + j - 1]
  <2>1. /\ SubSeq(p, i, m) \in Seq(Nodes) /\ Len(SubSeq(p, i, m)) = n
        /\ \A j \in 1 .. n : SubSeq(p, i, m)[j] = p[i + j - 1]
    BY <1>1, SliceIs
  <2> QED  BY <2>1
<1>3. DOMAIN s = 1 .. n
  BY <1>2
<1>4. Once(s) /\ s # <<>>
  <2>1. ASSUME NEW a \in 1 .. n, NEW b \in 1 .. n, s[a] = s[b] PROVE a = b
    <3>1. i + a - 1 \in DOMAIN p /\ i + b - 1 \in DOMAIN p
      BY <1>1
    <3>2. p[i + a - 1] = p[i + b - 1]
      BY <1>2, <2>1
    <3>3. i + a - 1 = i + b - 1
      BY <3>1, <3>2 DEF IsPath, Once
    <3> QED  BY <1>1, <3>3
  <2>2. Once(s)
    BY <1>3, <2>1 DEF Once
  <2>3. s # <<>>
    BY <1>1, <1>2
  <2> QED  BY <2>2, <2>3
<1>5. ASSUME NEW j \in DOMAIN s PROVE Next1(s, j) \in Elements(deps[s[j]])
  <2>1. CASE j < n
    <3>1. i + j - 1 \in 1 .. m - 1 /\ j + 1 \in 1 .. n /\ i + (j + 1) - 1 = i + j - 1 + 1
      BY <1>1, <1>3, <2>1
    <3>2. s[j] = p[i + j - 1] /\ Next1(s, j) = p[i + j - 1 + 1]
      BY <1>2, <1>3, <2>1, <3>1 DEF Next1
    <3> QED  BY <3>1, <3>2 DEF IsPath
  <2>2. CASE ~(j < n)
    <3>1. j = n /\ i + n - 1 = m
      BY <1>1, <1>3, <2>2
    <3>2. s[j] = p[m] /\ Next1(s, j) = p[i]
      BY <1>1, <1>2, <1>3, <2>2, <3>1 DEF Next1
    <3> QED  BY <3>2
  <2> QED  BY <2>1, <2>2
<1>6. s[n] = p[m] /\ n \in DOMAIN s
  BY <1>1, <1>2, <1>3
<1>7. p[m] \in Elements(s)
  BY <1>6 DEF Elements
<1> QED  BY <1>2, <1>4, <1>5, <1>7 DEF IsCycle

(***************************************************************************)
(* Each node of a cycle reaches each.                                      *)
(***************************************************************************)
LEMMA Climb ==
  ASSUME NEW c, NEW S, NEW a \in Nat, NEW n \in Nat, c[a] \in S, \A m \in a .. n - 1 : c[m] \in S => c[m + 1] \in S
  PROVE  \A m \in a .. n : c[m] \in S
PROOF
<1> DEFINE Q == {k \in Nat : a + k <= n => c[a + k] \in S}
<1>1. 0 \in Q
  OBVIOUS
<1>2. ASSUME NEW k \in Nat, k \in Q PROVE k + 1 \in Q
  <2>1. CASE a + (k + 1) <= n
    <3>1. a + k \in a .. n - 1 /\ a + (k + 1) = a + k + 1
      BY <2>1
    <3> QED  BY <1>2, <2>1, <3>1
  <2> QED  BY <2>1
<1> HIDE DEF Q
<1>3. Nat \subseteq Q
  BY <1>1, <1>2, SetInduction
<1>4. ASSUME NEW m \in a .. n PROVE c[m] \in S
  <2>1. m - a \in Nat /\ a + (m - a) = m
    OBVIOUS
  <2>2. m - a \in Q
    BY <1>3, <2>1
  <2> QED  BY <2>1, <2>2 DEF Q
<1> QED  BY <1>4

\* A node of a cycle reaches every node of it.
LEMMA CycleReaches ==
  ASSUME WellBuilt, NEW c, IsCycle(c), NEW y \in Elements(c)
  PROVE  Elements(c) \subseteq Reach(y)
PROOF
<1> DEFINE n == Len(c)
           S == Reach(y)
<1>1. c \in Seq(Nodes) /\ n \in Nat \ {0} /\ DOMAIN c = 1 .. n /\ Nodes \subseteq Ids
  BY EmptySeq, Shape DEF IsCycle
<1>2. PICK i \in 1 .. n : y = c[i]
  BY <1>1 DEF Elements
<1>3. y \in Ids /\ Elements(deps[y]) \subseteq S /\ Closed(S)
  BY <1>1, <1>2, ReachHolds
<1>4. Next1(c, i) \in S
  BY <1>1, <1>2, <1>3 DEF IsCycle
<1>5. \A m \in 1 .. n : c[m] \in S => Next1(c, m) \in S
  BY <1>1, <1>3 DEF IsCycle, Closed
<1> HIDE DEF S, n
<1>6. \A m \in 1 .. n - 1 : Next1(c, m) = c[m + 1]
  BY <1>1 DEF Next1, n
<1>7. Next1(c, n) = c[1]
  BY <1>1 DEF Next1, n
<1>8. c[1] \in S
  <2>1. CASE i = n
    BY <1>4, <1>7, <2>1
  <2>2. CASE i # n
    <3>1. i + 1 \in Nat /\ i + 1 <= n /\ c[i + 1] \in S
      BY <1>1, <1>4, <1>6, <2>2
    <3>2. \A m \in i + 1 .. n - 1 : c[m] \in S => c[m + 1] \in S
      BY <1>1, <1>5, <1>6
    <3>3. PICK a \in Nat : a = i + 1
      BY <1>1
    <3>4. n \in Nat /\ n \in a .. n /\ c[a] \in S /\ \A m \in a .. n - 1 : c[m] \in S => c[m + 1] \in S
      BY <1>1, <3>1, <3>2, <3>3
    <3>5. c[n] \in S
      BY <3>4, Climb
    <3> QED  BY <1>1, <1>5, <1>7, <3>5
  <2> QED  BY <2>1, <2>2
<1>9. \A m \in 1 .. n - 1 : c[m] \in S => c[m + 1] \in S
  BY <1>1, <1>5, <1>6
<1>10. \A m \in 1 .. n : c[m] \in S
  BY <1>1, <1>8, <1>9, Climb
<1> QED  BY <1>1, <1>10 DEF Elements, S

(***************************************************************************)
(* cyclesAmong: the walk.                                                  *)
(***************************************************************************)
Cycles == {c \in Seq(Nodes) : IsCycle(c) /\ Least(c)}
Walks == [path : Seq(Nodes), next : [Ids -> Nat], done : SUBSET Nodes, found : Seq(Cycles)]

\* The text of a node stands in a cycle that has been found.
Named(w, x) == \E c \in Elements(w.found) : \E y \in Elements(c) : TextOf[y] = TextOf[x]
\* The edge from x to d needs no more looking at.
Passed(S, w, x, d) == d \notin S \/ d \in w.done \/ Named(w, x)

OnPath(S, w) ==
  /\ IsPath(w.path) /\ Elements(w.path) \subseteq S /\ Elements(w.path) \cap w.done = {} /\ w.done \subseteq S
  /\ \A x \in Nodes : /\ w.next[x] <= Len(deps[x]) + 1
                      /\ x \in Elements(w.path) => w.next[x] >= 1
                      /\ x \notin Elements(w.path) \cup w.done => w.next[x] = 0
PathSettled(S, w) ==
  \A i \in DOMAIN w.path : \A j \in 1 .. Len(deps[w.path[i]]) :
     j < w.next[w.path[i]] =>
       \/ Passed(S, w, w.path[i], deps[w.path[i]][j])
       \/ i < Len(w.path) /\ w.path[i + 1] = deps[w.path[i]][j]
DoneSettled(S, w) == \A x \in w.done : \A d \in Elements(deps[x]) : Passed(S, w, x, d)
\* What is done goes nowhere that has no name.
Grounded(w) ==
  \A T \in SUBSET w.done : T # {} => \E z \in T : Named(w, z) \/ Elements(deps[z]) \cap T = {}
Walking(S, w) ==
  w \in Walks /\ OnPath(S, w) /\ PathSettled(S, w) /\ DoneSettled(S, w) /\ Grounded(w) /\ Once(w.found)

\* The visit on top of the path, and the dependency that it looks at next.
Atop(w, id, k) == w.path # <<>> /\ id = w.path[Len(w.path)] /\ k = w.next[id]

\* The parts of a walk.
LEMMA WalkIs ==
  ASSUME NEW w \in Walks
  PROVE  /\ w = [path |-> w.path, next |-> w.next, done |-> w.done, found |-> w.found]
         /\ w.path \in Seq(Nodes) /\ w.next \in [Ids -> Nat] /\ w.done \in SUBSET Nodes /\ w.found \in Seq(Cycles)
         /\ Len(w.path) \in Nat /\ DOMAIN w.path = 1 .. Len(w.path)
PROOF
<1>1. /\ w = [path |-> w.path, next |-> w.next, done |-> w.done, found |-> w.found]
      /\ w.path \in Seq(Nodes) /\ w.next \in [Ids -> Nat] /\ w.done \in SUBSET Nodes /\ w.found \in Seq(Cycles)
  BY DEF Walks
<1> QED  BY <1>1

\* What is named or done stays so.
LEMMA PassedStays ==
  ASSUME NEW S, NEW w, NEW v, w.done \subseteq v.done, Elements(w.found) \subseteq Elements(v.found)
  PROVE  /\ \A x : Named(w, x) => Named(v, x)
         /\ \A x, d : Passed(S, w, x, d) => Passed(S, v, x, d)
PROOF
<1>1. ASSUME NEW x, Named(w, x) PROVE Named(v, x)
  BY <1>1 DEF Named
<1> QED  BY <1>1 DEF Passed

\* A turn that looks at a dependency and stays on its node.
Looked(w, v, id, k) ==
  /\ v.path = w.path /\ v.done = w.done /\ v.next = [w.next EXCEPT ![id] = k + 1]
  /\ Elements(w.found) \subseteq Elements(v.found) /\ Once(v.found)

\* Looking at an edge keeps the invariant of the walk.
LEMMA LookKeeps ==
  ASSUME WellBuilt, NEW S, NEW w, NEW v \in Walks, NEW id, NEW k,
         Walking(S, w), Atop(w, id, k), k <= Len(deps[id]), Looked(w, v, id, k), Passed(S, v, id, deps[id][k])
  PROVE  Walking(S, v)
PROOF
<1>1. /\ w \in Walks /\ w.path \in Seq(Nodes) /\ w.next \in [Ids -> Nat] /\ Len(w.path) \in Nat
      /\ DOMAIN w.path = 1 .. Len(w.path) /\ Nodes \subseteq Ids
  BY WalkIs, Shape DEF Walking
<1>2. /\ v.path = w.path /\ v.done = w.done /\ v.next = [w.next EXCEPT ![id] = k + 1]
      /\ Elements(w.found) \subseteq Elements(v.found) /\ Once(v.found)
  BY DEF Looked
<1>3. w.path # <<>> /\ id = w.path[Len(w.path)] /\ k = w.next[id]
  BY DEF Atop
<1>4. Len(w.path) \in 1 .. Len(w.path) /\ id \in Nodes /\ id \in Ids /\ k \in Nat /\ Len(deps[id]) \in Nat
  <2>1. Len(w.path) \in 1 .. Len(w.path)
    BY <1>1, <1>3, EmptySeq
  <2>2. id \in Nodes
    BY <1>1, <1>3, <2>1
  <2> QED  BY <1>1, <1>3, <2>1, <2>2, Shape
<1>5. \A x, d : Passed(S, w, x, d) => Passed(S, v, x, d)
  BY <1>2, PassedStays
<1>6. \A x : Named(w, x) => Named(v, x)
  BY <1>2, PassedStays
<1>7. OnPath(S, v)
  <2>1. IsPath(v.path) /\ Elements(v.path) \subseteq S /\ Elements(v.path) \cap v.done = {} /\ v.done \subseteq S
    BY <1>2 DEF Walking, OnPath
  <2>2. id \in Elements(w.path)
    BY <1>1, <1>3, <1>4 DEF Elements
  <2>3. ASSUME NEW x \in Nodes
        PROVE  /\ v.next[x] <= Len(deps[x]) + 1
               /\ x \in Elements(v.path) => v.next[x] >= 1
               /\ x \notin Elements(v.path) \cup v.done => v.next[x] = 0
    <3>1. /\ w.next[x] <= Len(deps[x]) + 1
          /\ x \in Elements(w.path) => w.next[x] >= 1
          /\ x \notin Elements(w.path) \cup w.done => w.next[x] = 0
      BY DEF Walking, OnPath
    <3>2. CASE x = id
      BY <1>1, <1>2, <1>4, <2>2, <3>2
    <3>3. CASE x # id
      BY <1>1, <1>2, <3>1, <3>3
    <3> QED  BY <3>2, <3>3
  <2> QED  BY <2>1, <2>3 DEF OnPath
<1>8. PathSettled(S, v)
  <2> SUFFICES ASSUME NEW i \in DOMAIN w.path, NEW j \in 1 .. Len(deps[w.path[i]]), j < v.next[w.path[i]]
               PROVE  \/ Passed(S, v, w.path[i], deps[w.path[i]][j])
                      \/ i < Len(w.path) /\ w.path[i + 1] = deps[w.path[i]][j]
    BY <1>2 DEF PathSettled
  <2>1. CASE j < w.next[w.path[i]]
    BY <1>5, <2>1 DEF Walking, PathSettled
  <2>2. CASE ~(j < w.next[w.path[i]])
    <3>1. w.path[i] \in Ids
      BY <1>1
    <3>2. w.path[i] = id
      <4>1. v.next[w.path[i]] # w.next[w.path[i]]
        BY <2>2
      <4> QED  BY <1>1, <1>2, <3>1, <4>1
    <3>3. v.next[id] = k + 1
      BY <1>1, <1>2, <1>4
    <3>4. j < k + 1 /\ ~(j < k)
      <4>1. j < v.next[w.path[i]]
        OBVIOUS
      <4> QED  BY <1>3, <2>2, <3>2, <3>3, <4>1, Zenon
    <3>5. j = k
      <4>1. j \in Int
        OBVIOUS
      <4> QED  BY <1>4, <3>4, <4>1
    <3> QED  BY <3>2, <3>5
  <2> QED  BY <2>1, <2>2
<1>9. DoneSettled(S, v)
  BY <1>2, <1>5 DEF Walking, DoneSettled
<1>10. Grounded(v)
  BY <1>2, <1>6 DEF Walking, Grounded
<1> QED  BY <1>2, <1>7, <1>8, <1>9, <1>10 DEF Walking

\* A turn that enters node d, from the node on top of the path if there is one.
Entered(w, v, d) ==
  /\ v.path = Append(w.path, d) /\ v.done = w.done /\ v.found = w.found
  /\ v.next[d] = 1
  /\ \/ w.path = <<>> /\ \A x \in Nodes \ {d} : v.next[x] = w.next[x]
     \/ \E id, k : /\ Atop(w, id, k) /\ k <= Len(deps[id]) /\ d = deps[id][k] /\ v.next[id] = k + 1
                   /\ \A x \in Nodes \ {d, id} : v.next[x] = w.next[x]

\* The visit on top of the path.
LEMMA LastOf ==
  ASSUME NEW w \in Walks, w.path # <<>>
  PROVE  Len(w.path) \in 1 .. Len(w.path) /\ w.path[Len(w.path)] \in Nodes /\ w.path[Len(w.path)] \in Elements(w.path)
PROOF
<1>1. Len(w.path) \in 1 .. Len(w.path) /\ w.path[Len(w.path)] \in Nodes /\ DOMAIN w.path = 1 .. Len(w.path)
  BY WalkIs, EmptySeq
<1> QED  BY <1>1 DEF Elements

\* Entering a node keeps it.
LEMMA EnterKeeps ==
  ASSUME WellBuilt, NEW S, NEW w, NEW v \in Walks, NEW d \in S \cap Nodes,
         Walking(S, w), Entered(w, v, d), d \notin w.done, d \notin Elements(w.path)
  PROVE  Walking(S, v)
PROOF
<1> DEFINE p == w.path
           m == Len(p)
<1>1. /\ w \in Walks /\ p \in Seq(Nodes) /\ w.next \in [Ids -> Nat] /\ m \in Nat
      /\ DOMAIN p = 1 .. m /\ Nodes \subseteq Ids
  BY WalkIs, Shape DEF Walking
<1>2. v.path = Append(p, d) /\ v.done = w.done /\ v.found = w.found /\ v.next[d] = 1
  BY DEF Entered
<1>3. /\ Len(v.path) = m + 1 /\ DOMAIN v.path = 1 .. m + 1 /\ v.path[m + 1] = d
      /\ \A i \in 1 .. m : v.path[i] = p[i]
  BY <1>1, <1>2
<1>4. Elements(v.path) = Elements(p) \cup {d}
  <2>1. \A i \in 1 .. m + 1 : i = m + 1 \/ i \in 1 .. m
    BY <1>1
  <2>2. \A i \in 1 .. m : i \in 1 .. m + 1
    BY <1>1
  <2>3. m + 1 \in 1 .. m + 1
    BY <1>1
  <2> HIDE DEF m, p
  <2> QED  BY <1>1, <1>3, <2>1, <2>2, <2>3 DEF Elements
<1>5. /\ Len(deps[d]) \in Nat
      /\ \A x \in Nodes : /\ w.next[x] <= Len(deps[x]) + 1
                          /\ x \in Elements(p) => w.next[x] >= 1
                          /\ x \notin Elements(p) \cup w.done => w.next[x] = 0
  BY <1>1, Shape DEF Walking, OnPath
<1>6. IsPath(p) /\ Elements(p) \subseteq S /\ Elements(p) \cap w.done = {} /\ w.done \subseteq S
  BY DEF Walking, OnPath
\* What the turn changes of next.
<1>7. \A x \in Nodes : x = d \/ v.next[x] = w.next[x]
                        \/ (m # 0 /\ x = p[m] /\ w.next[x] <= Len(deps[x]) /\ d = deps[x][w.next[x]]
                            /\ v.next[x] = w.next[x] + 1)
  <2>1. CASE w.path = <<>> /\ \A x \in Nodes \ {d} : v.next[x] = w.next[x]
    BY <2>1
  <2>2. ASSUME NEW id, NEW k, Atop(w, id, k), k <= Len(deps[id]), d = deps[id][k], v.next[id] = k + 1,
               \A x \in Nodes \ {d, id} : v.next[x] = w.next[x]
        PROVE  \A x \in Nodes : x = d \/ v.next[x] = w.next[x]
                        \/ (m # 0 /\ x = p[m] /\ w.next[x] <= Len(deps[x]) /\ d = deps[x][w.next[x]]
                            /\ v.next[x] = w.next[x] + 1)
    <3>1. p # <<>> /\ id = p[m] /\ k = w.next[id]
      BY <2>2 DEF Atop
    <3>2. m # 0
      BY <1>1, <3>1, EmptySeq
    <3> HIDE DEF m, p
    <3> QED  BY <2>2, <3>1, <3>2
  <2> QED  BY <2>1, <2>2 DEF Entered
<1>8. w.path # <<>> => d \in Elements(deps[p[m]])
  <2> SUFFICES ASSUME w.path # <<>> PROVE d \in Elements(deps[p[m]])
    OBVIOUS
  <2>1. PICK id, k : Atop(w, id, k) /\ k <= Len(deps[id]) /\ d = deps[id][k]
    BY DEF Entered
  <2>2. id = p[m] /\ k = w.next[id] /\ id \in Nodes /\ id \in Elements(p)
    BY <1>1, <2>1, LastOf DEF Atop
  <2>3. k \in Nat /\ k >= 1
    BY <1>1, <1>5, <2>2
  <2>4. deps[id] \in Seq(Ids) /\ Len(deps[id]) \in Nat
    BY <1>1, <2>2, Shape
  <2>5. k \in DOMAIN deps[id]
    BY <2>1, <2>3, <2>4
  <2> QED  BY <2>1, <2>2, <2>5 DEF Elements
<1>9. \A x, y : Passed(S, w, x, y) => Passed(S, v, x, y)
  BY <1>2, PassedStays
<1> HIDE DEF m, p
<1>10. IsPath(v.path)
  <2>1. v.path \in Seq(Nodes)
    BY WalkIs
  <2>2. Once(v.path)
    <3>1. \A i \in 1 .. m : p[i] # d
      BY <1>1 DEF Elements, p
    <3>2. \A i, j \in 1 .. m : p[i] = p[j] => i = j
      BY <1>1, <1>6 DEF IsPath, Once
    <3> SUFFICES ASSUME NEW i \in 1 .. m + 1, NEW j \in 1 .. m + 1, v.path[i] = v.path[j] PROVE i = j
      BY <1>3 DEF Once
    <3> QED  BY <1>1, <1>3, <3>1, <3>2
  <2>3. ASSUME NEW i \in 1 .. m PROVE v.path[i + 1] \in Elements(deps[v.path[i]])
    <3>1. CASE i = m
      <4>1. w.path # <<>>
        BY <1>1, <3>1 DEF p, m
      <4>2. d \in Elements(deps[p[m]])
        BY <1>8, <4>1
      <4> QED  BY <1>3, <3>1, <4>2
    <3>2. CASE i # m
      <4>1. i \in 1 .. m - 1 /\ i + 1 \in 1 .. m
        BY <1>1, <3>2
      <4> QED  BY <1>3, <1>6, <4>1 DEF IsPath, m
    <3> QED  BY <3>1, <3>2
  <2>4. Len(v.path) - 1 = m
    BY <1>1, <1>3
  <2> QED  BY <2>1, <2>2, <2>3, <2>4 DEF IsPath
<1>11. OnPath(S, v)
  <2>1. Elements(v.path) \subseteq S /\ Elements(v.path) \cap v.done = {} /\ v.done \subseteq S
    BY <1>2, <1>4, <1>6
  <2>2. ASSUME NEW x \in Nodes
        PROVE  /\ v.next[x] <= Len(deps[x]) + 1
               /\ x \in Elements(v.path) => v.next[x] >= 1
               /\ x \notin Elements(v.path) \cup v.done => v.next[x] = 0
    <3>1. w.next[x] \in Nat /\ Len(deps[x]) \in Nat
      BY <1>1, Shape
    <3>2. CASE x = d
      BY <1>2, <1>4, <1>5, <3>1, <3>2
    <3>3. CASE x # d /\ v.next[x] = w.next[x]
      BY <1>2, <1>4, <1>5, <3>1, <3>3
    <3>4. CASE m # 0 /\ x = p[m] /\ w.next[x] <= Len(deps[x]) /\ v.next[x] = w.next[x] + 1
      <4>1. x \in Elements(p)
        BY <1>1, <3>4, LastOf DEF Elements
      <4> QED  BY <1>4, <3>1, <3>4, <4>1
    <3> QED  BY <1>7, <3>2, <3>3, <3>4
  <2> QED  BY <1>10, <2>1, <2>2 DEF OnPath
<1>12. PathSettled(S, v)
  <2> SUFFICES ASSUME NEW i \in 1 .. m + 1, NEW j \in 1 .. Len(deps[v.path[i]]), j < v.next[v.path[i]]
               PROVE  \/ Passed(S, v, v.path[i], deps[v.path[i]][j])
                      \/ i < m + 1 /\ v.path[i + 1] = deps[v.path[i]][j]
    BY <1>3 DEF PathSettled
  <2>1. CASE i = m + 1
    <3>1. j < 1
      BY <1>2, <1>3, <2>1
    <3> QED  BY <3>1
  <2>2. CASE i \in 1 .. m
    <3> DEFINE x == p[i]
    <3>1. v.path[i] = x /\ x \in Nodes /\ x # d
      <4>1. x \in Elements(p)
        BY <1>1, <2>2 DEF Elements
      <4> QED  BY <1>1, <1>3, <2>2, <4>1 DEF p
    <3>2. w.next[x] \in Nat /\ j \in Int
      BY <1>1, <3>1
    <3>3. CASE j < w.next[x]
      <4>1. Passed(S, w, x, deps[x][j]) \/ (i < m /\ p[i + 1] = deps[x][j])
        BY <1>1, <2>2, <3>1, <3>3 DEF Walking, PathSettled, p, m
      <4>2. i < m => v.path[i + 1] = p[i + 1] /\ i < m + 1
        <5>1. i < m => i + 1 \in 1 .. m /\ i < m + 1
          BY <1>1, <2>2
        <5> QED  BY <1>3, <5>1
      <4> QED  BY <1>9, <3>1, <4>1, <4>2
    <3>4. CASE ~(j < w.next[x])
      <4>1. v.next[x] # w.next[x]
        BY <3>1, <3>4
      <4>2. m # 0 /\ x = p[m] /\ d = deps[x][w.next[x]] /\ v.next[x] = w.next[x] + 1
        BY <1>7, <3>1, <4>1
      <4>3. j = w.next[x]
        BY <3>1, <3>2, <3>4, <4>2
      <4>4. i = m
        <5>1. m \in DOMAIN p /\ i \in DOMAIN p /\ Once(p)
          BY <1>1, <1>6, <2>2, <4>2 DEF IsPath
        <5> QED  BY <4>2, <5>1 DEF Once
      <4> QED  BY <1>1, <1>3, <3>1, <4>2, <4>3, <4>4
    <3> QED  BY <3>3, <3>4
  <2> QED  BY <1>1, <2>1, <2>2
<1>13. DoneSettled(S, v)
  BY <1>2, <1>9 DEF Walking, DoneSettled
<1>14. Grounded(v)
  <2>1. \A z : Named(w, z) => Named(v, z)
    BY <1>2, PassedStays
  <2> QED  BY <1>2, <2>1 DEF Walking, Grounded
<1> QED  BY <1>2, <1>11, <1>12, <1>13, <1>14 DEF Walking

\* Leaving a node keeps it: what it depends on is done or its cycle is named.
LEMMA LeaveKeeps ==
  ASSUME WellBuilt, NEW S, NEW w, NEW v \in Walks, NEW id, NEW k,
         Walking(S, w), Atop(w, id, k), k > Len(deps[id]),
         v.path = Front(w.path), v.next = w.next, v.done = w.done \cup {id}, v.found = w.found
  PROVE  Walking(S, v) /\ id \notin w.done
PROOF
<1> DEFINE p == w.path
           m == Len(p)
<1>1. /\ w \in Walks /\ p \in Seq(Nodes) /\ w.next \in [Ids -> Nat] /\ m \in Nat
      /\ DOMAIN p = 1 .. m /\ Nodes \subseteq Ids
  BY WalkIs, Shape DEF Walking
<1>2. p # <<>> /\ id = p[m] /\ k = w.next[id]
  BY DEF Atop
<1>3. IsPath(p) /\ Elements(p) \subseteq S /\ Elements(p) \cap w.done = {} /\ w.done \subseteq S /\ Once(p)
  BY DEF Walking, OnPath, IsPath
<1>4. m \in Nat \ {0} /\ id \in Nodes /\ id \in Elements(p) /\ id \in Ids
  BY <1>1, <1>2, LastOf
<1>5. /\ Front(p) \in Seq(Nodes) /\ Len(Front(p)) = m - 1 /\ (\A i \in 1 .. m - 1 : Front(p)[i] = p[i])
      /\ Elements(p) = Elements(Front(p)) \cup {id}
      /\ Once(Front(p)) /\ id \notin Elements(Front(p))
  BY <1>1, <1>2, <1>3, FrontIs
<1>6. id \notin w.done
  BY <1>3, <1>4
<1>7. /\ \A x : Named(w, x) => Named(v, x)
      /\ \A x, d : Passed(S, w, x, d) => Passed(S, v, x, d)
  BY PassedStays
<1>8. \A d \in Elements(deps[id]) : Passed(S, w, id, d)
  <2> SUFFICES ASSUME NEW d \in Elements(deps[id]) PROVE Passed(S, w, id, d)
    OBVIOUS
  <2>1. deps[id] \in Seq(Ids) /\ Len(deps[id]) \in Nat
    BY <1>4, Shape
  <2>2. PICK j \in 1 .. Len(deps[id]) : d = deps[id][j]
    BY <2>1 DEF Elements
  <2>3. k \in Nat /\ j < k /\ m \in DOMAIN p
    BY <1>1, <1>2, <1>4, <2>1
  <2>4. Passed(S, w, p[m], deps[p[m]][j]) \/ m < m
    <3>1. j \in 1 .. Len(deps[p[m]]) /\ j < w.next[p[m]]
      BY <1>2, <2>3
    <3> QED  BY <2>3, <3>1 DEF Walking, PathSettled
  <2> QED  BY <1>1, <1>2, <2>2, <2>4
<1> HIDE DEF p, m
<1>9. OnPath(S, v)
  <2>1. IsPath(v.path)
    <3>1. ASSUME NEW i \in 1 .. m - 2 PROVE Front(p)[i + 1] \in Elements(deps[Front(p)[i]])
      <4>1. i \in 1 .. m - 1 /\ i + 1 \in 1 .. m - 1
        BY <1>4
      <4> QED  BY <1>3, <1>5, <4>1 DEF IsPath, m
    <3>2. Len(Front(p)) - 1 = m - 2
      BY <1>4, <1>5
    <3>3. v.path = Front(p)
      BY DEF p
    <3> QED  BY <1>5, <3>1, <3>2, <3>3 DEF IsPath
  <2>2. Elements(v.path) \subseteq S /\ Elements(v.path) \cap v.done = {} /\ v.done \subseteq S
    BY <1>3, <1>4, <1>5 DEF p
  <2>3. ASSUME NEW x \in Nodes
        PROVE  /\ v.next[x] <= Len(deps[x]) + 1
               /\ x \in Elements(v.path) => v.next[x] >= 1
               /\ x \notin Elements(v.path) \cup v.done => v.next[x] = 0
    <3>1. /\ w.next[x] <= Len(deps[x]) + 1
          /\ x \in Elements(p) => w.next[x] >= 1
          /\ x \notin Elements(p) \cup w.done => w.next[x] = 0
      BY DEF Walking, OnPath, p
    <3>2. /\ x \in Elements(v.path) => x \in Elements(p)
          /\ x \notin Elements(v.path) \cup v.done => x \notin Elements(p) \cup w.done
      BY <1>5 DEF p
    <3> QED  BY <3>1, <3>2
  <2> QED  BY <2>1, <2>2, <2>3 DEF OnPath
<1>10. PathSettled(S, v)
  <2> SUFFICES ASSUME NEW i \in 1 .. m - 1, NEW j \in 1 .. Len(deps[p[i]]), j < w.next[p[i]]
               PROVE  \/ Passed(S, v, p[i], deps[p[i]][j])
                      \/ i < m - 1 /\ Front(p)[i + 1] = deps[p[i]][j]
    <3>1. DOMAIN v.path = 1 .. m - 1 /\ Len(v.path) = m - 1 /\ v.path = Front(p)
      BY <1>4, <1>5 DEF p
    <3> QED  BY <1>5, <3>1 DEF PathSettled
  <2>1. i \in DOMAIN p /\ i + 1 \in 1 .. m
    BY <1>1, <1>4
  <2>2. Passed(S, w, p[i], deps[p[i]][j]) \/ (i < m /\ p[i + 1] = deps[p[i]][j])
    BY <2>1 DEF Walking, PathSettled, p, m
  <2>3. CASE Passed(S, w, p[i], deps[p[i]][j])
    BY <1>7, <2>3
  <2>4. CASE p[i + 1] = deps[p[i]][j] /\ i < m - 1
    <3>1. i + 1 \in 1 .. m - 1
      BY <1>4, <2>4
    <3> QED  BY <1>5, <2>4, <3>1
  <2>5. CASE p[i + 1] = deps[p[i]][j] /\ ~(i < m - 1)
    <3>1. i + 1 = m
      BY <1>4, <2>5
    <3>2. deps[p[i]][j] \in v.done
      BY <1>2, <2>5, <3>1 DEF p, m
    <3> QED  BY <3>2 DEF Passed
  <2> QED  BY <2>2, <2>3, <2>4, <2>5
<1>11. DoneSettled(S, v)
  BY <1>7, <1>8 DEF Walking, DoneSettled
<1>12. Grounded(v)
  <2> SUFFICES ASSUME NEW T \in SUBSET v.done, T # {} PROVE \E z \in T : Named(v, z) \/ Elements(deps[z]) \cap T = {}
    BY DEF Grounded
  <2>1. CASE T = {id}
    <3>1. ASSUME id \in Elements(deps[id]) PROVE Named(v, id)
      <4>1. id \notin S \/ id \in w.done \/ Named(w, id)
        BY <1>8, <3>1 DEF Passed
      <4> QED  BY <1>3, <1>4, <1>6, <1>7, <4>1
    <3> QED  BY <2>1, <3>1
  <2>2. CASE T # {id}
    <3> DEFINE U == T \ {id}
    <3>1. U \in SUBSET w.done /\ U # {}
      BY <2>2
    <3>2. PICK z \in U : Named(w, z) \/ Elements(deps[z]) \cap U = {}
      BY <3>1 DEF Walking, Grounded
    <3>3. ASSUME id \in Elements(deps[z]) PROVE Named(w, z)
      <4>1. z \in w.done
        BY <3>1
      <4>2. id \notin S \/ id \in w.done \/ Named(w, z)
        BY <3>3, <4>1 DEF Walking, DoneSettled, Passed
      <4> QED  BY <1>3, <1>4, <1>6, <4>2
    <3> QED  BY <1>7, <3>2, <3>3
  <2> QED  BY <2>1, <2>2
<1> QED  BY <1>6, <1>9, <1>10, <1>11, <1>12 DEF Walking

(***************************************************************************)
(* The turns.                                                              *)
(***************************************************************************)
LEMMA ReportIs ==
  ASSUME WellBuilt, NEW w \in Walks, IsPath(w.path), Once(w.found), NEW id, id = w.path[Len(w.path)],
         NEW d \in Elements(w.path), d \in Elements(deps[id])
  PROVE  \E v \in Walks : /\ report(d, w) = v
                          /\ v.path = w.path /\ v.next = w.next /\ v.done = w.done
                          /\ Elements(w.found) \subseteq Elements(v.found) /\ Once(v.found) /\ Named(v, id)
PROOF
<1> DEFINE p == w.path
           i == CHOOSE i \in DOMAIN p : p[i] = d
           loop == SubSeq(p, i, Len(p))
           cyc == canonicalCycle(loop)
<1>1. i \in DOMAIN p /\ p[i] = d
  <2>1. \E n \in DOMAIN p : p[n] = d
    BY DEF Elements
  <2> QED  BY <2>1
<1>2. IsCycle(loop) /\ p[Len(p)] \in Elements(loop)
  <2> HIDE DEF i
  <2> QED  BY <1>1, ClosingIs
<1>3. IsCycle(cyc) /\ Least(cyc) /\ Elements(cyc) = Elements(loop)
  <2> HIDE DEF loop
  <2> QED  BY <1>2, CanonicalIs
<1>4. report(d, w) = IF \E c \in Elements(w.found) : Texts(c) = Texts(cyc) THEN w ELSE [w EXCEPT !.found = Append(@, cyc)]
  BY DEF report
<1> HIDE DEF cyc, loop, i
<1>5. id \in Elements(cyc)
  BY <1>2, <1>3
<1>6. cyc \in Cycles
  BY <1>3 DEF IsCycle, Cycles
<1>7. CASE \E c \in Elements(w.found) : Texts(c) = Texts(cyc)
  <2>1. PICK c \in Elements(w.found) : Texts(c) = Texts(cyc)
    BY <1>7
  <2>2. PICK n \in DOMAIN cyc : cyc[n] = id
    BY <1>5 DEF Elements
  <2>3. n \in DOMAIN c /\ TextOf[c[n]] = TextOf[id]
    <3>1. DOMAIN Texts(c) = DOMAIN c /\ DOMAIN Texts(cyc) = DOMAIN cyc /\ Texts(cyc)[n] = TextOf[id]
      BY <2>2 DEF Texts
    <3>2. n \in DOMAIN c
      BY <2>1, <3>1
    <3>3. Texts(c)[n] = TextOf[c[n]]
      BY <3>2 DEF Texts
    <3> QED  BY <2>1, <3>1, <3>2, <3>3
  <2>4. Named(w, id)
    BY <2>3 DEF Named, Elements
  <2> QED  BY <1>4, <1>7, <2>4
<1>8. CASE ~\E c \in Elements(w.found) : Texts(c) = Texts(cyc)
  <2>1. cyc \notin Elements(w.found)
    BY <1>8
  <2>2. PICK f : f = Append(w.found, cyc)
    OBVIOUS
  <2>3. f \in Seq(Cycles) /\ Once(f) /\ Elements(f) = Elements(w.found) \cup {cyc}
    BY <1>6, <2>1, <2>2, WalkIs, AppendOnce
  <2>4. PICK v : v = [path |-> w.path, next |-> w.next, done |-> w.done, found |-> f]
    OBVIOUS
  <2>5. v \in Walks /\ v.path = w.path /\ v.next = w.next /\ v.done = w.done /\ v.found = f
    BY <2>3, <2>4, WalkIs DEF Walks
  <2>6. report(d, w) = v
    <3>1. report(d, w) = [w EXCEPT !.found = Append(@, cyc)]
      BY <1>4, <1>8
    <3>2. [w EXCEPT !.found = Append(@, cyc)] = [w EXCEPT !.found = f]
      BY <2>2
    <3>3. w = [path |-> w.path, next |-> w.next, done |-> w.done, found |-> w.found]
      BY WalkIs
    <3>4. [w EXCEPT !.found = f] = [path |-> w.path, next |-> w.next, done |-> w.done, found |-> f]
      BY <3>3
    <3> QED  BY <2>4, <3>1, <3>2, <3>4
  <2>7. Named(v, id)
    BY <1>5, <2>3, <2>5 DEF Named
  <2> QED  BY <2>3, <2>5, <2>6, <2>7
<1> QED  BY <1>7, <1>8

AllDone(S, w) == w.path = <<>> /\ S \subseteq w.done
\* What a turn moves on, and never back.
Ticked(w, v) ==
  /\ w.done \subseteq v.done /\ \A x \in Nodes : w.next[x] <= v.next[x]
  /\ \E x \in Nodes : x \in v.done \ w.done \/ w.next[x] < v.next[x]

\* What visit answers.
LEMMA VisitIs ==
  ASSUME NEW w \in Walks, NEW d \in Nodes, Nodes \subseteq Ids
  PROVE  \E v \in Walks : /\ visit(d, w) = v
                          /\ v.path = Append(w.path, d) /\ v.next = [w.next EXCEPT ![d] = 1]
                          /\ v.done = w.done /\ v.found = w.found
PROOF
<1>1. PICK v : v = [path |-> Append(w.path, d), next |-> [w.next EXCEPT ![d] = 1], done |-> w.done, found |-> w.found]
  OBVIOUS
<1>2. v.path = Append(w.path, d) /\ v.next = [w.next EXCEPT ![d] = 1] /\ v.done = w.done /\ v.found = w.found
  BY <1>1
<1>3. Append(w.path, d) \in Seq(Nodes) /\ [w.next EXCEPT ![d] = 1] \in [Ids -> Nat]
  BY WalkIs
<1>4. v \in Walks
  BY <1>1, <1>3, WalkIs DEF Walks
<1>5. visit(d, w) = [w EXCEPT !.path = Append(@, d), !.next[d] = 1]
  BY DEF visit
<1>6. visit(d, w) = v
  <2>1. w = [path |-> w.path, next |-> w.next, done |-> w.done, found |-> w.found]
    BY WalkIs
  <2>2. [w EXCEPT !.path = Append(@, d), !.next[d] = 1]
        = [path |-> Append(w.path, d), next |-> [w.next EXCEPT ![d] = 1], done |-> w.done, found |-> w.found]
    <3>1. PICK u : u = [w EXCEPT !.path = Append(@, d)]
      OBVIOUS
    <3>2. u = [path |-> Append(w.path, d), next |-> w.next, done |-> w.done, found |-> w.found]
      BY <2>1, <3>1
    <3>5. u.path = Append(w.path, d) /\ u.next = w.next /\ u.done = w.done /\ u.found = w.found
      BY <3>2
    <3>7. u = [path |-> u.path, next |-> u.next, done |-> u.done, found |-> u.found]
      BY <3>2
    <3>6. [u EXCEPT !.next[d] = 1]
          = [path |-> u.path, next |-> [u.next EXCEPT ![d] = 1], done |-> u.done, found |-> u.found]
      BY <3>7
    <3>3. [u EXCEPT !.next[d] = 1]
          = [path |-> Append(w.path, d), next |-> [w.next EXCEPT ![d] = 1], done |-> w.done, found |-> w.found]
      BY <3>5, <3>6
    <3>4. [w EXCEPT !.path = Append(@, d), !.next[d] = 1] = [u EXCEPT !.next[d] = 1]
      BY <3>1
    <3> QED  BY <3>3, <3>4
  <2> QED  BY <1>1, <1>5, <2>2
<1> QED  BY <1>2, <1>4, <1>6

\* A turn with no visit open.
LEMMA RootTurn ==
  ASSUME WellBuilt, NEW S \in SUBSET Nodes, NEW w, Walking(S, w), w.path = <<>>
  PROVE  \E v \in Walks : walk(w, S) = v /\ Walking(S, v) /\ IF AllDone(S, w) THEN v = w ELSE Ticked(w, v)
PROOF
<1> DEFINE unseen == InOrder(S \ w.done)
<1>1. w \in Walks /\ Nodes \subseteq Ids /\ w.next \in [Ids -> Nat]
  BY WalkIs, Shape DEF Walking
<1>2. walk(w, S) = IF unseen = <<>> THEN w ELSE visit(unseen[1], w)
  BY DEF walk
<1>3. CASE unseen = <<>>
  <2>1. (S \ w.done) \cap Nodes = {}
    BY <1>3, NoneIs
  <2>2. AllDone(S, w)
    BY <2>1 DEF AllDone
  <2> QED  BY <1>1, <1>2, <1>3, <2>2
<1>4. CASE unseen # <<>>
  <2>1. PICK d : d = unseen[1] /\ d \in (S \ w.done) \cap Nodes
    BY <1>4, FirstIs
  <2>2. PICK v \in Walks : /\ visit(d, w) = v
                           /\ v.path = Append(w.path, d) /\ v.next = [w.next EXCEPT ![d] = 1]
                           /\ v.done = w.done /\ v.found = w.found
    BY <1>1, <2>1, VisitIs
  <2>3. v.next[d] = 1 /\ \A x \in Nodes \ {d} : v.next[x] = w.next[x]
    BY <1>1, <2>1, <2>2
  <2>4. Elements(w.path) = {}
    BY EmptyElements
  <2>5. Entered(w, v, d)
    BY <2>2, <2>3 DEF Entered
  <2>6. Walking(S, v)
    BY <2>1, <2>4, <2>5, EnterKeeps
  <2>7. w.next[d] = 0
    BY <2>1, <2>4 DEF Walking, OnPath
  <2>8. Ticked(w, v)
    <3>1. \A x \in Nodes : w.next[x] <= v.next[x]
      BY <1>1, <2>3, <2>7
    <3>2. w.next[d] < v.next[d]
      BY <2>3, <2>7
    <3> QED  BY <2>1, <2>2, <3>1, <3>2 DEF Ticked
  <2>9. ~AllDone(S, w)
    BY <2>1 DEF AllDone
  <2>10. walk(w, S) = v
    BY <1>2, <1>4, <2>1, <2>2
  <2> QED  BY <2>6, <2>8, <2>9, <2>10
<1> QED  BY <1>3, <1>4

\* A turn that leaves its node.
LEMMA LeaveTurn ==
  ASSUME WellBuilt, NEW S \in SUBSET Nodes, NEW w, Walking(S, w), NEW id, NEW k, Atop(w, id, k), k > Len(deps[id])
  PROVE  \E v \in Walks : leave(id, w) = v /\ Walking(S, v) /\ Ticked(w, v)
PROOF
<1>1. w \in Walks /\ Nodes \subseteq Ids /\ w.next \in [Ids -> Nat] /\ w.path # <<>>
  BY WalkIs, Shape DEF Walking, Atop
<1>2. id \in Nodes
  BY <1>1, LastOf DEF Atop
<1>3. PICK v : v = [path |-> Front(w.path), next |-> w.next, done |-> w.done \cup {id}, found |-> w.found]
  OBVIOUS
<1>4. v.path = Front(w.path) /\ v.next = w.next /\ v.done = w.done \cup {id} /\ v.found = w.found
  BY <1>3
<1>5. Front(w.path) \in Seq(Nodes) /\ w.done \cup {id} \in SUBSET Nodes
  BY <1>1, <1>2, WalkIs, FrontIs
<1>6. v \in Walks
  BY <1>1, <1>3, <1>5, WalkIs DEF Walks
<1>7. leave(id, w) = [w EXCEPT !.path = Front(@), !.done = @ \cup {id}]
  BY DEF leave
<1>8. leave(id, w) = v
  BY <1>1, <1>3, <1>7, WalkIs
<1>9. Walking(S, v) /\ id \notin w.done
  BY <1>4, <1>6, LeaveKeeps
<1>10. Ticked(w, v)
  BY <1>1, <1>2, <1>4, <1>9 DEF Ticked
<1> QED  BY <1>6, <1>8, <1>9, <1>10

\* A turn that looks at an edge: skips it, reports a cycle, or follows it.
LEMMA LookTurn ==
  ASSUME WellBuilt, NEW S \in SUBSET Nodes, NEW w, Walking(S, w), NEW id, NEW k, Atop(w, id, k), k <= Len(deps[id])
  PROVE  \E v \in Walks : /\ consider(deps[id][k], [w EXCEPT !.next[id] = k + 1], S) = v
                          /\ Walking(S, v) /\ Ticked(w, v)
PROOF
<1>1. /\ w \in Walks /\ Nodes \subseteq Ids /\ w.next \in [Ids -> Nat] /\ w.path # <<>>
      /\ id = w.path[Len(w.path)] /\ k = w.next[id]
  BY WalkIs, Shape DEF Walking, Atop
<1>2. id \in Nodes /\ id \in Elements(w.path) /\ id \in Ids
  BY <1>1, LastOf
<1>3. k \in Nat /\ k >= 1 /\ deps[id] \in Seq(Ids) /\ Len(deps[id]) \in Nat /\ Elements(deps[id]) \subseteq Nodes
  BY <1>1, <1>2, Shape DEF Walking, OnPath
<1>4. PICK d : d = deps[id][k]
  OBVIOUS
<1>5. d \in Elements(deps[id]) /\ d \in Nodes
  <2>1. k \in DOMAIN deps[id]
    BY <1>3
  <2> QED  BY <1>3, <1>4, <2>1 DEF Elements
<1>6. PICK u : u = [path |-> w.path, next |-> [w.next EXCEPT ![id] = k + 1], done |-> w.done, found |-> w.found]
  OBVIOUS
<1>7. u.path = w.path /\ u.next = [w.next EXCEPT ![id] = k + 1] /\ u.done = w.done /\ u.found = w.found
  BY <1>6
<1>8. [w.next EXCEPT ![id] = k + 1] \in [Ids -> Nat]
  <2>1. k + 1 \in Nat
    BY <1>3
  <2> QED  BY <1>1, <2>1
<1>9. u \in Walks
  BY <1>1, <1>6, <1>8, WalkIs DEF Walks
<1>10. [w EXCEPT !.next[id] = k + 1] = u
  <2>1. w = [path |-> w.path, next |-> w.next, done |-> w.done, found |-> w.found]
    BY <1>1, WalkIs
  <2>2. [w EXCEPT !.next[id] = k + 1]
        = [path |-> w.path, next |-> [w.next EXCEPT ![id] = k + 1], done |-> w.done, found |-> w.found]
    BY <2>1
  <2> QED  BY <1>6, <2>2
<1>11. consider(d, u, S) = IF d \notin S \/ d \in u.done THEN u ELSE IF d \in Elements(u.path) THEN report(d, u) ELSE visit(d, u)
  BY DEF consider
<1>12. ASSUME NEW v \in Walks, v.done = w.done, v.next = u.next PROVE Ticked(w, v)
  <2>1. \A x \in Nodes : w.next[x] <= v.next[x]
    BY <1>1, <1>3, <1>7, <1>12
  <2>2. w.next[id] < v.next[id]
    BY <1>1, <1>2, <1>3, <1>7, <1>12
  <2> QED  BY <1>2, <1>12, <2>1, <2>2 DEF Ticked
<1>13. CASE d \notin S \/ d \in u.done
  <2>1. Looked(w, u, id, k)
    BY <1>7 DEF Looked, Walking
  <2>2. Passed(S, u, id, deps[id][k])
    BY <1>4, <1>13 DEF Passed
  <2>3. Walking(S, u)
    BY <1>9, <2>1, <2>2, LookKeeps
  <2> QED  BY <1>4, <1>7, <1>9, <1>10, <1>11, <1>12, <1>13, <2>3
<1>14. CASE ~(d \notin S \/ d \in u.done) /\ d \in Elements(u.path)
  <2>1. IsPath(u.path) /\ Once(u.found) /\ id = u.path[Len(u.path)]
    BY <1>1, <1>7 DEF Walking, OnPath
  <2>2. PICK v \in Walks : /\ report(d, u) = v
                           /\ v.path = u.path /\ v.next = u.next /\ v.done = u.done
                           /\ Elements(u.found) \subseteq Elements(v.found) /\ Once(v.found) /\ Named(v, id)
    BY <1>5, <1>9, <1>14, <2>1, ReportIs
  <2>3. Looked(w, v, id, k)
    BY <1>7, <2>2 DEF Looked
  <2>4. Passed(S, v, id, deps[id][k])
    BY <2>2 DEF Passed
  <2>5. Walking(S, v)
    BY <2>3, <2>4, LookKeeps
  <2> QED  BY <1>4, <1>7, <1>10, <1>11, <1>12, <1>14, <2>2, <2>5
<1>15. CASE ~(d \notin S \/ d \in u.done) /\ d \notin Elements(u.path)
  <2>1. PICK v \in Walks : /\ visit(d, u) = v
                           /\ v.path = Append(u.path, d) /\ v.next = [u.next EXCEPT ![d] = 1]
                           /\ v.done = u.done /\ v.found = u.found
    BY <1>1, <1>5, <1>9, VisitIs
  <2>2. d # id
    BY <1>2, <1>7, <1>15
  <2>3. v.next[d] = 1 /\ v.next[id] = k + 1 /\ \A x \in Nodes \ {d, id} : v.next[x] = w.next[x]
    BY <1>1, <1>2, <1>5, <1>7, <2>1, <2>2
  <2>4. Entered(w, v, d)
    BY <1>4, <1>7, <2>1, <2>3 DEF Entered
  <2>5. d \in S \cap Nodes /\ d \notin w.done /\ d \notin Elements(w.path)
    BY <1>5, <1>7, <1>15
  <2>6. Walking(S, v)
    BY <2>4, <2>5, EnterKeeps
  <2>7. w.next[d] = 0
    BY <1>5, <2>5 DEF Walking, OnPath
  <2>8. Ticked(w, v)
    <3>1. ASSUME NEW x \in Nodes PROVE w.next[x] <= v.next[x]
      BY <1>1, <1>3, <2>3, <2>7
    <3>2. w.next[d] < v.next[d]
      BY <2>3, <2>7
    <3> QED  BY <1>5, <1>7, <2>1, <3>1, <3>2 DEF Ticked
  <2> QED  BY <1>4, <1>10, <1>11, <1>15, <2>1, <2>6, <2>8
<1> QED  BY <1>13, <1>14, <1>15

\* A turn keeps the invariant, and takes a step unless all is done.
LEMMA TurnIs ==
  ASSUME WellBuilt, NEW S \in SUBSET Nodes, NEW w, Walking(S, w)
  PROVE  \E v \in Walks : walk(w, S) = v /\ Walking(S, v) /\ IF AllDone(S, w) THEN v = w ELSE Ticked(w, v)
PROOF
<1>1. CASE w.path = <<>>
  BY <1>1, RootTurn
<1>2. CASE w.path # <<>>
  <2>1. PICK id, k : id = w.path[Len(w.path)] /\ k = w.next[id] /\ Atop(w, id, k)
    BY <1>2 DEF Atop
  <2>2. walk(w, S) = IF k > Len(deps[id]) THEN leave(id, w)
                     ELSE consider(deps[id][k], [w EXCEPT !.next[id] = k + 1], S)
    BY <1>2, <2>1 DEF walk
  <2>3. ~AllDone(S, w)
    BY <1>2 DEF AllDone
  <2>4. k \in Nat /\ Len(deps[id]) \in Nat
    <3>1. w \in Walks /\ Nodes \subseteq Ids /\ w.next \in [Ids -> Nat]
      BY WalkIs, Shape DEF Walking
    <3>2. id \in Ids
      BY <1>2, <2>1, <3>1, LastOf
    <3> QED  BY <2>1, <3>1, <3>2, Shape
  <2>5. CASE k > Len(deps[id])
    <3>1. PICK v \in Walks : leave(id, w) = v /\ Walking(S, v) /\ Ticked(w, v)
      BY <2>1, <2>5, LeaveTurn
    <3> QED  BY <2>2, <2>3, <2>5, <3>1
  <2>6. CASE ~(k > Len(deps[id]))
    <3>1. k <= Len(deps[id])
      BY <2>4, <2>6
    <3>2. PICK v \in Walks : /\ consider(deps[id][k], [w EXCEPT !.next[id] = k + 1], S) = v
                             /\ Walking(S, v) /\ Ticked(w, v)
      BY <2>1, <3>1, LookTurn
    <3> QED  BY <2>2, <2>3, <2>6, <3>2
  <2> QED  BY <2>5, <2>6
<1> QED  BY <1>1, <1>2

\* The steps that have been taken: each look at an edge or past the last one, and each node done.
Steps == Nodes \X (0 .. Len(order) + 1)
Taken(w) == {t \in Steps : (t[2] = 0 /\ t[1] \in w.done) \/ (1 <= t[2] /\ t[2] <= w.next[t[1]])}
Advanced(S, n, w) == AllDone(S, w) \/ n <= Cardinality(Taken(w))

\* There are as many steps as turns.
LEMMA StepsCount ==
  ASSUME WellBuilt
  PROVE  IsFiniteSet(Steps) /\ Cardinality(Steps) = MaxTurns
PROOF
<1> DEFINE n == Len(order)
           range == 0 .. n + 1
<1>1. n \in Nat /\ IsFiniteSet(Nodes) /\ Cardinality(Nodes) = n
  BY Shape
<1>2. IsFiniteSet(range) /\ Cardinality(range) = n + 2
  <2>1. 0 \in Int /\ n + 1 \in Int /\ ~(0 > n + 1) /\ n + 1 - 0 + 1 = n + 2
    BY <1>1
  <2>2. IsFiniteSet(range) /\ Cardinality(range) = IF 0 > n + 1 THEN 0 ELSE n + 1 - 0 + 1
    BY <2>1, FS_Interval
  <2> QED  BY <2>1, <2>2
<1> HIDE DEF range
<1>3. IsFiniteSet(Nodes \X range) /\ Cardinality(Nodes \X range) = Cardinality(Nodes) * Cardinality(range)
  BY <1>1, <1>2, FS_Product
<1>4. Steps = Nodes \X range
  BY DEF Steps, range
<1> QED  BY <1>1, <1>2, <1>3, <1>4 DEF MaxTurns

\* A turn that takes a step leaves one fewer.
LEMMA TickCounts ==
  ASSUME WellBuilt, NEW S, NEW w, NEW v, Walking(S, w), Walking(S, v), Ticked(w, v)
  PROVE  Cardinality(Taken(w)) \in Nat /\ Cardinality(Taken(v)) \in Nat /\ Cardinality(Taken(w)) + 1 <= Cardinality(Taken(v))
PROOF
<1>1. /\ \A x \in Nodes : w.next[x] \in Nat /\ v.next[x] \in Nat
      /\ Nodes \subseteq Ids
  <2>1. w.next \in [Ids -> Nat] /\ v.next \in [Ids -> Nat] /\ Nodes \subseteq Ids
    BY WalkIs, Shape DEF Walking
  <2> QED  BY <2>1
<1>2. \A x \in Nodes : v.next[x] <= Len(order) + 1
  <2> SUFFICES ASSUME NEW x \in Nodes PROVE v.next[x] <= Len(order) + 1
    OBVIOUS
  <2>1. v.next[x] <= Len(deps[x]) + 1
    BY DEF Walking, OnPath
  <2>2. Len(deps[x]) \in Nat /\ Len(deps[x]) <= Len(order) /\ Len(order) \in Nat
    BY <1>1, Shape
  <2> QED  BY <1>1, <2>1, <2>2
<1>3. Taken(w) \subseteq Taken(v)
  <2> SUFFICES ASSUME NEW t \in Taken(w) PROVE t \in Taken(v)
    OBVIOUS
  <2>1. t \in Steps /\ t[1] \in Nodes /\ t[2] \in 0 .. Len(order) + 1
    BY DEF Taken, Steps
  <2>2. CASE t[2] = 0 /\ t[1] \in w.done
    BY <2>1, <2>2 DEF Taken, Ticked
  <2>3. CASE 1 <= t[2] /\ t[2] <= w.next[t[1]]
    <3>1. w.next[t[1]] <= v.next[t[1]]
      BY <2>1 DEF Ticked
    <3>2. t[2] <= v.next[t[1]]
      BY <1>1, <2>1, <2>3, <3>1
    <3> QED  BY <2>1, <2>3, <3>2 DEF Taken
  <2> QED  BY <2>2, <2>3 DEF Taken
<1>4. \E t \in Taken(v) : t \notin Taken(w)
  <2>1. PICK x \in Nodes : x \in v.done \ w.done \/ w.next[x] < v.next[x]
    BY DEF Ticked
  <2>2. Len(order) \in Nat
    BY Shape
  <2>3. CASE x \in v.done \ w.done
    <3>1. PICK t : t = <<x, 0>>
      OBVIOUS
    <3>2. t \in Steps /\ t[1] = x /\ t[2] = 0
      BY <2>2, <3>1 DEF Steps
    <3> QED  BY <2>3, <3>2 DEF Taken
  <2>4. CASE w.next[x] < v.next[x]
    <3>1. PICK t : t = <<x, v.next[x]>>
      OBVIOUS
    <3>2. t[1] = x /\ t[2] = v.next[x] /\ 1 <= t[2] /\ ~(t[2] <= w.next[x]) /\ t[2] # 0
      BY <1>1, <2>4, <3>1
    <3>3. t \in Steps
      BY <1>1, <1>2, <2>2, <3>1 DEF Steps
    <3>4. t \in Taken(v)
      BY <1>1, <3>2, <3>3 DEF Taken
    <3>5. t \notin Taken(w)
      BY <3>2 DEF Taken
    <3> QED  BY <3>4, <3>5
  <2> QED  BY <2>1, <2>3, <2>4
<1>5. Taken(v) \in SUBSET Steps /\ IsFiniteSet(Steps)
  BY StepsCount DEF Taken
<1>6. IsFiniteSet(Taken(v)) /\ Cardinality(Taken(v)) \in Nat
  BY <1>5, FS_Subset, FS_CardinalityType
<1>7. IsFiniteSet(Taken(w)) /\ Cardinality(Taken(w)) \in Nat /\ Cardinality(Taken(w)) <= Cardinality(Taken(v))
      /\ Cardinality(Taken(v)) # Cardinality(Taken(w))
  BY <1>3, <1>4, <1>6, FS_Subset, FS_CardinalityType
<1> QED  BY <1>6, <1>7

\* After all the turns the walk is over.
LEMMA AllTaken ==
  ASSUME WellBuilt, NEW S \in SUBSET Nodes, NEW w, Walking(S, w), Advanced(S, MaxTurns, w)
  PROVE  AllDone(S, w)
PROOF
<1> SUFFICES ASSUME MaxTurns <= Cardinality(Taken(w)) PROVE AllDone(S, w)
  BY DEF Advanced
<1>1. Taken(w) \in SUBSET Steps /\ IsFiniteSet(Steps) /\ Cardinality(Steps) = MaxTurns /\ MaxTurns \in Nat
  BY StepsCount, Shape DEF Taken
<1>2. Cardinality(Taken(w)) <= Cardinality(Steps) /\ IsFiniteSet(Taken(w)) /\ Cardinality(Taken(w)) \in Nat
  BY <1>1, FS_Subset, FS_CardinalityType
<1>3. Cardinality(Steps) = Cardinality(Taken(w))
  BY <1>1, <1>2
<1>4. Steps = Taken(w)
  BY <1>1, <1>3, FS_Subset
<1>5. \A x \in Nodes : x \in w.done
  <2> SUFFICES ASSUME NEW x \in Nodes PROVE x \in w.done
    OBVIOUS
  <2>1. PICK t : t = <<x, 0>>
    OBVIOUS
  <2>2. t \in Steps /\ t[1] = x /\ t[2] = 0
    BY <2>1, Shape DEF Steps
  <2>3. t \in Taken(w)
    BY <1>4, <2>2
  <2> QED  BY <2>2, <2>3 DEF Taken
<1>6. w.path = <<>>
  <2>1. w \in Walks /\ Elements(w.path) \cap w.done = {}
    BY DEF Walking, OnPath
  <2> QED  BY <1>5, <2>1, LastOf
<1> QED  BY <1>5, <1>6 DEF AllDone

\* The walk begins with the invariant.
LEMMA NoWalkIs == ASSUME WellBuilt, NEW S PROVE Walking(S, NoWalk) /\ Advanced(S, 0, NoWalk)
PROOF
<1>1. PICK w : w = [path |-> <<>>, next |-> [x \in Ids |-> 0], done |-> {}, found |-> <<>>]
  OBVIOUS
<1>2. w.path = <<>> /\ w.next = [x \in Ids |-> 0] /\ w.done = {} /\ w.found = <<>> /\ NoWalk = w
  BY <1>1 DEF NoWalk
<1>3. w \in Walks
  BY <1>1 DEF Walks
<1>4. DOMAIN w.path = {} /\ Elements(w.path) = {} /\ Once(w.found)
  BY <1>2, EmptyElements DEF Once
<1>5. IsPath(w.path)
  BY <1>2 DEF IsPath, Once
<1>6. OnPath(S, w)
  <2>1. \A x \in Nodes : x \in Ids /\ w.next[x] = 0 /\ Len(deps[x]) \in Nat
    BY <1>2, Shape
  <2> QED  BY <1>2, <1>4, <1>5, <2>1 DEF OnPath
<1>7. PathSettled(S, w) /\ DoneSettled(S, w) /\ Grounded(w)
  BY <1>2, <1>4 DEF PathSettled, DoneSettled, Grounded
<1>8. 0 <= Cardinality(Taken(w))
  <2>1. Taken(w) \in SUBSET Steps
    BY DEF Taken
  <2>2. Cardinality(Taken(w)) \in Nat
    BY <2>1, StepsCount, FS_Subset, FS_CardinalityType
  <2> QED  BY <2>2
<1> QED  BY <1>2, <1>3, <1>4, <1>6, <1>7, <1>8 DEF Walking, Advanced

IsWalking(S, f) == f = [n \in 0 .. MaxTurns |-> IF n = 0 THEN NoWalk ELSE walk(f[n - 1], S)]

\* The loop of cyclesAmong is a function.
LEMMA WalkRuns ==
  ASSUME WellBuilt, NEW S \in SUBSET Nodes
  PROVE  \E f : IsWalking(S, f) /\ cyclesAmong(S) = f[MaxTurns].found
PROOF
<1> DEFINE A == {w \in Walks : Walking(S, w)}
           body == [k \in 1 .. MaxTurns |-> [w \in A |-> walk(w, S)]]
<1>1. MaxTurns \in Nat /\ NoWalk \in A
  BY NoWalkIs, Shape DEF Walking
<1>2. body \in [1 .. MaxTurns -> [A -> A]]
  <2>1. \A w \in A : walk(w, S) \in A
    BY TurnIs
  <2> HIDE DEF A
  <2> QED  BY <2>1
<1>3. PICK f \in [0 .. MaxTurns -> A] : IsLoop(f, MaxTurns, NoWalk, body)
  <2> HIDE DEF body, A
  <2> QED  BY <1>1, <1>2, LoopRuns
<1> HIDE DEF A
<1>4. ASSUME NEW n \in 0 .. MaxTurns PROVE f[n] = IF n = 0 THEN NoWalk ELSE walk(f[n - 1], S)
  <2>1. f[n] = IF n = 0 THEN NoWalk ELSE body[n][f[n - 1]]
    BY <1>3 DEF IsLoop
  <2>2. n # 0 => n \in 1 .. MaxTurns /\ f[n - 1] \in A
    BY <1>1
  <2> QED  BY <2>1, <2>2
<1>5. IsWalking(S, f)
  BY <1>3, <1>4 DEF IsWalking, IsLoop
<1>6. cyclesAmong(S) = (CHOOSE g : IsWalking(S, g))[MaxTurns].found
  BY DEF cyclesAmong, IsWalking
<1>7. PICK g : g = (CHOOSE h : IsWalking(S, h)) /\ IsWalking(S, g)
  BY <1>5
<1> QED  BY <1>6, <1>7

\* The walk leaves every node of its scope, and the loop has turns enough for it.
LEMMA WalkEnds ==
  ASSUME WellBuilt, NEW S \in SUBSET Nodes
  PROVE  \E w : cyclesAmong(S) = w.found /\ Walking(S, w) /\ S = w.done
PROOF
<1>1. PICK f : IsWalking(S, f) /\ cyclesAmong(S) = f[MaxTurns].found
  BY WalkRuns
<1> DEFINE M == MaxTurns
           T == [n \in 0 .. M |-> {w \in Walks : Walking(S, w) /\ Advanced(S, n, w)}]
<1>2. M \in Nat
  BY Shape
<1>3. f[0] \in T[0]
  <2>1. f[0] = NoWalk
    BY <1>1, <1>2 DEF IsWalking
  <2> QED  BY <1>2, <2>1, NoWalkIs DEF Walking
<1>4. ASSUME NEW n \in 1 .. M, f[n - 1] \in T[n - 1] PROVE f[n] \in T[n]
  <2>1. n - 1 \in 0 .. M /\ n \in 0 .. M /\ n - 1 \in Nat /\ n - 1 + 1 = n
    BY <1>2
  <2>2. PICK w : w = f[n - 1] /\ Walking(S, w) /\ Advanced(S, n - 1, w)
    BY <1>4, <2>1
  <2>3. f[n] = walk(w, S)
    <3>1. f[n] = IF n = 0 THEN NoWalk ELSE walk(f[n - 1], S)
      BY <1>1, <2>1 DEF IsWalking
    <3> QED  BY <2>2, <3>1
  <2>4. PICK v \in Walks : walk(w, S) = v /\ Walking(S, v) /\ IF AllDone(S, w) THEN v = w ELSE Ticked(w, v)
    BY <2>2, TurnIs
  <2>5. Advanced(S, n, v)
    <3>1. CASE AllDone(S, w)
      BY <2>4, <3>1 DEF Advanced
    <3>2. CASE ~AllDone(S, w)
      <4>1. /\ Cardinality(Taken(w)) \in Nat /\ Cardinality(Taken(v)) \in Nat
            /\ Cardinality(Taken(w)) + 1 <= Cardinality(Taken(v))
        BY <2>2, <2>4, <3>2, TickCounts
      <4>2. n - 1 <= Cardinality(Taken(w))
        BY <2>2, <3>2 DEF Advanced
      <4>3. n <= Cardinality(Taken(v))
        BY <2>1, <4>1, <4>2
      <4> QED  BY <4>3 DEF Advanced
    <3> QED  BY <3>1, <3>2
  <2> QED  BY <2>1, <2>3, <2>4, <2>5
<1> HIDE DEF T, M
<1>5. f[M] \in T[M]
  BY <1>2, <1>3, <1>4, LoopKeeps
<1>6. PICK w : w = f[M] /\ Walking(S, w) /\ Advanced(S, M, w)
  BY <1>2, <1>5 DEF T
<1>7. AllDone(S, w)
  BY <1>6, AllTaken DEF M
<1>8. w.done \subseteq S
  BY <1>6 DEF Walking, OnPath
<1>9. S = w.done
  BY <1>7, <1>8 DEF AllDone
<1>10. cyclesAmong(S) = w.found
  BY <1>1, <1>6 DEF M
<1> QED  BY <1>6, <1>9, <1>10

(***************************************************************************)
(* CyclesNamed and TreesAreTrees.                                          *)
(***************************************************************************)
\* What a node reaches it reaches by one of its dependencies.
LEMMA ReachFirst ==
  ASSUME WellBuilt, NEW z \in Ids, NEW y \in Reach(z)
  PROVE  \E d \in Elements(deps[z]) : y = d \/ y \in Reach(d)
PROOF
<1> DEFINE S == {n \in Nodes : \E d \in Elements(deps[z]) : n = d \/ n \in Reach(d)}
<1>1. Elements(deps[z]) \subseteq Nodes /\ Nodes \subseteq Ids
  BY Shape
<1>2. Closed(S)
  <2> SUFFICES ASSUME NEW n \in S, NEW e \in Elements(deps[n]) PROVE e \in S
    BY DEF Closed
  <2>1. PICK d \in Elements(deps[z]) : n = d \/ n \in Reach(d)
    OBVIOUS
  <2>2. Elements(deps[d]) \subseteq Reach(d) /\ Closed(Reach(d)) /\ Reach(d) \subseteq Nodes
    BY <1>1, ReachHolds
  <2>3. e \in Reach(d)
    BY <2>1, <2>2 DEF Closed
  <2> QED  BY <2>2, <2>3
<1>3. Elements(deps[z]) \subseteq S /\ S \subseteq Nodes
  BY <1>1
<1> HIDE DEF S
<1>4. Reach(z) \subseteq S
  BY <1>2, <1>3, ReachLeast
<1> QED  BY <1>4 DEF S

\* What a node shares its cycles with: every node of it has a dependency in it.
Tangle(x) == {y \in Reach(x) : x \in Reach(y)}

\* A node on a cycle shares its tangle with itself.
LEMMA TangleTurns ==
  ASSUME WellBuilt, NEW x \in Nodes, x \in Reach(x)
  PROVE  /\ Tangle(x) \subseteq Nodes /\ x \in Tangle(x) /\ \A z \in Tangle(x) : z \in Reach(z)
         /\ \A z \in Tangle(x) : \E d \in Elements(deps[z]) : d \in Tangle(x)
PROOF
<1>1. x \in Ids /\ Nodes \subseteq Ids /\ Reach(x) \subseteq Nodes /\ Closed(Reach(x))
  BY Shape, ReachHolds
<1>2. ASSUME NEW z \in Tangle(x) PROVE z \in Reach(z) /\ \E d \in Elements(deps[z]) : d \in Tangle(x)
  <2>1. z \in Reach(x) /\ x \in Reach(z) /\ z \in Ids
    BY <1>1 DEF Tangle
  <2>2. Reach(x) \subseteq Reach(z)
    BY <2>1, ReachOnward
  <2>3. PICK d \in Elements(deps[z]) : x = d \/ x \in Reach(d)
    BY <2>1, ReachFirst
  <2>4. d \in Reach(x)
    BY <1>1, <2>1 DEF Closed
  <2> QED  BY <2>1, <2>2, <2>3, <2>4 DEF Tangle
<1> QED  BY <1>1, <1>2 DEF Tangle

\* A tangle within what is done has a node that is named.
LEMMA TangleNamed ==
  ASSUME WellBuilt, NEW S, NEW w, Walking(S, w), S = w.done, NEW x \in Nodes, x \in Reach(x), Tangle(x) \subseteq S
  PROVE  \E z \in Tangle(x) : Named(w, z)
PROOF
<1>1. x \in Tangle(x) /\ \A z \in Tangle(x) : \E d \in Elements(deps[z]) : d \in Tangle(x)
  BY TangleTurns
<1>2. PICK T : T = Tangle(x) /\ T \in SUBSET w.done /\ T # {}
  BY <1>1
<1>3. PICK z \in T : Named(w, z) \/ Elements(deps[z]) \cap T = {}
  BY <1>2 DEF Walking, Grounded
<1>4. \E d \in Elements(deps[z]) : d \in T
  BY <1>1, <1>2
<1> QED  BY <1>2, <1>3, <1>4

\* No two ids have one text.
DistinctTexts == \A x, y \in Ids : TextOf[x] = TextOf[y] => x = y

\* A reported cycle begins with one of its nodes.
LEMMA CycleFirst ==
  ASSUME NEW c \in Cycles
  PROVE  IsCycle(c) /\ Least(c) /\ c[1] \in Elements(c) /\ Elements(c) \subseteq Nodes
PROOF
<1>1. c \in Seq(Nodes) /\ c # <<>> /\ IsCycle(c) /\ Least(c)
  BY DEF Cycles, IsCycle
<1>2. 1 \in DOMAIN c
  BY <1>1, EmptySeq
<1> QED  BY <1>1, <1>2 DEF Elements

\* CyclesNamed, for one scope.
LEMMA CyclesOf ==
  ASSUME WellBuilt, DistinctTexts, NEW S \in SUBSET Nodes, \A x \in Nodes : x \in Reach(x) => x \in S
  PROVE  LET found == cyclesAmong(S)
             After(c, i) == IF i < Len(c) THEN c[i + 1] ELSE c[1]
         IN  /\ Once(found)
             /\ \A c \in Elements(found) :
                  /\ Once(c)
                  /\ \A i \in DOMAIN c : After(c, i) \in Elements(deps[c[i]]) /\ TextOf[c[1]] <= TextOf[c[i]]
             /\ \A x \in {n \in Nodes : n \in Reach(n)} :
                  \E c \in Elements(found) : c[1] \in Reach(x) /\ x \in Reach(c[1])
PROOF
<1>1. PICK w : cyclesAmong(S) = w.found /\ Walking(S, w) /\ S = w.done
  BY WalkEnds
<1>2. Once(w.found) /\ Elements(w.found) \subseteq Cycles
  <2>1. w.found \in Seq(Cycles) /\ Once(w.found)
    BY <1>1, WalkIs DEF Walking
  <2> QED  BY <2>1 DEF Elements
<1>3. ASSUME NEW c \in Elements(w.found)
      PROVE  /\ Once(c)
             /\ \A i \in DOMAIN c : (IF i < Len(c) THEN c[i + 1] ELSE c[1]) \in Elements(deps[c[i]])
                                    /\ TextOf[c[1]] <= TextOf[c[i]]
  <2>1. IsCycle(c) /\ Least(c)
    BY <1>2, CycleFirst
  <2> QED  BY <2>1 DEF IsCycle, Least, Next1
<1>4. ASSUME NEW x \in Nodes, x \in Reach(x)
      PROVE  \E c \in Elements(w.found) : c[1] \in Reach(x) /\ x \in Reach(c[1])
  <2>1. Nodes \subseteq Ids /\ Tangle(x) \subseteq S
    BY <1>4, Shape, TangleTurns
  <2>2. PICK z \in Tangle(x) : Named(w, z)
    BY <1>1, <1>4, <2>1, TangleNamed
  <2>3. PICK c \in Elements(w.found) : \E y \in Elements(c) : TextOf[y] = TextOf[z]
    BY <2>2 DEF Named
  <2>4. IsCycle(c) /\ c[1] \in Elements(c) /\ Elements(c) \subseteq Nodes
    BY <1>2, CycleFirst
  <2>5. z \in Elements(c)
    BY <2>1, <2>3, <2>4 DEF DistinctTexts
  <2>6. Elements(c) \subseteq Reach(z) /\ Elements(c) \subseteq Reach(c[1])
    BY <2>4, <2>5, CycleReaches
  <2>7. Reach(z) \subseteq Reach(x) /\ x \in Reach(z)
    BY <2>1, ReachOnward DEF Tangle
  <2>8. Reach(z) \subseteq Reach(c[1])
    BY <2>1, <2>4, <2>5, <2>6, ReachOnward
  <2> QED  BY <2>4, <2>6, <2>7, <2>8
<1> QED  BY <1>1, <1>2, <1>3, <1>4

LEMMA CyclesAllNamed == ASSUME WellBuilt, DistinctTexts PROVE CyclesNamed
PROOF
<1>1. frontiers.undrained = Trapped
  BY UndrainedTrapped
<1>2. \A x \in Nodes : x \in Reach(x) => x \in Trapped
  BY DEF Trapped
<1>3. Trapped \in SUBSET Nodes /\ Nodes \in SUBSET Nodes
  BY DEF Trapped
<1>4. ASSUME NEW S \in {Nodes, frontiers.undrained}
      PROVE  LET found == cyclesAmong(S)
                 After(c, i) == IF i < Len(c) THEN c[i + 1] ELSE c[1]
             IN  /\ Once(found)
                 /\ \A c \in Elements(found) :
                      /\ Once(c)
                      /\ \A i \in DOMAIN c : After(c, i) \in Elements(deps[c[i]]) /\ TextOf[c[1]] <= TextOf[c[i]]
                 /\ \A x \in {n \in Nodes : n \in Reach(n)} :
                      \E c \in Elements(found) : c[1] \in Reach(x) /\ x \in Reach(c[1])
  <2>1. S \in SUBSET Nodes /\ \A x \in Nodes : x \in Reach(x) => x \in S
    BY <1>1, <1>2, <1>3
  <2> QED  BY <2>1, CyclesOf
<1> QED  BY <1>4 DEF CyclesNamed

\* DetectCycles is empty over graphs without a cycle, and over no others.
LEMMA NoCycleFound == ASSUME WellBuilt PROVE DetectCycles = <<>> <=> \A x \in Nodes : x \notin Reach(x)
PROOF
<1>1. PICK w : cyclesAmong(Nodes) = w.found /\ Walking(Nodes, w) /\ Nodes = w.done
  BY WalkEnds
<1>2. w.found \in Seq(Cycles)
  BY <1>1, WalkIs DEF Walking
<1>3. ASSUME NEW x \in Nodes, x \in Reach(x) PROVE w.found # <<>>
  <2>1. \E z \in Tangle(x) : Named(w, z)
    BY <1>1, <1>3, TangleTurns, TangleNamed
  <2> QED  BY <2>1, EmptyElements DEF Named
<1>4. ASSUME w.found # <<>> PROVE \E x \in Nodes : x \in Reach(x)
  <2>1. PICK c \in Elements(w.found) : c \in Cycles
    <3>1. 1 \in DOMAIN w.found
      BY <1>2, <1>4, EmptySeq
    <3> QED  BY <1>2, <3>1 DEF Elements
  <2>2. IsCycle(c) /\ c[1] \in Elements(c) /\ Elements(c) \subseteq Nodes
    BY <2>1, CycleFirst
  <2>3. Elements(c) \subseteq Reach(c[1])
    BY <2>2, CycleReaches
  <2> QED  BY <2>2, <2>3
<1> QED  BY <1>1, <1>3, <1>4 DEF DetectCycles

\* IsTree, against what a tree is.
LEMMA TreesAre == ASSUME WellBuilt PROVE TreesAreTrees
PROOF
<1> DEFINE bare == {x \in Nodes : deps[x] = <<>>}
<1>1. Nodes \subseteq Ids /\ order \in Seq(Ids)
  BY Shape DEF WellBuilt
<1>2. \A x \in Nodes : /\ deps[x] \in Seq(Ids) /\ Len(deps[x]) \in Nat /\ Elements(deps[x]) \subseteq Nodes
                       /\ (Len(deps[x]) = 0 <=> deps[x] = <<>>)
  BY <1>1, Shape, EmptySeq
<1>3. Len(Roots) = 1 <=> \E r : bare = {r}
  <2>1. bare \cap Nodes = bare
    OBVIOUS
  <2> HIDE DEF bare
  <2>2. Len(InOrder(bare)) = 1 <=> \E r : bare \cap Nodes = {r}
    BY SoleIs
  <2> QED  BY <2>1, <2>2 DEF Roots, bare
<1>4. ASSUME NEW x \in Nodes, deps[x] = <<>> PROVE Reach(x) = {}
  <2>1. Elements(deps[x]) \subseteq {} /\ Closed({})
    BY <1>4, EmptyElements DEF Closed
  <2> QED  BY <2>1, ReachLeast
<1>5. ASSUME IsTree
      PROVE  \E r \in Nodes : deps[r] = <<>> /\ \A x \in Nodes \ {r} : Len(deps[x]) = 1 /\ r \in Reach(x)
  <2>1. PICK r : bare = {r}
    BY <1>3, <1>5 DEF IsTree
  <2>2. r \in Nodes /\ deps[r] = <<>>
    BY <2>1
  <2>3. \A x \in Nodes : Len(deps[x]) <= 1 /\ x \notin Reach(x)
    BY <1>5, NoCycleFound DEF IsTree
  <2>4. ASSUME NEW x \in Nodes \ {r} PROVE Len(deps[x]) = 1 /\ r \in Reach(x)
    <3>1. Len(deps[x]) = 1
      <4>1. deps[x] # <<>>
        BY <2>1
      <4>2. PICK n \in Nat : n = Len(deps[x])
        BY <1>2
      <4>3. n # 0 /\ n <= 1
        BY <1>2, <2>3, <4>1, <4>2
      <4>4. n = 1
        BY <4>3
      <4> QED  BY <4>2, <4>4
    <3>2. Reach(x) \in SUBSET Nodes /\ Elements(deps[x]) \subseteq Reach(x) /\ Closed(Reach(x))
      BY <1>1, ReachHolds
    <3>3. Reach(x) # {}
      <4>1. 1 \in DOMAIN deps[x]
        BY <1>2, <3>1
      <4> QED  BY <3>2, <4>1 DEF Elements
    <3>4. PICK y \in Reach(x) : \A z \in Reach(x) : ~(Reach(z) \subseteq Reach(y) /\ Reach(z) # Reach(y))
      BY <3>2, <3>3, ReachesFewest
    <3>5. CASE deps[y] = <<>>
      <4>1. y \in bare
        BY <3>2, <3>5
      <4>2. y = r
        BY <2>1, <4>1
      <4> QED  BY <3>1, <4>2
    <3>6. CASE deps[y] # <<>>
      <4>1. y \in Nodes /\ y \in Ids
        BY <1>1, <3>2
      <4>2. PICK d : d \in Elements(deps[y])
        <5>1. 1 \in DOMAIN deps[y]
          BY <1>2, <3>6, <4>1
        <5> QED  BY <5>1 DEF Elements
      <4>3. d \in Reach(y) /\ d \in Reach(x) /\ d \in Nodes
        BY <3>2, <4>1, <4>2, ReachHolds DEF Closed
      <4>4. Reach(d) \subseteq Reach(y) /\ d \notin Reach(d)
        BY <2>3, <4>1, <4>3, ReachOnward
      <4> QED  BY <3>4, <4>3, <4>4
    <3> QED  BY <3>1, <3>5, <3>6
  <2> QED  BY <2>2, <2>4
<1> HIDE DEF bare
<1>6. ASSUME NEW r \in Nodes, deps[r] = <<>>, \A x \in Nodes \ {r} : Len(deps[x]) = 1 /\ r \in Reach(x)
      PROVE  IsTree
  <2>1. order # <<>>
    BY <1>6, EmptyElements DEF Nodes
  <2>2. Len(Roots) = 1
    <3>1. ASSUME NEW x \in Nodes, deps[x] = <<>> PROVE x = r
      <4>1. Len(deps[x]) = 0
        BY <1>2, <3>1
      <4> QED  BY <1>6, <4>1
    <3>2. bare = {r}
      BY <1>6, <3>1 DEF bare
    <3> QED  BY <1>3, <3>2
  <2>3. ASSUME NEW x \in Nodes PROVE Len(deps[x]) <= 1
    <3>1. CASE x = r
      <4>1. Len(deps[r]) = 0
        BY <1>2, <1>6
      <4> QED  BY <3>1, <4>1
    <3>2. CASE x # r
      <4>1. Len(deps[x]) = 1
        BY <1>6, <3>2
      <4> QED  BY <4>1
    <3> QED  BY <3>1, <3>2
  <2>4. ASSUME NEW x \in Nodes, x \in Reach(x) PROVE FALSE
    <3>1. /\ Tangle(x) \subseteq Nodes /\ x \in Tangle(x)
          /\ \A z \in Tangle(x) : \E d \in Elements(deps[z]) : d \in Tangle(x)
      BY <2>4, TangleTurns
    <3>2. r \notin Tangle(x)
      BY <1>4, <1>6 DEF Tangle
    <3>3. ASSUME NEW z \in Tangle(x) PROVE Elements(deps[z]) \subseteq Tangle(x)
      <4>1. Len(deps[z]) = 1 /\ deps[z] \in Seq(Ids)
        BY <1>2, <1>6, <3>1, <3>2
      <4>2. \A d, e \in Elements(deps[z]) : d = e
        BY <4>1 DEF Elements
      <4> QED  BY <3>1, <4>2
    <3>4. Reach(x) \subseteq Tangle(x)
      BY <3>1, <3>3, ReachLeast DEF Closed
    <3>5. r \in Reach(x)
      BY <1>6, <3>1, <3>2
    <3> QED  BY <3>2, <3>4, <3>5
  <2>5. DetectCycles = <<>>
    BY <2>4, NoCycleFound
  <2> QED  BY <2>1, <2>2, <2>3, <2>5 DEF IsTree
<1> QED  BY <1>5, <1>6 DEF TreesAreTrees

\* Where no two ids have one text, every cycle that is reported is one, begins
\* with its least text and is reported once, and every tangle of cycles has one
\* reported: over every graph, and whichever way its edges were added.
THEOREM TanglesAlwaysNamed == DistinctTexts => (Spec => []CyclesNamed)
PROOF
<1>1. IInv => WellBuilt
  BY DEF IInv, GraphTypeOK, WellBuilt
<1>2. DistinctTexts /\ IInv => CyclesNamed
  BY <1>1, CyclesAllNamed
<1> SUFFICES ASSUME DistinctTexts PROVE Spec => []CyclesNamed
  OBVIOUS
<1>3. IInv => CyclesNamed
  BY <1>2
<1> QED  BY <1>3, Inductive, PTL

\* What IsTree takes for a tree is one, and every tree is taken for one.
THEOREM TreesAlwaysTrees == Spec => []TreesAreTrees
PROOF
<1>1. IInv => WellBuilt
  BY DEF IInv, GraphTypeOK, WellBuilt
<1>2. IInv => TreesAreTrees
  BY <1>1, TreesAre
<1> QED  BY <1>2, Inductive, PTL
=============================================================================
