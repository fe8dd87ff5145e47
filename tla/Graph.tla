------------------------------- MODULE Graph -------------------------------
(***************************************************************************)
(* go/graph: a graph that its caller builds, edge by edge, and Batch,      *)
(* which partitions it into groups that may run at the same time.  The two *)
(* maps of edges and the insertion order are kept as the code keeps them;  *)
(* the walk of Batch takes one step for each candidate it considers, with  *)
(* the closures and the surfaces looked up as it goes.  A payload is never *)
(* read by the package and is left out.                                    *)
(***************************************************************************)
EXTENDS Surfaces

CONSTANTS
  Ids,          \* node ids
  Calls,        \* arguments of Batch: surfaces, a function from Ids, and cap,
                \* WithMaxGroupSize, 0 for none
  Resources,    \* what claims can be about: a record of the paths and the names
  MaxEdges,     \* bound: edges a caller adds
  BatchEdges    \* bound: edges of a graph that is batched

\* Every surface maps some names to sets of claims; a claim in a registered
\* domain is what that domain takes it for.
ASSUME CallsAssumption ==
  \A call \in Calls :
    /\ call = [surfaces |-> call.surfaces, cap |-> call.cap]
    /\ call.cap \in Nat
    /\ \A x \in Ids, i \in DOMAIN Domains :
         Domains[i].name \in DOMAIN call.surfaces[x] =>
           \A c \in call.surfaces[x][Domains[i].name] : WellFormed(Domains[i], c)

VARIABLES
  order, deps, rdeps,      \* the Graph
  phase,                   \* "open", "batching", "done", or "cycle"
  surfaces, cap,           \* the arguments of Batch
  scheduled, at, members, deferred, groups  \* its locals; at is the position in order

graph == <<order, deps, rdeps>>
args == <<surfaces, cap>>
round == <<at, members, deferred>>
vars == <<graph, phase, args, scheduled, round, groups>>

Elements(s) == {s[i] : i \in DOMAIN s}
Nodes == Elements(order)
Edges == {e \in Ids \X Ids : e[2] \in Elements(deps[e[1]])}

\* The first occurrence of id goes, what follows moves up.
removeID(s, id) ==
  IF id \notin Elements(s) THEN s
  ELSE LET k == CHOOSE i \in DOMAIN s : s[i] = id /\ \A j \in 1 .. i - 1 : s[j] # id
       IN  [i \in 1 .. Len(s) - 1 |-> IF i < k THEN s[i] ELSE s[i + 1]]

NoCall == [surfaces |-> [x \in Ids |-> <<>>], cap |-> 0]
New ==
  /\ order = <<>> /\ deps = [x \in Ids |-> <<>>] /\ rdeps = [x \in Ids |-> <<>>]

(***************************************************************************)
(* Mutations.  A call that names a node the graph does not hold, or adds   *)
(* one it holds, changes nothing.                                          *)
(***************************************************************************)
Building == phase = "open" /\ UNCHANGED <<phase, args, scheduled, round, groups>>

AddNode(id) ==
  /\ Building /\ id \notin Nodes
  /\ order' = Append(order, id)
  /\ UNCHANGED <<deps, rdeps>>

\* Mutation: only the edges the node itself declared are dropped.
RemoveNodeForgetful(id) ==
  /\ Building /\ id \in Nodes
  /\ order' = removeID(order, id)
  /\ deps' = [deps EXCEPT ![id] = <<>>]
  /\ rdeps' = [x \in Ids |-> IF x = id THEN <<>> ELSE removeID(rdeps[x], id)]
RemoveNode(id) ==
  /\ Building /\ id \in Nodes
  /\ order' = removeID(order, id)
  /\ deps' = [x \in Ids |-> IF x = id THEN <<>>
                            ELSE IF x \in Elements(rdeps[id]) THEN removeID(deps[x], id) ELSE deps[x]]
  /\ rdeps' = [x \in Ids |-> IF x = id THEN <<>>
                             ELSE IF x \in Elements(deps[id]) THEN removeID(rdeps[x], id) ELSE rdeps[x]]

AddDep(dependent, dependency) ==
  /\ Building /\ {dependent, dependency} \subseteq Nodes
  /\ dependency \notin Elements(deps[dependent])
  /\ Cardinality(Edges) < MaxEdges
  /\ deps' = [deps EXCEPT ![dependent] = Append(@, dependency)]
  /\ rdeps' = [rdeps EXCEPT ![dependency] = Append(@, dependent)]
  /\ UNCHANGED order

RemoveDep(dependent, dependency) ==
  /\ Building /\ {dependent, dependency} \subseteq Nodes
  /\ deps' = [deps EXCEPT ![dependent] = removeID(@, dependency)]
  /\ rdeps' = [rdeps EXCEPT ![dependency] = removeID(@, dependent)]
  /\ UNCHANGED order

(***************************************************************************)
(* What a node depends on through any chain: the least set with its        *)
(* dependencies that is closed.  GraphOrder has the loops that compute it. *)
(***************************************************************************)
Closed(S) == \A y \in S : Elements(deps[y]) \subseteq S
Reach(x) == {y \in Nodes : \A S \in SUBSET Nodes : Elements(deps[x]) \subseteq S /\ Closed(S) => y \in S}
\* Mutation: only a node that depends on itself is a cycle.
CyclicSelf == \E x \in Nodes : x \in Elements(deps[x])
Cyclic == \E x \in Nodes : x \in Reach(x)

Independent(a, b) == a # b /\ {a, b} \subseteq Nodes /\ b \notin Reach(a) /\ a \notin Reach(b)

(***************************************************************************)
(* Batch.                                                                  *)
(***************************************************************************)
coBatch(a, b) == Independent(a, b) /\ Proved(surfaces[a], surfaces[b])
Verdicts(a, b) ==
  IF ~Independent(a, b) THEN {"dependency-linked"} ELSE Grounds(surfaces[a], surfaces[b])

ready(id) == \A d \in Elements(deps[id]) : d \in scheduled

full == cap > 0 /\ Len(members) >= cap
\* Mutation: only the member admitted last is asked.
admitsLast(id) == members # <<>> => coBatch(id, members[Len(members)])
admits(id) == \A i \in DOMAIN members : coBatch(id, members[i])
\* The members that may be reported: the first to refuse.
Blocks(i, id) == i \in DOMAIN members /\ ~coBatch(id, members[i]) /\ \A j \in 1 .. i - 1 : coBatch(id, members[j])

BatchCyclic ==
  /\ phase = "open" /\ Cyclic
  /\ phase' = "cycle"
  /\ UNCHANGED <<graph, args, scheduled, round, groups>>

BeginBatch(call) ==
  /\ phase = "open" /\ ~Cyclic /\ Cardinality(Edges) <= BatchEdges
  /\ phase' = "batching"
  /\ surfaces' = call.surfaces /\ cap' = call.cap
  /\ UNCHANGED <<graph, scheduled, round, groups>>

\* Batch is inside a round, at the next node of the insertion order.
Finished == Cardinality(scheduled) >= Len(order)
Considering(id) ==
  /\ phase = "batching" /\ ~Finished /\ at <= Len(order) /\ id = order[at]
  /\ at' = at + 1
  /\ UNCHANGED <<graph, phase, args, scheduled, groups>>
Candidate(id) == id \notin scheduled /\ ready(id)

Skip(id) == Considering(id) /\ ~Candidate(id) /\ UNCHANGED <<members, deferred>>
GroupFull(id) ==
  /\ Considering(id) /\ Candidate(id) /\ full
  /\ deferred' = Append(deferred, [node |-> id, blocker |-> 0, ground |-> "group-full"])
  /\ UNCHANGED members
Refused(id) ==
  /\ Considering(id) /\ Candidate(id) /\ ~full /\ ~admits(id)
  /\ \E i \in DOMAIN members : \E g \in Verdicts(id, members[i]) :
       /\ Blocks(i, id)
       /\ deferred' = Append(deferred, [node |-> id, blocker |-> i, ground |-> g])
  /\ UNCHANGED members
Admit(id) ==
  /\ Considering(id) /\ Candidate(id) /\ ~full /\ admits(id)
  /\ members' = Append(members, id)
  /\ UNCHANGED deferred

\* The end of a round; as a mutation first, with the members kept.  A round that admitted nothing ends in ErrNoProgress:
\* no step stands for it, and BatchEnds shows that none is missed.
CloseKeeping ==
  /\ phase = "batching" /\ ~Finished /\ at > Len(order) /\ members # <<>>
  /\ scheduled' = scheduled \cup Elements(members)
  /\ groups' = Append(groups, [members |-> members, deferred |-> deferred])
  /\ at' = 1 /\ deferred' = <<>>
  /\ UNCHANGED <<graph, phase, args, members>>
CloseRound ==
  /\ phase = "batching" /\ ~Finished /\ at > Len(order) /\ members # <<>>
  /\ scheduled' = scheduled \cup Elements(members)
  /\ groups' = Append(groups, [members |-> members, deferred |-> deferred])
  /\ at' = 1 /\ members' = <<>> /\ deferred' = <<>>
  /\ UNCHANGED <<graph, phase, args>>
Return ==
  /\ phase = "batching" /\ Finished
  /\ phase' = "done"
  /\ UNCHANGED <<graph, args, scheduled, round, groups>>

Consider(id) == Skip(id) \/ GroupFull(id) \/ Refused(id) \/ Admit(id)
BatchStep == (\E id \in Ids : Consider(id)) \/ CloseRound \/ Return

Init ==
  /\ New /\ phase = "open"
  /\ surfaces = NoCall.surfaces /\ cap = NoCall.cap
  /\ scheduled = {} /\ at = 1 /\ members = <<>> /\ deferred = <<>> /\ groups = <<>>
Next ==
  \/ \E id \in Ids : AddNode(id) \/ RemoveNode(id)
  \/ \E a \in Ids, b \in Ids : AddDep(a, b) \/ RemoveDep(a, b)
  \/ BatchCyclic
  \/ \E call \in Calls : BeginBatch(call)
  \/ BatchStep
Spec == Init /\ [][Next]_vars /\ WF_vars(BatchStep)

(***************************************************************************)
(* Properties.                                                             *)
(***************************************************************************)
Once(s) == \A i, j \in DOMAIN s : s[i] = s[j] => i = j

Deferrals == [node : Ids, blocker : Nat, ground : Ground]
\* The state has its type; what is scheduled and what is forming are nodes.
GraphTypeOK ==
  /\ order \in Seq(Ids) /\ Once(order)
  /\ deps \in [Ids -> Seq(Ids)] /\ rdeps \in [Ids -> Seq(Ids)]
  /\ phase \in {"open", "batching", "done", "cycle"}
  /\ [surfaces |-> surfaces, cap |-> cap] \in Calls \cup {NoCall}
  /\ at \in 1 .. Len(order) + 1
  /\ deferred \in Seq(Deferrals) /\ groups \in Seq([members : Seq(Ids), deferred : Seq(Deferrals)])
  /\ members \in Seq(Ids) /\ Once(members) /\ Elements(members) \subseteq Nodes \ scheduled
  /\ scheduled = UNION {Elements(groups[k].members) : k \in DOMAIN groups}
  /\ scheduled \subseteq Nodes

\* The two maps hold the same edges, each once, and only between nodes of the
\* graph: "a dangling edge cannot be constructed" (graph.go), whatever was
\* added and removed before, an edge from a node to itself included.
EdgesMirror ==
  \A x \in Ids, y \in Ids :
    /\ y \in Elements(deps[x]) <=> x \in Elements(rdeps[y])
    /\ y \in Elements(deps[x]) => {x, y} \subseteq Nodes
    /\ Once(deps[x]) /\ Once(rdeps[x])

\* Two nodes of one group never reach the same resource in any registered
\* domain: the rules by which two claims are called disjoint, by text, by
\* pattern and by prefix, are right about what the claims mean, for every pair
\* that Batch put together.
Share(m, n) ==
  \E i \in DOMAIN Domains :
    LET o == Domains[i] IN
    /\ o.name \in DOMAIN surfaces[m] /\ o.name \in DOMAIN surfaces[n]
    /\ \E x \in surfaces[m][o.name], y \in surfaces[n][o.name], r \in Resources[o.compares] :
         Reaches(o, x, r) /\ Reaches(o, y, r)
Apart(s) == \A i, j \in DOMAIN s : i # j => ~Share(s[i], s[j])
NoSharedResource == Apart(members) /\ \A k \in DOMAIN groups : Apart(groups[k].members)

\* Batch takes its groups as Schedule says: from the nodes whose dependencies
\* are in earlier groups, no two of them linked, no more than the cap, and
\* leaving out no node that the members of the group would have let in.
Beside == {p \in Ids \X Ids : coBatch(p[1], p[2])}
BatchPlan == INSTANCE Schedule WITH
  nodes <- Nodes,
  needs <- [x \in Ids |-> Elements(deps[x])],
  beside <- Beside,
  room <- cap,
  running <- phase \in {"batching", "done"},
  batches <- [k \in DOMAIN groups |-> Elements(groups[k].members)]
ImplementsSchedule == BatchPlan!Spec

\* A Batch of a graph without a cycle ends, with every node in a group: no
\* round is left with nobody admitted, which is what ErrNoProgress is for.
BatchEnds == phase = "batching" ~> (phase = "done" /\ scheduled = Nodes)
=============================================================================
