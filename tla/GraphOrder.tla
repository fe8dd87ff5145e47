----------------------------- MODULE GraphOrder -----------------------------
(***************************************************************************)
(* go/graph: the questions a graph answers.  Closures, layers, topological *)
(* order, cycles, trees and references, computed as the code computes them *)
(* and compared with what they are meant to be.  A text is a number, in    *)
(* the order of texts; 0 is a node's missing short form.                   *)
(***************************************************************************)
EXTENDS Graph

CONSTANTS TextOf, ShortOf  \* IDScheme

ASSUME SchemeAssumption == TextOf \in [Ids -> Nat]

\* No loop takes more turns: each turn pops an edge, or opens or leaves a node
\* or looks at one of its edges, or drains a node.
MaxTurns == Len(order) * (Len(order) + 2)

Front(s) == [i \in 1 .. Len(s) - 1 |-> s[i]]
InOrder(S) ==
  LET kept[i \in 0 .. Len(order)] ==
        IF i = 0 THEN <<>>
        ELSE IF order[i] \in S THEN Append(kept[i - 1], order[i]) ELSE kept[i - 1]
  IN  kept[Len(order)]

pop(c) ==
  IF c.stack = <<>> THEN c
  ELSE LET cur == c.stack[Len(c.stack)] IN
       IF cur \in c.out THEN [c EXCEPT !.stack = Front(@)]
       ELSE [stack |-> Front(c.stack) \o deps[cur], out |-> c.out \cup {cur}]
closure(id) ==
  LET c[n \in 0 .. MaxTurns] == IF n = 0 THEN [stack |-> deps[id], out |-> {}] ELSE pop(c[n - 1])
  IN  IF id \in Nodes THEN c[MaxTurns].out ELSE {}
TransitiveDeps(id) == InOrder(closure(id))

(***************************************************************************)
(* frontiers: layers of nodes all of whose dependencies are drained.       *)
(***************************************************************************)
\* The in-degree left: the dependencies whose dependents list counts it down.
indeg(x, drained) == Len(deps[x]) - Cardinality({d \in drained : x \in Elements(rdeps[d])})
Drained(f, layer) ==
  [layers |-> IF layer = <<>> THEN f.layers ELSE Append(f.layers, layer),
   undrained |-> f.undrained \ Elements(layer)]
\* Mutation: the layer is read while it is drained, so that a node whose last
\* dependency drains in this pass joins it.
passEagerly(f) ==
  Drained(f, InOrder({x \in f.undrained : \A d \in Elements(deps[x]) : d \in f.undrained => deps[d] = <<>>}))
pass(f) == Drained(f, InOrder({x \in f.undrained : indeg(x, Nodes \ f.undrained) = 0}))
frontiers ==
  LET f[n \in 0 .. MaxTurns] == IF n = 0 THEN [layers |-> <<>>, undrained |-> Nodes] ELSE pass(f[n - 1])
  IN  f[MaxTurns]

Flat(layers) ==
  LET out[k \in 0 .. Len(layers)] == IF k = 0 THEN <<>> ELSE out[k - 1] \o layers[k]
  IN  out[Len(layers)]
TopoSort == Flat(frontiers.layers)

(***************************************************************************)
(* cyclesAmong: a walk depth first, in the order edges were added, within  *)
(* a scope; each edge back onto the path closes a cycle.  The path holds   *)
(* the calls of visit that have not returned, next the dependency that     *)
(* each of them looks at next.                                             *)
(***************************************************************************)
Texts(c) == [i \in DOMAIN c |-> TextOf[c[i]]]
From(s, k) == SubSeq(s, k, Len(s)) \o SubSeq(s, 1, k - 1)
\* Mutation: a cycle is reported from where the walk entered it.
asWalked(cyc) == cyc
canonicalCycle(cyc) ==
  From(cyc, CHOOSE k \in DOMAIN cyc :
              \A i \in DOMAIN cyc : TextOf[cyc[k]] < TextOf[cyc[i]] \/ (TextOf[cyc[k]] = TextOf[cyc[i]] /\ k <= i))

visit(id, w) == [w EXCEPT !.path = Append(@, id), !.next[id] = 1]
leave(id, w) == [w EXCEPT !.path = Front(@), !.done = @ \cup {id}]
report(d, w) ==
  LET cyc == canonicalCycle(SubSeq(w.path, CHOOSE i \in DOMAIN w.path : w.path[i] = d, Len(w.path)))
  IN  IF \E c \in Elements(w.found) : Texts(c) = Texts(cyc) THEN w ELSE [w EXCEPT !.found = Append(@, cyc)]
consider(d, w, scope) ==
  IF d \notin scope \/ d \in w.done THEN w
  ELSE IF d \in Elements(w.path) THEN report(d, w) ELSE visit(d, w)
walk(w, scope) ==
  IF w.path = <<>>
  THEN LET unseen == InOrder(scope \ w.done) IN IF unseen = <<>> THEN w ELSE visit(unseen[1], w)
  ELSE LET id == w.path[Len(w.path)]
           k == w.next[id]
       IN  IF k > Len(deps[id]) THEN leave(id, w) ELSE consider(deps[id][k], [w EXCEPT !.next[id] = k + 1], scope)
NoWalk == [path |-> <<>>, next |-> [x \in Ids |-> 0], done |-> {}, found |-> <<>>]
cyclesAmong(scope) ==
  LET w[n \in 0 .. MaxTurns] == IF n = 0 THEN NoWalk ELSE walk(w[n - 1], scope)
  IN  w[MaxTurns].found
DetectCycles == cyclesAmong(Nodes)

Roots == InOrder({x \in Nodes : deps[x] = <<>>})
Leaves == InOrder({x \in Nodes : rdeps[x] = <<>>})
\* Mutation: the count of dependencies is taken for the shape.
TreeByCount == order # <<>> /\ Len(Roots) = 1 /\ \A x \in Nodes : Len(deps[x]) <= 1
IsTree == order # <<>> /\ Len(Roots) = 1 /\ (\A x \in Nodes : Len(deps[x]) <= 1) /\ DetectCycles = <<>>

(***************************************************************************)
(* ResolveRefs: a full text first, then a short form; several candidates   *)
(* are reported and none is taken.  0 stands for no node.                  *)
(***************************************************************************)
Refs == ({TextOf[x] : x \in Ids} \cup {ShortOf[x] : x \in Ids}) \ {0}
Candidates(ref) ==
  LET canonical == {x \in Nodes : TextOf[x] = ref}
  IN  IF canonical # {} THEN canonical ELSE {x \in Nodes : ShortOf[x] = ref}
\* Mutation: the node indexed last is taken.
ResolveLast(ref) == LET c == InOrder(Candidates(ref)) IN IF c = <<>> THEN 0 ELSE c[Len(c)]
ResolveRef(ref) == LET c == InOrder(Candidates(ref)) IN IF Len(c) = 1 THEN c[1] ELSE 0

(***************************************************************************)
(* Properties.  The answers are asked while the graph is being built.      *)
(***************************************************************************)
\* What a cycle holds or traps.
Trapped == {x \in Nodes : \E y \in Reach(x) \cup {x} : y \in Reach(y)}
Level(layers, x) == CHOOSE k \in DOMAIN layers : x \in Elements(layers[k])
\* Layers and TopoSort: a node stands one layer above the highest of its
\* dependencies, in insertion order within it; what never drains is what a
\* cycle holds or traps; and a closure is what a node depends on, over graphs
\* with self-edges and cycles too.
OrderIsSound ==
  phase = "open" =>
    LET f == frontiers
    IN  /\ f.undrained = Trapped
        /\ Elements(TopoSort) = Nodes \ Trapped /\ Once(TopoSort)
        /\ \A k \in DOMAIN f.layers : f.layers[k] = InOrder(Elements(f.layers[k]))
        /\ \A x \in Nodes \ Trapped :
             /\ \A d \in Elements(deps[x]) : Level(f.layers, d) < Level(f.layers, x)
             /\ Level(f.layers, x) > 1 => \E d \in Elements(deps[x]) : Level(f.layers, d) = Level(f.layers, x) - 1
        /\ \A x \in Nodes : closure(x) = Reach(x)

\* Every cycle reported is one, begins with the least text and is reported
\* once; and every tangle of cycles has one named: a node that depends on
\* itself shares its tangle with a reported cycle.  The same holds of the
\* cycles among the nodes that never drained.
CyclesNamed ==
  phase = "open" =>
    \A scope \in {Nodes, frontiers.undrained} :
      LET found == cyclesAmong(scope)
          After(c, i) == IF i < Len(c) THEN c[i + 1] ELSE c[1]
      IN  /\ Once(found)
          /\ \A c \in Elements(found) :
               /\ Once(c)
               /\ \A i \in DOMAIN c : After(c, i) \in Elements(deps[c[i]]) /\ TextOf[c[1]] <= TextOf[c[i]]
          /\ \A x \in {n \in Nodes : n \in Reach(n)} :
               \E c \in Elements(found) : c[1] \in Reach(x) /\ x \in Reach(c[1])

\* A tree is a root that every other node leads to along its only dependency.
TreesAreTrees ==
  phase = "open" =>
    (IsTree <=> \E r \in Nodes : /\ deps[r] = <<>>
                                 /\ \A x \in Nodes \ {r} : Len(deps[x]) = 1 /\ r \in Reach(x))

\* A reference never moves from a node that is still there to another one,
\* except to a node added now that it names in full: neither adding nor
\* removing other nodes re-points it quietly.
RefsHold ==
  [][\A ref \in Refs :
       LET was == ResolveRef(ref)
           is == ResolveRef(ref)'
       IN  was # 0 /\ is # 0 /\ was # is /\ was \in Nodes' => TextOf[is] = ref /\ is \notin Nodes]_order
=============================================================================
