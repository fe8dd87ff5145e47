------------------------------ MODULE Surfaces ------------------------------
(***************************************************************************)
(* go/graph: claims on paths and on names, when two of them are provably   *)
(* disjoint, and the Prover that compares the surfaces of two nodes.       *)
(*                                                                         *)
(* A path or a name is the sequence of its components, cleaned and folded: *)
(* the code cleans before it looks for '..' (path.go:202), which drops a   *)
(* pattern that stands before a '..' together with it.                     *)
(* A segment of a claim on paths has its text, whether that holds a        *)
(* metacharacter, the texts it matches read as a pattern, and whether it   *)
(* is no pattern at all.  A registered domain is a record: its name, what  *)
(* it compares, and the options it was built with.                         *)
(***************************************************************************)
EXTENDS Integers, Sequences, FiniteSets

CONSTANTS
  Names,   \* texts of one component
  Domains  \* NewProver: the registered domains, in order

Segments == [name : Names, meta : BOOLEAN, matches : SUBSET Names, bad : BOOLEAN]
PathClaims ==
  [kind : STRING, empty : BOOLEAN, escapes : BOOLEAN, root : STRING, abs : BOOLEAN,
   segs : Seq(Segments), simple : BOOLEAN, plain : BOOLEAN, paths : SUBSET Seq(Names)]
NameClaims == [kind : STRING, name : Seq(Names)]

\* What stands at the front of both sequences.
Starts(s, t) == Len(s) <= Len(t) /\ \A i \in 1 .. Len(s) : s[i] = t[i]
Text(segs) == [i \in DOMAIN segs |-> segs[i].name]

(***************************************************************************)
(* PathDomain.                                                             *)
(***************************************************************************)
\* resolve: a claim that cannot be placed is undecidable; a pattern without a
\* metacharacter is one file.
placed(c) == c.kind \in {"file", "dir", "glob"} /\ ~c.empty /\ ~c.escapes
isPattern(c) == \E i \in DOMAIN c.segs : c.segs[i].meta
resolve(o, c) == [c EXCEPT !.kind = IF @ = "glob" /\ ~isPattern(c) THEN "file" ELSE @,
                           !.root = IF @ = "" THEN o.root ELSE @]

overlapIf(touching) == IF touching THEN "overlap" ELSE "disjoint"
covers(d, c) == Starts(Text(d.segs), Text(c.segs))

\* Indices of the leading segments without a metacharacter.
literalPrefix(c) == {i \in DOMAIN c.segs : \A j \in 1 .. i : ~c.segs[j].meta}
\* Mutation: any two literal segments are compared.
anyLiteral(a, b) ==
  overlapIf(\A i \in DOMAIN a.segs \cap DOMAIN b.segs :
              a.segs[i].meta \/ b.segs[i].meta \/ a.segs[i].name = b.segs[i].name)
prefixRelation(a, b) ==
  overlapIf(\A i \in literalPrefix(a) \cap literalPrefix(b) : a.segs[i].name = b.segs[i].name)

\* Under a caller's fold nothing is known; lowercasing is safe for ASCII
\* without a character class.
foldSafe(o, g) == o.fold = "none" \/ (o.fold = "lower" /\ g.plain)
precise(o, g) == g.simple /\ foldSafe(o, g)

segmentsDisjoint(s, t) ==
  \/ ~s.meta /\ ~t.meta /\ s.name # t.name
  \/ ~s.meta /\ t.meta /\ ~t.bad /\ s.name \notin t.matches
  \/ s.meta /\ ~t.meta /\ ~s.bad /\ t.name \notin s.matches

globVsGlob(o, a, b) ==
  IF ~precise(o, a) \/ ~precise(o, b) THEN prefixRelation(a, b)
  ELSE overlapIf(/\ Len(a.segs) = Len(b.segs)
                 /\ \A i \in DOMAIN a.segs : ~segmentsDisjoint(a.segs[i], b.segs[i]))

\* Segment by segment: the first that is no pattern or does not match decides.
matchSegments(g, lit) ==
  LET both == DOMAIN g.segs \cap DOMAIN lit.segs
      settled(i) == g.segs[i].bad \/ lit.segs[i].name \notin g.segs[i].matches
      first(i) == settled(i) /\ \A j \in both : j < i => ~settled(j)
  IN  IF \E i \in both : first(i) /\ ~g.segs[i].bad THEN "disjoint"
      ELSE IF \E i \in both : first(i) THEN "unknown" ELSE "overlap"

globVsLiteral(o, g, lit) ==
  IF lit.kind = "dir" /\ lit.segs = <<>> THEN "overlap"
  ELSE IF lit.kind = "file" /\ o.matcher /\ foldSafe(o, g)
         THEN IF \E i \in DOMAIN g.segs : g.segs[i].bad THEN "unknown" ELSE overlapIf(Text(lit.segs) \in g.paths)
  ELSE IF ~precise(o, g) THEN prefixRelation(g, lit)
  ELSE IF lit.kind = "dir" /\ Len(g.segs) < Len(lit.segs) THEN "disjoint"
  ELSE IF lit.kind = "file" /\ Len(g.segs) # Len(lit.segs) THEN "disjoint"
  ELSE matchSegments(g, lit)

relateResolved(o, a, b) ==
  CASE a.root # b.root -> "disjoint"
    [] a.root = b.root /\ a.abs # b.abs -> "unknown"
    [] OTHER ->
       CASE a.kind = "glob" /\ b.kind = "glob" -> globVsGlob(o, a, b)
         [] a.kind = "glob" /\ b.kind # "glob" -> globVsLiteral(o, a, b)
         [] a.kind # "glob" /\ b.kind = "glob" -> globVsLiteral(o, b, a)
         [] a.kind = "dir" /\ b.kind = "dir" -> overlapIf(covers(a, b) \/ covers(b, a))
         [] a.kind = "dir" /\ b.kind = "file" -> overlapIf(covers(a, b))
         [] a.kind = "file" /\ b.kind = "dir" -> overlapIf(covers(b, a))
         [] a.kind = "file" /\ b.kind = "file" -> overlapIf(Text(a.segs) = Text(b.segs))
relatePaths(o, a, b) ==
  IF placed(a) /\ placed(b) THEN relateResolved(o, resolve(o, a), resolve(o, b)) ELSE "unknown"

(***************************************************************************)
(* NamespaceDomain.                                                        *)
(***************************************************************************)
placedName(c) == c.kind \in {"name", "prefix"} /\ c.name # <<>>
contains(o, prefix, name) == prefix = name \/ (o.separator /\ Starts(prefix, name))
relateNames(o, a, b) ==
  IF ~placedName(a) \/ ~placedName(b) THEN "unknown"
  ELSE CASE a.kind = "prefix" /\ b.kind = "prefix" -> overlapIf(contains(o, a.name, b.name) \/ contains(o, b.name, a.name))
         [] a.kind = "prefix" /\ b.kind = "name" -> overlapIf(contains(o, a.name, b.name))
         [] a.kind = "name" /\ b.kind = "prefix" -> overlapIf(contains(o, b.name, a.name))
         [] a.kind = "name" /\ b.kind = "name" -> overlapIf(a.name = b.name)

(***************************************************************************)
(* Prover.  A surface maps the domains it declares to sets of claims.      *)
(***************************************************************************)
Registered == {Domains[i].name : i \in DOMAIN Domains}
relate(o, x, y) == IF o.compares = "paths" THEN relatePaths(o, x, y) ELSE relateNames(o, x, y)

Undeclared(o, a, b) == ~(o.name \in DOMAIN a /\ o.name \in DOMAIN b)
Unproved(o, a, b) == \E x \in a[o.name], y \in b[o.name] : relate(o, x, y) # "disjoint"
Known(a, b) == DOMAIN a \cup DOMAIN b \subseteq Registered

\* Mutation: silence is read as touching nothing.
ProvedIfSilent(a, b) ==
  Known(a, b) /\ \A i \in DOMAIN Domains : ~Undeclared(Domains[i], a, b) => ~Unproved(Domains[i], a, b)
Proved(a, b) ==
  Known(a, b) /\ \A i \in DOMAIN Domains : ~Undeclared(Domains[i], a, b) /\ ~Unproved(Domains[i], a, b)

\* The ground of the first obstacle, in the order of registration; which pair
\* of a domain decides is left open when both an overlap and an unknown do.
obstructed(i, a, b) == Undeclared(Domains[i], a, b) \/ Unproved(Domains[i], a, b)
obstacle(a, b) ==
  CHOOSE i \in DOMAIN Domains : obstructed(i, a, b) /\ \A j \in 1 .. i - 1 : ~obstructed(j, a, b)
Ground == {"proved-disjoint", "claim-overlap", "undecidable", "undeclared-domain", "unregistered-domain",
           "dependency-linked", "group-full"}
Refusals(o, a, b) ==
  {g \in Ground \cap {"claim-overlap", "undecidable"} :
     \E x \in a[o.name], y \in b[o.name] :
        relate(o, x, y) = IF g = "claim-overlap" THEN "overlap" ELSE "unknown"}
Grounds(a, b) ==
  IF ~Known(a, b) THEN {"unregistered-domain"}
  ELSE IF Proved(a, b) THEN {"proved-disjoint"}
  ELSE IF Undeclared(Domains[obstacle(a, b)], a, b) THEN {"undeclared-domain"}
  ELSE Refusals(Domains[obstacle(a, b)], a, b)

(***************************************************************************)
(* What a claim is about, written from what files, directories, patterns   *)
(* and names mean and not from how they are compared: Relate "must return  *)
(* RelationDisjoint only when the two claims provably share no resource".  *)
(***************************************************************************)
RootOf(o, c) == IF c.root = "" THEN o.root ELSE c.root
ReachesPath(o, c, r) ==
  /\ r.root = RootOf(o, c) /\ r.abs = c.abs
  /\ CASE c.kind = "file" -> r.path = Text(c.segs)
       [] c.kind = "dir" -> Starts(Text(c.segs), r.path)
       [] OTHER -> r.path \in c.paths
ReachesName(o, c, r) ==
  r = c.name \/ (c.kind = "prefix" /\ o.separator /\ Starts(c.name, r))
\* What is taken for granted of the paths a pattern matches: they begin with
\* its literal segments, and a pattern that can be read segment by segment
\* matches as many segments as it has, each with one of its texts.
Means(o, c) ==
  /\ \A i \in DOMAIN c.segs : ~c.segs[i].meta => c.segs[i].matches \subseteq {c.segs[i].name}
  /\ c.kind = "glob" => \A p \in c.paths :
       /\ \A i \in literalPrefix(c) : i \in DOMAIN p /\ p[i] = c.segs[i].name
       /\ precise(o, c) => Len(p) = Len(c.segs) /\ \A i \in DOMAIN p : p[i] \in c.segs[i].matches
       /\ ~isPattern(c) => p = Text(c.segs)
WellFormed(o, c) == IF o.compares = "paths" THEN c \in PathClaims /\ Means(o, c) ELSE c \in NameClaims
Reaches(o, c, r) == IF o.compares = "paths" THEN ReachesPath(o, c, r) ELSE ReachesName(o, c, r)
=============================================================================
