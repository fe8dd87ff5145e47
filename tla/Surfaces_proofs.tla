--------------------------- MODULE Surfaces_proofs ---------------------------
(***************************************************************************)
(* The rules by which two claims are called disjoint are sound: for any    *)
(* claims, options and resources, whatever the claims' texts are.          *)
(***************************************************************************)
EXTENDS Surfaces, SequenceTheorems, TLAPS

\* resolve leaves all but the kind and the root alone.
LEMMA Resolved ==
  ASSUME NEW o, NEW c \in PathClaims
  PROVE  LET r == resolve(o, c) IN
         /\ r.segs = c.segs /\ r.abs = c.abs /\ r.simple = c.simple /\ r.plain = c.plain /\ r.paths = c.paths
         /\ r.root = RootOf(o, c)
         /\ r.kind = IF c.kind = "glob" /\ ~isPattern(c) THEN "file" ELSE c.kind
PROOF BY DEF resolve, PathClaims, RootOf

\* Two sequences that begin with the same third are comparable.
LEMMA CommonStart ==
  ASSUME NEW S, NEW s \in Seq(S), NEW t \in Seq(S), NEW p, Starts(s, p), Starts(t, p)
  PROVE  Starts(s, t) \/ Starts(t, s)
PROOF BY DEF Starts

LEMMA TextType ==
  ASSUME NEW segs \in Seq(Segments)
  PROVE  Text(segs) \in Seq(Names) /\ Len(Text(segs)) = Len(segs)
         /\ \A i \in DOMAIN segs : Text(segs)[i] = segs[i].name
PROOF
<1> DEFINE n == Len(segs)
<1>1. n \in Nat /\ segs \in [1 .. n -> Segments]
  BY LenProperties
<1>2. Text(segs) \in [1 .. n -> Names]
  BY <1>1 DEF Text, Segments
<1>3. Text(segs) \in Seq(Names)
  BY <1>1, <1>2, SeqDef
<1>4. Len(Text(segs)) = n
  BY <1>1, <1>2, <1>3
<1> QED  BY <1>3, <1>4 DEF Text

\* What Means says of one path that a resolved pattern matches.
Matched(o, g, p) ==
  /\ g.segs \in Seq(Segments) /\ p \in Seq(Names)
  /\ \A i \in DOMAIN g.segs : ~g.segs[i].meta => g.segs[i].matches \subseteq {g.segs[i].name}
  /\ \A i \in literalPrefix(g) : i \in DOMAIN p /\ p[i] = g.segs[i].name
  /\ precise(o, g) => Len(p) = Len(g.segs) /\ \A i \in DOMAIN p : p[i] \in g.segs[i].matches

\* Two patterns that share a path are not called disjoint.
LEMMA GlobsSound ==
  ASSUME NEW o, NEW a, NEW b, NEW p, Matched(o, a, p), Matched(o, b, p)
  PROVE  globVsGlob(o, a, b) = "overlap"
PROOF
<1>1. CASE ~precise(o, a) \/ ~precise(o, b)
  BY <1>1 DEF globVsGlob, prefixRelation, overlapIf, Matched
<1>2. CASE precise(o, a) /\ precise(o, b)
  <2>1. Len(a.segs) = Len(b.segs)
    BY <1>2 DEF Matched
  <2>2. ASSUME NEW i \in DOMAIN a.segs PROVE ~segmentsDisjoint(a.segs[i], b.segs[i])
    <3>1. i \in DOMAIN p /\ i \in DOMAIN b.segs
      BY <1>2, <2>1 DEF Matched
    <3>2. p[i] \in a.segs[i].matches /\ p[i] \in b.segs[i].matches
      BY <1>2, <3>1 DEF Matched
    <3>3. /\ ~a.segs[i].meta => p[i] = a.segs[i].name
          /\ ~b.segs[i].meta => p[i] = b.segs[i].name
      BY <3>1, <3>2 DEF Matched
    <3> QED  BY <3>2, <3>3 DEF segmentsDisjoint
  <2> QED  BY <1>2, <2>1, <2>2 DEF globVsGlob, overlapIf
<1> QED  BY <1>1, <1>2

\* Nor are a pattern and a file or directory that share one.
LEMMA GlobLiteralSound ==
  ASSUME NEW o, NEW g, NEW lit, NEW p, Matched(o, g, p), p \in g.paths,
         lit.segs \in Seq(Segments), lit.kind \in {"file", "dir"},
         lit.kind = "file" => p = Text(lit.segs),
         Starts(Text(lit.segs), p)
  PROVE  globVsLiteral(o, g, lit) # "disjoint"
PROOF
<1>1. /\ Len(Text(lit.segs)) = Len(lit.segs)
      /\ \A i \in DOMAIN lit.segs : Text(lit.segs)[i] = lit.segs[i].name
  BY TextType
<1>2. /\ Len(lit.segs) <= Len(p)
      /\ \A i \in DOMAIN lit.segs : i \in DOMAIN p /\ p[i] = lit.segs[i].name
  BY <1>1 DEF Starts, Matched
<1>3. prefixRelation(g, lit) = "overlap"
  BY <1>2 DEF prefixRelation, overlapIf, literalPrefix, Matched
<1>4. CASE precise(o, g)
  <2>1. Len(p) = Len(g.segs) /\ \A i \in DOMAIN p : p[i] \in g.segs[i].matches
    BY <1>4 DEF Matched
  <2>2. lit.kind = "file" => Len(g.segs) = Len(lit.segs)
    BY <1>1, <2>1
  <2>3. Len(lit.segs) <= Len(g.segs)
    BY <1>2, <2>1
  <2>4. \A i \in DOMAIN g.segs \cap DOMAIN lit.segs : lit.segs[i].name \in g.segs[i].matches
    BY <1>2, <2>1 DEF Matched
  <2>5. matchSegments(g, lit) # "disjoint"
    BY <2>4 DEF matchSegments
  <2>6. ~(lit.kind = "dir" /\ Len(g.segs) < Len(lit.segs))
    BY <2>3 DEF Matched
  <2> QED  BY <1>4, <2>2, <2>5, <2>6 DEF globVsLiteral, overlapIf
<1>5. CASE ~precise(o, g)
  BY <1>3, <1>5 DEF globVsLiteral, overlapIf
<1> QED  BY <1>4, <1>5

\* PathDomain's Relate: two claims on paths that reach a common path are not
\* called disjoint, whichever kinds they are.
THEOREM PathsSound ==
  ASSUME NEW o, NEW a \in PathClaims, NEW b \in PathClaims, Means(o, a), Means(o, b),
         NEW r, ReachesPath(o, a, r), ReachesPath(o, b, r)
  PROVE  relatePaths(o, a, b) # "disjoint"
PROOF
<1> SUFFICES ASSUME placed(a), placed(b)
             PROVE  relateResolved(o, resolve(o, a), resolve(o, b)) # "disjoint"
  BY DEF relatePaths
<1> DEFINE x == resolve(o, a)
           y == resolve(o, b)
           p == r.path
           Fits(c, z) == /\ z.segs = c.segs /\ z.segs \in Seq(Segments)
                         /\ z.kind \in {"file", "dir", "glob"}
                         /\ z.kind = "file" => p = Text(z.segs)
                         /\ z.kind = "dir" => Starts(Text(z.segs), p)
                         /\ z.kind = "glob" => p \in z.paths /\ Matched(o, z, p)
<1>1. ASSUME NEW c \in PathClaims, Means(o, c), placed(c), ReachesPath(o, c, r)
      PROVE  Fits(c, resolve(o, c)) /\ resolve(o, c).root = r.root /\ resolve(o, c).abs = r.abs
  <2> DEFINE z == resolve(o, c)
  <2>1. /\ z.segs = c.segs /\ z.abs = c.abs /\ z.simple = c.simple /\ z.plain = c.plain /\ z.paths = c.paths
        /\ z.root = RootOf(o, c)
        /\ z.kind = IF c.kind = "glob" /\ ~isPattern(c) THEN "file" ELSE c.kind
    BY Resolved
  <2>2. c.segs \in Seq(Segments) /\ c.paths \subseteq Seq(Names) /\ c.kind \in {"file", "dir", "glob"}
    BY <1>1 DEF PathClaims, placed
  <2>3. CASE c.kind = "glob" /\ isPattern(c)
    <3>1. z.kind = "glob" /\ p \in c.paths
      BY <2>1, <2>3, <1>1 DEF ReachesPath
    <3>2. literalPrefix(z) = literalPrefix(c) /\ (precise(o, z) <=> precise(o, c))
      BY <2>1 DEF literalPrefix, precise, foldSafe
    <3>3. Matched(o, z, p)
      BY <1>1, <2>1, <2>2, <2>3, <3>1, <3>2 DEF Matched, Means
    <3> QED  BY <1>1, <2>1, <2>2, <3>1, <3>3 DEF ReachesPath
  <2>4. CASE c.kind = "glob" /\ ~isPattern(c)
    <3>1. z.kind = "file" /\ p = Text(c.segs)
      BY <1>1, <2>1, <2>4 DEF ReachesPath, Means
    <3> QED  BY <1>1, <2>1, <2>2, <3>1 DEF ReachesPath
  <2>5. CASE c.kind \in {"file", "dir"}
    <3>1. z.kind = c.kind /\ (c.kind = "file" => p = Text(c.segs)) /\ (c.kind = "dir" => Starts(Text(c.segs), p))
      BY <1>1, <2>1, <2>5 DEF ReachesPath
    <3> QED  BY <1>1, <2>1, <2>2, <2>5, <3>1 DEF ReachesPath
  <2> QED  BY <2>2, <2>3, <2>4, <2>5
<1>2. Fits(a, x) /\ Fits(b, y) /\ x.root = y.root /\ x.abs = y.abs
  BY <1>1
<1>3. Text(x.segs) \in Seq(Names) /\ Text(y.segs) \in Seq(Names)
  BY <1>2, TextType
<1>4. ASSUME NEW z, z.segs \in Seq(Segments), z.kind \in {"file", "dir"},
             z.kind = "file" => p = Text(z.segs), z.kind = "dir" => Starts(Text(z.segs), p)
      PROVE  Starts(Text(z.segs), p)
  BY <1>4, TextType DEF Starts
<1>5. CASE x.kind = "glob" /\ y.kind = "glob"
  BY <1>2, <1>5, GlobsSound DEF relateResolved
<1>6. CASE x.kind = "glob" /\ y.kind # "glob"
  <2>1. globVsLiteral(o, x, y) # "disjoint"
    BY <1>2, <1>4, <1>6, GlobLiteralSound
  <2> QED  BY <1>2, <1>6, <2>1 DEF relateResolved
<1>7. CASE x.kind # "glob" /\ y.kind = "glob"
  <2>1. globVsLiteral(o, y, x) # "disjoint"
    BY <1>2, <1>4, <1>7, GlobLiteralSound
  <2> QED  BY <1>2, <1>7, <2>1 DEF relateResolved
<1>8. CASE x.kind # "glob" /\ y.kind # "glob"
  <2>1. Starts(Text(x.segs), p) /\ Starts(Text(y.segs), p)
    BY <1>2, <1>4, <1>8
  <2>2. covers(x, y) \/ covers(y, x)
    BY <1>3, <2>1, CommonStart DEF covers
  <2>3. CASE x.kind = "dir" /\ y.kind = "dir"
    BY <1>2, <2>2, <2>3 DEF relateResolved, overlapIf
  <2>4. CASE x.kind = "dir" /\ y.kind = "file"
    BY <1>2, <2>1, <2>4 DEF relateResolved, overlapIf, covers
  <2>5. CASE x.kind = "file" /\ y.kind = "dir"
    BY <1>2, <2>1, <2>5 DEF relateResolved, overlapIf, covers
  <2>6. CASE x.kind = "file" /\ y.kind = "file"
    BY <1>2, <2>6 DEF relateResolved, overlapIf
  <2> QED  BY <1>2, <1>8, <2>3, <2>4, <2>5, <2>6
<1> QED  BY <1>5, <1>6, <1>7, <1>8

\* NamespaceDomain's Relate: the same for names and prefixes, in a namespace
\* with levels and in a flat one.
THEOREM NamesSound ==
  ASSUME NEW o, NEW a \in NameClaims, NEW b \in NameClaims,
         NEW r, ReachesName(o, a, r), ReachesName(o, b, r)
  PROVE  relateNames(o, a, b) # "disjoint"
PROOF
<1> SUFFICES ASSUME placedName(a), placedName(b)
             PROVE  relateNames(o, a, b) # "disjoint"
  BY DEF relateNames
<1>1. a.name \in Seq(Names) /\ b.name \in Seq(Names) /\ {a.kind, b.kind} \subseteq {"name", "prefix"}
  BY DEF NameClaims, placedName
<1>2. CASE a.kind = "name" /\ b.kind = "name"
  BY <1>2 DEF ReachesName, relateNames, overlapIf
<1>3. CASE a.kind = "prefix" /\ b.kind = "name"
  BY <1>3 DEF ReachesName, relateNames, overlapIf, contains
<1>4. CASE a.kind = "name" /\ b.kind = "prefix"
  BY <1>4 DEF ReachesName, relateNames, overlapIf, contains
<1>5. CASE a.kind = "prefix" /\ b.kind = "prefix"
  <2>1. Starts(a.name, r) /\ Starts(b.name, r) => Starts(a.name, b.name) \/ Starts(b.name, a.name)
    BY <1>1, CommonStart
  <2>2. contains(o, a.name, b.name) \/ contains(o, b.name, a.name)
    BY <1>1, <1>5, <2>1 DEF ReachesName, contains, Starts
  <2> QED  BY <1>5, <2>2 DEF relateNames, overlapIf
<1> QED  BY <1>1, <1>2, <1>3, <1>4, <1>5

\* Relate: a registered domain never calls two claims disjoint that reach a
\* common resource.
THEOREM RelateSound ==
  ASSUME NEW o, NEW a, NEW b, WellFormed(o, a), WellFormed(o, b),
         NEW r, Reaches(o, a, r), Reaches(o, b, r)
  PROVE  relate(o, a, b) # "disjoint"
PROOF BY PathsSound, NamesSound DEF relate, Reaches, WellFormed

(***************************************************************************)
(* It does not matter which of two claims comes first.                     *)
(***************************************************************************)
LEMMA GlobsSymmetric ==
  ASSUME NEW o, NEW a, NEW b, a.segs \in Seq(Segments), b.segs \in Seq(Segments)
  PROVE  globVsGlob(o, a, b) = globVsGlob(o, b, a)
PROOF
<1>1. prefixRelation(a, b) = prefixRelation(b, a)
  <2>1. (\A i \in literalPrefix(a) \cap literalPrefix(b) : a.segs[i].name = b.segs[i].name)
          <=> (\A i \in literalPrefix(b) \cap literalPrefix(a) : b.segs[i].name = a.segs[i].name)
    OBVIOUS
  <2> QED  BY <2>1 DEF prefixRelation, overlapIf
<1>2. \A s, t : segmentsDisjoint(s, t) <=> segmentsDisjoint(t, s)
  BY DEF segmentsDisjoint
<1>3. Len(a.segs) = Len(b.segs) => DOMAIN a.segs = DOMAIN b.segs
  OBVIOUS
<1> DEFINE Meet(x, y) == Len(x.segs) = Len(y.segs) /\ \A i \in DOMAIN x.segs : ~segmentsDisjoint(x.segs[i], y.segs[i])
<1>4. Meet(a, b) <=> Meet(b, a)
  BY <1>2, <1>3
<1> QED  BY <1>1, <1>4 DEF globVsGlob, overlapIf

LEMMA PathsSymmetric ==
  ASSUME NEW o, NEW a \in PathClaims, NEW b \in PathClaims
  PROVE  relatePaths(o, a, b) = relatePaths(o, b, a)
PROOF
<1> SUFFICES ASSUME placed(a), placed(b)
             PROVE  relateResolved(o, resolve(o, a), resolve(o, b)) = relateResolved(o, resolve(o, b), resolve(o, a))
  BY DEF relatePaths
<1> DEFINE x == resolve(o, a)
           y == resolve(o, b)
<1>1. /\ x.kind \in {"file", "dir", "glob"} /\ y.kind \in {"file", "dir", "glob"}
      /\ x.segs \in Seq(Segments) /\ y.segs \in Seq(Segments)
  BY Resolved DEF placed, PathClaims
<1>2. globVsGlob(o, x, y) = globVsGlob(o, y, x)
  BY <1>1, GlobsSymmetric
<1>3. /\ overlapIf(covers(x, y) \/ covers(y, x)) = overlapIf(covers(y, x) \/ covers(x, y))
      /\ overlapIf(Text(x.segs) = Text(y.segs)) = overlapIf(Text(y.segs) = Text(x.segs))
  BY DEF overlapIf
<1> HIDE DEF x, y
<1>4. relateResolved(o, x, y) = relateResolved(o, y, x)
  <2>1. CASE x.root # y.root \/ x.abs # y.abs
    BY <2>1 DEF relateResolved
  <2>2. CASE x.root = y.root /\ x.abs = y.abs /\ x.kind = "glob"
    BY <1>1, <1>2, <2>2 DEF relateResolved
  <2>3. CASE x.root = y.root /\ x.abs = y.abs /\ x.kind = "dir"
    BY <1>1, <1>3, <2>3 DEF relateResolved
  <2>4. CASE x.root = y.root /\ x.abs = y.abs /\ x.kind = "file"
    BY <1>1, <1>3, <2>4 DEF relateResolved
  <2> QED  BY <1>1, <2>1, <2>2, <2>3, <2>4
<1> QED  BY <1>4 DEF x, y

LEMMA NamesSymmetric ==
  ASSUME NEW o, NEW a, NEW b
  PROVE  relateNames(o, a, b) = relateNames(o, b, a)
PROOF
<1> SUFFICES ASSUME placedName(a), placedName(b)
             PROVE  relateNames(o, a, b) = relateNames(o, b, a)
  BY DEF relateNames
<1>1. a.kind \in {"name", "prefix"} /\ b.kind \in {"name", "prefix"}
  BY DEF placedName
<1>2. CASE a.kind = "name" /\ b.kind = "name"
  BY <1>2 DEF relateNames, overlapIf
<1>3. CASE a.kind = "prefix" /\ b.kind = "prefix"
  BY <1>3 DEF relateNames, overlapIf
<1>4. CASE a.kind # b.kind
  BY <1>1, <1>4 DEF relateNames
<1> QED  BY <1>1, <1>2, <1>3, <1>4

\* Proved: the Prover's answer for a pair of surfaces is that of the pair
\* turned round.
THEOREM ProvedSymmetric ==
  ASSUME NEW a, NEW b, Proved(a, b),
         \A i \in DOMAIN Domains : /\ \A c \in a[Domains[i].name] : WellFormed(Domains[i], c)
                                   /\ \A c \in b[Domains[i].name] : WellFormed(Domains[i], c)
  PROVE  Proved(b, a)
PROOF
<1>1. ASSUME NEW i \in DOMAIN Domains
      PROVE  ~Undeclared(Domains[i], b, a) /\ ~Unproved(Domains[i], b, a)
  <2> DEFINE o == Domains[i]
  <2>1. ~Undeclared(o, a, b) /\ ~Unproved(o, a, b)
    BY DEF Proved
  <2>2. ASSUME NEW x \in a[o.name], NEW y \in b[o.name]
        PROVE  relate(o, y, x) = relate(o, x, y)
    <3>1. WellFormed(o, x) /\ WellFormed(o, y)
      OBVIOUS
    <3> HIDE DEF o
    <3> QED  BY <3>1, PathsSymmetric, NamesSymmetric DEF relate, WellFormed
  <2> HIDE DEF o
  <2>3. ~Undeclared(o, b, a) /\ ~Unproved(o, b, a)
    BY <2>1, <2>2 DEF Undeclared, Unproved
  <2> QED  BY <2>3 DEF o
<1> QED  BY <1>1 DEF Proved, Known
=============================================================================
