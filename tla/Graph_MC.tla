------------------------------ MODULE Graph_MC ------------------------------
(* Three nodes; two domains of paths and one of names; every pair of claims  *)
(* on two of the nodes, and every spread of three surfaces over the three.   *)
EXTENDS GraphOrder

MC_Ids == 1 .. 3
MC_TextOf == <<3, 1, 2>>
MC_ShortOf == <<4, 3, 4>>

Letters == {"a", "b"}
MC_Texts == Letters \cup {"*", "**", "b*", "["}
Below(n) == UNION {[1 .. k -> Letters] : k \in 1 .. n}
MC_Resources ==
  [paths |-> [root : {"r", "q"}, abs : BOOLEAN, path : Below(3)], names |-> Below(3)]

MC_Domains ==
  <<[name |-> "folded", compares |-> "paths", fold |-> "lower", matcher |-> FALSE, root |-> "r", separator |-> TRUE],
    [name |-> "exact", compares |-> "paths", fold |-> "none", matcher |-> TRUE, root |-> "", separator |-> TRUE],
    [name |-> "locks", compares |-> "names", fold |-> "none", matcher |-> FALSE, root |-> "", separator |-> TRUE]>>

Lit(n) == [name |-> n, meta |-> FALSE, matches |-> {n}, bad |-> FALSE]
Any == [name |-> "*", meta |-> TRUE, matches |-> Letters, bad |-> FALSE]
OneOf(n) == [name |-> n \o "*", meta |-> TRUE, matches |-> {n}, bad |-> FALSE]
NoPattern == [name |-> "[", meta |-> TRUE, matches |-> {}, bad |-> TRUE]
Deep == [name |-> "**", meta |-> TRUE, matches |-> Letters, bad |-> FALSE]

Claim(kind, segs, paths) ==
  [kind |-> kind, empty |-> FALSE, escapes |-> FALSE, root |-> "r", abs |-> FALSE,
   segs |-> segs, simple |-> TRUE, plain |-> TRUE, paths |-> paths]
File(segs) == Claim("file", segs, {})
Dir(segs) == Claim("dir", segs, {})
Glob(segs) == Claim("glob", segs, {p \in Below(3) : Len(p) = Len(segs) /\ \A i \in DOMAIN p : p[i] \in segs[i].matches})
\* A pattern of no fixed depth: under the segments, at any depth.
DeepGlob(segs) ==
  [Claim("glob", Append(segs, Deep), {p \in Below(3) : Len(p) > Len(segs) /\ \A i \in DOMAIN segs : p[i] \in segs[i].matches})
     EXCEPT !.simple = FALSE]

A == Lit("a")
B == Lit("b")
AnywhereB ==
  [Claim("glob", <<Deep, B>>, {p \in Below(3) : p[Len(p)] = "b"}) EXCEPT !.simple = FALSE]
MC_Paths ==
  <<File(<<A, B>>), Dir(<<>>), Dir(<<A>>), Dir(<<A, B>>), Glob(<<A, Any>>), Glob(<<Any, B>>), Glob(<<A, OneOf("b"), A>>),
    Glob(<<A, B>>), DeepGlob(<<A>>), AnywhereB, [Glob(<<B, NoPattern>>) EXCEPT !.plain = FALSE],
    [File(<<A, B>>) EXCEPT !.abs = TRUE], [Dir(<<A>>) EXCEPT !.root = ""], [File(<<A, B>>) EXCEPT !.root = "q"],
    [Dir(<<A>>) EXCEPT !.escapes = TRUE], Glob(<<B, A, Any>>)>>
MC_Names == <<[kind |-> "name", name |-> <<"a", "b">>], [kind |-> "prefix", name |-> <<"a">>],
                [kind |-> "prefix", name |-> <<"a", "b">>], [kind |-> "name", name |-> <<"b">>]>>

\* Two of the nodes compare each pair of claims once; the graph's insertion
\* order puts either of them first.
None == [folded |-> {}, exact |-> {}, locks |-> {}]
OnPaths(c) == [None EXCEPT !.folded = {c}, !.exact = {c}]
OnNames(c) == [None EXCEPT !.locks = {c}]
Ordered(claims) == {p \in (DOMAIN claims) \X (DOMAIN claims) : p[1] <= p[2]}
Pairs ==
  {<<OnPaths(MC_Paths[p[1]]), OnPaths(MC_Paths[p[2]]), None>> : p \in Ordered(MC_Paths)}
  \cup {<<OnNames(MC_Names[p[1]]), OnNames(MC_Names[p[2]]), <<>>>> : p \in Ordered(MC_Names)}
Spreads == [MC_Ids -> {None, OnPaths(Dir(<<A>>)), [folded |-> {}]}]
MC_Calls == [surfaces : Pairs, cap : {0}] \cup [surfaces : Spreads, cap : {0, 2}]
=============================================================================
