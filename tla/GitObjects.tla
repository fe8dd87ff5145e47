----------------------------- MODULE GitObjects -----------------------------
(***************************************************************************)
(* go/git: commits, the pure parts of Resign, and what the git commands    *)
(* that build commits do.  A commit is named by its content: a tree is a   *)
(* set of changes, a signature its state.  Messages, identities and dates  *)
(* are carried over verbatim and left out.                                 *)
(***************************************************************************)
EXTENDS Naturals, FiniteSets, SequencesExt

CONSTANT Conflicts   \* pairs of changes, as sets, that git cannot merge

Commit(tree, parents, sig) ==
  [tree |-> tree, parents |-> parents, sig |-> sig,
   past |-> UNION {{p} \cup p.past : p \in ToSet(parents)}]
Absent == [tree |-> {}, parents |-> <<>>, sig |-> "absent", past |-> {}]   \* a ref that does not exist

Ancestors(c) == {c} \cup c.past
isAncestor(a, c) == a \in Ancestors(c)

\* git's histories are finite and have no cycles.
IsHistory(c) ==
  \A a \in Ancestors(c) :
    /\ a = Commit(a.tree, a.parents, a.sig)
    /\ a.parents \in Seq(a.past) /\ IsFiniteSet(a.past)
    /\ a \notin a.past /\ \A b \in a.past : b.past \subseteq a.past

\* Base..Ref, every parent before its children.
commitRange(base, head) ==
  LET range == Ancestors(head) \ Ancestors(base)
  IN  CHOOSE order \in [1 .. Cardinality(range) -> range] :
        /\ ToSet(order) = range
        /\ \A i, j \in DOMAIN order : order[i] \in order[j].past => i < j

classifyGitSig(code) ==
  CASE code \in {"G", "U"} -> "good" [] code \in {"N", ""} -> "unsigned" [] OTHER -> "bad"
commitSigState(c) == classifyGitSig(c.sig)
rangeFullySigned(commits) == \A i \in DOMAIN commits : commitSigState(commits[i]) = "good"

commitTree(c, newParents, signature) == Commit(c.tree, newParents, signature)
\* Mutation: a commit keeps its parents.
recommitAlone(m, c, signature) ==
  [x \in DOMAIN m \cup {c} |-> IF x = c THEN commitTree(c, c.parents, signature) ELSE m[x]]
\* A parent outside the range keeps its identity.
Remapped(m, c) == IF c \in DOMAIN m THEN m[c] ELSE c
recommit(m, c, signature) ==
  LET newParents == [i \in DOMAIN c.parents |-> Remapped(m, c.parents[i])]
  IN  [x \in DOMAIN m \cup {c} |-> IF x = c THEN commitTree(c, newParents, signature) ELSE m[x]]
\* One forward pass.
remap(commits, signature) ==
  LET pass[k \in 0 .. Len(commits)] ==
        IF k = 0 THEN <<>> ELSE recommit(pass[k - 1], commits[k], signature)
  IN  pass[Len(commits)]

\* What resignReport finds; the no-op path examines each commit in place.
resignReport(commits, target, base, newTip) ==
  LET count(state) == Cardinality({i \in DOMAIN commits : commitSigState(target[commits[i]]) = state})
  IN  [commits |-> Len(commits),
       treesPreserved |-> \A i \in DOMAIN commits : target[commits[i]].tree = commits[i].tree,
       unsigned |-> count("unsigned"), bad |-> count("bad"),
       baseIsAncestor |-> isAncestor(base, newTip)]

(***************************************************************************)
(* git merge and git rebase.                                               *)
(***************************************************************************)
Conflicting(a, b) ==
  \E pair \in Conflicts : pair \cap (a.tree \ b.tree) # {} /\ pair \cap (b.tree \ a.tree) # {} /\ pair \subseteq a.tree \cup b.tree
\* The heads that a merge of heads into c still has to bring in.
Missing(c, heads) ==
  LET kept[n \in 0 .. Len(heads)] ==
        IF n = 0 THEN <<>>
        ELSE IF isAncestor(heads[n], c) THEN kept[n - 1] ELSE Append(kept[n - 1], heads[n])
  IN  kept[Len(heads)]
MergesCleanly(c, heads) ==
  LET all == <<c>> \o heads IN \A i, j \in DOMAIN all : i < j => ~Conflicting(all[i], all[j])
Merged(c, heads, signature) ==
  Commit(c.tree \cup UNION {h.tree : h \in ToSet(heads)}, <<c>> \o heads, signature)
\* One commit stands for the replayed ones.
Rebased(c, onto) ==
  IF isAncestor(onto, c) THEN c ELSE IF isAncestor(c, onto) THEN onto
  ELSE Commit(c.tree \cup onto.tree, <<onto>>, "N")

\* New content-identical history: the same commits over the same base, in the
\* same shape, whatever their signatures.
SameButSigned(a, b) ==
  \E new \in [Ancestors(a) -> Ancestors(b)] :
    /\ new[a] = b
    /\ \A c \in Ancestors(a) :
         /\ new[c].tree = c.tree
         /\ new[c].parents = [i \in DOMAIN c.parents |-> new[c.parents[i]]]
=============================================================================
