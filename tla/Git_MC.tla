------------------------------- MODULE Git_MC -------------------------------
(***************************************************************************)
(* Git for TLC: two branches that do or do not conflict, a third to make;  *)
(* one process makes each kind of call, another moves what the first does. *)
(***************************************************************************)
EXTENDS Git, TLC

CONSTANTS p1, p2, main, topic, extra

Root == Commit({}, <<>>, "G")
On1(x) == Commit({x}, <<Root>>, "N")
\* main and topic fork from the root; or topic has merged main; or topic is
\* ahead of main and signed.
SomeStarts ==
  LET m == On1("a")
      t == On1("b")
      start(x, y) == main :> x @@ topic :> y @@ extra :> Absent
  IN  {start(m, t), start(m, On1("c")), start(m, Commit({"a", "b"}, <<t, m>>, "B")),
       start(m, Commit({"a", "b"}, <<Commit({"a", "b"}, <<m>>, "N")>>, "G")),
       start(m, Commit({"a", "b"}, <<m>>, "G"))}
SomeConflicts == {{"a", "c"}}

Moves == {[op |-> "MoveRef", ref |-> topic, old |-> On1("b"), new |-> On1("a"), dry |-> FALSE],
          [op |-> "DeleteBranch", ref |-> topic, old |-> On1("b"), dry |-> FALSE],
          [op |-> "Resign", ref |-> topic, base |-> main, sign |-> TRUE, dry |-> FALSE]}
MoreMoves == {[op |-> "MoveRef", ref |-> main, old |-> On1("a"), new |-> On1("b"), dry |-> TRUE],
              [op |-> "Resign", ref |-> topic, base |-> extra, sign |-> TRUE, dry |-> FALSE]}
             \cup {[op |-> "Resign", ref |-> topic, base |-> main, sign |-> s, dry |-> d] : s, d \in BOOLEAN}
\* Takes what another committed off topic again.
PutBack == [op |-> "MoveRef", ref |-> topic, old |-> Commit({"b", "d"}, <<On1("b")>>, "N"), new |-> On1("b"), dry |-> FALSE]
Rebases == {[op |-> "Rebase", upstream |-> main, dry |-> d] : d \in BOOLEAN}
Merges == {[op |-> "Merge", heads |-> h, ff |-> f, dry |-> d, sign |-> FALSE] :
             h \in {<<main>>, <<topic, extra>>, <<main, topic>>}, f \in {"allow", "never", "only"}, d \in BOOLEAN}
Creates == {[op |-> "CreateBranch", ref |-> b, start |-> main, force |-> f, dry |-> d] :
              b \in {topic, extra}, f, d \in BOOLEAN}
Trees == {[op |-> "WorktreeAdd", path |-> "w3", ref |-> main, branch |-> b, force |-> f, dry |-> d] :
            b \in {NoBranch, extra}, f, d \in BOOLEAN}
         \cup {[op |-> "WorktreeRemove", path |-> "w3", dry |-> d] : d \in BOOLEAN}
SomeWorkloads ==
  {p1 :> {c} @@ p2 :> Moves : c \in Moves \cup MoreMoves \cup Rebases}
    \cup {p1 :> {c} @@ p2 :> {PutBack} : c \in Moves}
    \cup {p1 :> {c} @@ p2 :> Rebases : c \in Merges}
    \cup {p1 :> Creates \cup Trees @@ p2 :> {c} : c \in Moves}
SomeDir == p1 :> "w1" @@ p2 :> "w2"
=============================================================================
