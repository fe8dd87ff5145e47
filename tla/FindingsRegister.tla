-------------------------- MODULE FindingsRegister --------------------------
(***************************************************************************)
(* What go/ledger promises: one append-only register, changed by one       *)
(* accepted call at a time, each in one step, with no mirror and no handle.*)
(* A failure may leave it without a file; only then may it start over.     *)
(* Ledger is shown to implement it.                                        *)
(***************************************************************************)
EXTENDS LedgerEntries

VARIABLES
  entries,
  unfiled   \* no file holds the entries

vars == <<entries, unfiled>>

Init == entries = << >> /\ unfiled = TRUE

Accept ==
  /\ entries' \in Changes(entries)
  /\ unfiled' = FALSE

\* Losing the file, and filing the entries again, changes none of them.
LoseFile == unfiled' = TRUE /\ UNCHANGED entries
Refile == unfiled' = FALSE /\ UNCHANGED entries

StartOver ==
  /\ unfiled = TRUE
  /\ entries' = << >>
  /\ UNCHANGED unfiled

Next == Accept \/ LoseFile \/ Refile \/ StartOver

Spec == Init /\ [][Next]_vars
=============================================================================
