----------------------------- MODULE Ledger_MC -----------------------------
(***************************************************************************)
(* Ledger for TLC.  The cycles are interchangeable, and so are the         *)
(* outcomes: strings, so that they compare with "none" and "retracted".    *)
(***************************************************************************)
EXTENDS Ledger

LowAndHigh == {2, 5}
ClosedAndCarried == {"closed", "carried"}
TwoCycles == {"cycle1", "cycle2"}
=============================================================================
