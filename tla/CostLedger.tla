----------------------------- MODULE CostLedger -----------------------------
(***************************************************************************)
(* What go/cost promises: the lines of a transcript are billed in order,   *)
(* each at most once, in batches that happen entirely or not at all, and   *)
(* nothing stored changes.  No process, transaction, lock or failure.      *)
(***************************************************************************)
EXTENDS CostRows

VARIABLES
  watermark,  \* lines of each transcript billed so far
  events,     \* cost_events
  rows        \* rate_history

vars == <<watermark, events, rows>>

Init ==
  /\ watermark = [p \in Paths |-> 0]
  /\ events = {}
  /\ rows = {}

OnePerLine(new) == \A e, f \in new : e.line = f.line => e = f

OnePerDateAndRate(all) ==
  \A r, s \in all : /\ r.model = s.model
                    /\ r.asOf = s.asOf \/ r.rate = s.rate
                    => r = s

Bill(p, n) ==
  /\ watermark[p] < n
  /\ watermark' = [watermark EXCEPT ![p] = n]
  /\ events \subseteq events'
  /\ \A e \in events' \ events : e.path = p /\ e.line \in watermark[p] + 1 .. n
  /\ OnePerLine(events' \ events)
  /\ rows \subseteq rows'
  /\ \A r \in rows' \ rows : \E e \in events' \ events : e.model = r.model /\ e.rate = r.rate
  /\ OnePerDateAndRate(rows')

Next == \E p \in Paths, n \in 1 .. MaxLines : Bill(p, n)

Spec == Init /\ [][Next]_vars
=============================================================================
