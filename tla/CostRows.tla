------------------------------ MODULE CostRows ------------------------------
(***************************************************************************)
(* The rows of the go/cost database and the transcript lines they are made *)
(* from.  A turn is the model it used and the tool it called; tokens,      *)
(* buckets, roles and session ids are left out, and a rate stands for a    *)
(* whole price table.                                                      *)
(***************************************************************************)
EXTENDS Naturals, Sequences, FiniteSets

CONSTANTS
  Paths,      \* transcripts
  Models, NoModel,   \* billable turns' models; a turn without usage
  Tools, NoTool,
  Rates, NoRate,     \* price tables; a model that has no price
  Rosters,    \* the rosters of the builds in use: [Models -> Rates or NoRate]
  MaxLines,   \* bound: lines of all transcripts together
  MaxDays     \* bound: days

ASSUME RostersAssumption == Rosters # {} /\ Rosters \subseteq [Models -> Rates \cup {NoRate}]
ASSUME NothingAssumption ==
  /\ NoModel \notin Models /\ NoTool \notin Tools /\ NoRate \notin Rates
  /\ {"blank", "garbled"} \cap (Tools \cup {NoTool}) = {}
ASSUME BoundsAssumption == MaxLines \in Nat /\ MaxDays \in Nat \ {0}
ASSUME PathsAssumption == IsFiniteSet(Paths) /\ Paths # {}

Turn == [model : Models \cup {NoModel}, tool : Tools \cup {NoTool}]
Blank == [model |-> NoModel, tool |-> "blank"]
\* A whole line that does not parse: what a session that died left of one, say.
Garbled == [model |-> NoModel, tool |-> "garbled"]
Line == Turn \cup {Blank, Garbled}
Days == 1 .. MaxDays

\* cost_events: one row for a priced turn, one for a line that did not parse.
Priced == [path : Paths, line : 1 .. MaxLines, model : Models, rate : Rates,
           tool : Tools \cup {NoTool}, errored : {FALSE}]
Errored == [path : Paths, line : 1 .. MaxLines, model : {NoModel}, rate : {NoRate},
            tool : {NoTool}, errored : {TRUE}]
Event == Priced \cup Errored

\* rate_history.
Row == [model : Models, asOf : Days, rate : Rates]

\* recordRateHistory for each of the models: a rate already recorded for its
\* model stays under its first date, and a date's second rate is dropped.
Recorded(rows, models, roster, day) ==
  rows \cup {[model |-> m, asOf |-> day, rate |-> roster[m]] :
               m \in {n \in models :
                        ~\E r \in rows : /\ r.model = n
                                         /\ r.rate = roster[n] \/ r.asOf = day}}

\* rateAsOf: the rate of the latest row at or before the day, NoRate standing
\* for the fallback to the event's own.
RateAsOf(rows, model, day) ==
  LET at == {r \in rows : r.model = model /\ r.asOf <= day}
  IN  IF at = {} THEN NoRate
      ELSE (CHOOSE r \in at : \A s \in at : s.asOf <= r.asOf).rate
=============================================================================
