------------------------------ MODULE CostStore ------------------------------
(***************************************************************************)
(* go/cost: several processes Ingest transcripts, which are being written  *)
(* to at the same time, into one SQLite database.                          *)
(*                                                                         *)
(* Ingest reads the watermark, scans the transcript for tool names, takes  *)
(* the write lock (BEGIN IMMEDIATE), walks the transcript's new turns and  *)
(* commits.  The walk is one step: lines do not change once they are       *)
(* whole, and what it stages is private until the commit, so it amounts to *)
(* reading the transcript when the walk meets its end.                     *)
(***************************************************************************)
EXTENDS CostRows

CONSTANTS
  Procs,
  NoProc,   \* the writer when the database is not locked
  Blanks,   \* a transcript may hold blank lines
  Quiet     \* no transcript grows while it is being ingested

ASSUME NoProcAssumption == NoProc \notin Procs
ASSUME SwitchesAssumption == {Blanks, Quiet} \subseteq BOOLEAN

VARIABLES
  transcript,  \* transcript[p]: its lines, and whether the last is still partial
  day,
  pc,          \* pc[q]: the next step of q's Ingest
  job,         \* job[q]: the locals of q's Ingest
  writer,      \* who holds the database's write lock
  watermark, events, rows   \* the committed tables

vars == <<transcript, day, pc, job, writer, watermark, events, rows>>

NoJob == [path |-> CHOOSE p \in Paths : TRUE, mark |-> 0, tools |-> << >>,
          roster |-> CHOOSE r \in Rosters : TRUE, day |-> 1,
          events |-> {}, rows |-> {}, upto |-> 0]

Jobs == [path : Paths, mark : 0 .. MaxLines, tools : Seq(Tools \cup {NoTool}),
         roster : Rosters, day : Days,
         events : SUBSET Event, rows : SUBSET Row, upto : 0 .. MaxLines]

\* Every variable has its type: what is stored is rows of the two tables, and no
\* mark is past the last line.
CostTypeOK ==
  /\ transcript \in [Paths -> [lines : Seq(Line), torn : BOOLEAN]]
  /\ day \in Days
  /\ pc \in [Procs -> {"idle", "scan", "begin", "walk", "commit"}]
  /\ job \in [Procs -> Jobs]
  /\ writer \in Procs \cup {NoProc}
  /\ watermark \in [Paths -> 0 .. MaxLines]
  /\ events \subseteq Event /\ rows \subseteq Row

Init ==
  /\ transcript = [p \in Paths |-> [lines |-> << >>, torn |-> FALSE]]
  /\ day = 1
  /\ pc = [q \in Procs |-> "idle"]
  /\ job = [q \in Procs |-> NoJob]
  /\ writer = NoProc
  /\ watermark = [p \in Paths |-> 0]
  /\ events = {}
  /\ rows = {}

(***************************************************************************)
(* Two scans of a transcript.                                              *)
(***************************************************************************)
\* Turns calls back with each line that is not blank: LineNo counts those.
Turns(t) ==
  LET upTo[i \in 0 .. Len(t.lines)] ==
        IF i = 0 THEN << >>
        ELSE IF t.lines[i] = Blank THEN upTo[i - 1] ELSE Append(upTo[i - 1], t.lines[i])
  IN  upTo[Len(t.lines)]
Malformed(t, n) == Turns(t)[n] = Garbled \/ (t.torn /\ n = Len(Turns(t)))

\* toolNamesByLine counts every line, and skips the blank and the broken.
ToolNames(t) ==
  [i \in 1 .. Len(t.lines) |->
     IF t.lines[i] \in {Blank, Garbled} \/ (t.torn /\ i = Len(t.lines)) THEN NoTool
     ELSE t.lines[i].tool]
ToolAt(names, n) == IF n \in DOMAIN names THEN names[n] ELSE NoTool

(***************************************************************************)
(* The session writing a transcript, and the calendar.                     *)
(***************************************************************************)
MayGrow(p) == Quiet => \A q \in Procs : pc[q] # "idle" => job[q].path # p

\* The lines there are, in all transcripts.
Written == {pn \in Paths \X (1 .. MaxLines) : pn[2] <= Len(transcript[pn[1]].lines)}

\* A line is appended, all of it or so far only its first bytes.
Write(p) ==
  /\ MayGrow(p)
  /\ ~transcript[p].torn
  /\ Cardinality(Written) < MaxLines
  /\ \E line \in IF Blanks THEN Line ELSE Line \ {Blank}, torn \in BOOLEAN :
       /\ torn => line # Blank
       /\ transcript' = [transcript EXCEPT ![p] = [lines |-> Append(@.lines, line),
                                                   torn |-> torn]]
  /\ UNCHANGED <<day, pc, job, writer, watermark, events, rows>>

\* The rest of the line is written.
Complete(p) ==
  /\ MayGrow(p)
  /\ transcript[p].torn
  /\ transcript' = [transcript EXCEPT ![p].torn = FALSE]
  /\ UNCHANGED <<day, pc, job, writer, watermark, events, rows>>

Midnight ==
  /\ day < MaxDays
  /\ day' = day + 1
  /\ UNCHANGED <<transcript, pc, job, writer, watermark, events, rows>>

(***************************************************************************)
(* Ingest.                                                                 *)
(***************************************************************************)
Goto(q, label) == pc' = [pc EXCEPT ![q] = label]

\* Ingest is called in some build's process and reads the watermark, which is
\* not yet under the write lock.
Ingest(q) ==
  /\ pc[q] = "idle"
  /\ Goto(q, "scan")
  /\ \E p \in Paths, r \in Rosters :
       job' = [job EXCEPT ![q].path = p, ![q].mark = watermark[p],
                          ![q].roster = r, ![q].day = day]
  /\ UNCHANGED <<transcript, day, writer, watermark, events, rows>>

ScanTools(q) ==
  /\ pc[q] = "scan"
  /\ Goto(q, "begin")
  /\ job' = [job EXCEPT ![q].tools = ToolNames(transcript[job[q].path])]
  /\ UNCHANGED <<transcript, day, writer, watermark, events, rows>>

\* Mutation: a deferred transaction takes no lock until it writes.
BeginDeferred(q) ==
  /\ pc[q] = "begin"
  /\ writer' = q
  /\ Goto(q, "walk")
  /\ job' = [job EXCEPT ![q].day = day]
  /\ UNCHANGED <<transcript, day, watermark, events, rows>>

\* Mutation: the date is taken before waiting for the lock.
BeginWithOldDate(q) ==
  /\ pc[q] = "begin"
  /\ writer = NoProc
  /\ writer' = q
  /\ Goto(q, "walk")
  /\ UNCHANGED <<transcript, day, job, watermark, events, rows>>

\* BEGIN IMMEDIATE takes the write lock, then the call's one date is read.
Begin(q) ==
  /\ pc[q] = "begin"
  /\ writer = NoProc
  /\ writer' = q
  /\ Goto(q, "walk")
  /\ job' = [job EXCEPT ![q].day = day]
  /\ UNCHANGED <<transcript, day, watermark, events, rows>>

\* The numbers of the turns past the watermark read before the transaction.
NewTurns(q) == job[q].mark + 1 .. Len(Turns(transcript[job[q].path]))
Billable(q) ==
  LET t == transcript[job[q].path]
  IN  {n \in NewTurns(q) : ~Malformed(t, n) /\ Turns(t)[n].model \in Models}
ModelsSeen(q) == {Turns(transcript[job[q].path])[n].model : n \in Billable(q)}

PricedEvents(q) ==
  {LET turn == Turns(transcript[job[q].path])[n]
   IN  [path |-> job[q].path, line |-> n, model |-> turn.model,
        rate |-> job[q].roster[turn.model], tool |-> ToolAt(job[q].tools, n),
        errored |-> FALSE] : n \in Billable(q)}

\* Mutation: a line that does not parse is skipped.
PricedEventsOnly(q) == PricedEvents(q)

NewEvents(q) ==
  PricedEvents(q) \cup
  {[path |-> job[q].path, line |-> n, model |-> NoModel, rate |-> NoRate,
    tool |-> NoTool, errored |-> TRUE] :
     n \in {m \in NewTurns(q) : Malformed(transcript[job[q].path], m)}}

\* Mutation: a model without a price is billed all the same.
WalkUnpriced(q) ==
  /\ pc[q] = "walk"
  /\ Goto(q, "commit")
  /\ job' = [job EXCEPT
       ![q].events = NewEvents(q),
       ![q].rows = Recorded(rows, ModelsSeen(q), job[q].roster, job[q].day),
       ![q].upto = Len(Turns(transcript[job[q].path]))]
  /\ UNCHANGED <<transcript, day, writer, watermark, events, rows>>

\* The walk prices and inserts every new turn.  It gets to the end only if
\* each model has a price and no line has a row already.
Walk(q) ==
  /\ pc[q] = "walk"
  /\ \A m \in ModelsSeen(q) : job[q].roster[m] # NoRate
  /\ \A e \in events, n \in NewEvents(q) : <<e.path, e.line>> # <<n.path, n.line>>
  /\ Goto(q, "commit")
  /\ job' = [job EXCEPT
       ![q].events = NewEvents(q),
       ![q].rows = Recorded(rows, ModelsSeen(q), job[q].roster, job[q].day),
       ![q].upto = Len(Turns(transcript[job[q].path]))]
  /\ UNCHANGED <<transcript, day, writer, watermark, events, rows>>

\* The watermark moves with the rows it stands for.
Commit(q) ==
  /\ pc[q] = "commit"
  /\ events' = events \cup job[q].events
  /\ rows' = job[q].rows
  /\ watermark' = IF job[q].upto > job[q].mark
                  THEN [watermark EXCEPT ![job[q].path] = job[q].upto]
                  ELSE watermark
  /\ writer' = NoProc
  /\ Goto(q, "idle")
  /\ job' = [job EXCEPT ![q] = NoJob]
  /\ UNCHANGED <<transcript, day>>

\* The call fails, or its process crashes: a scan or a statement fails, the
\* lock stays busy, a model has no price, a line's row exists.  The database
\* rolls back what the call had written.
Fail(q) ==
  /\ pc[q] # "idle"
  /\ writer' = IF writer = q THEN NoProc ELSE writer
  /\ Goto(q, "idle")
  /\ job' = [job EXCEPT ![q] = NoJob]
  /\ UNCHANGED <<transcript, day, watermark, events, rows>>

Next ==
  \/ \E p \in Paths : Write(p) \/ Complete(p)
  \/ Midnight
  \/ \E q \in Procs :
       Ingest(q) \/ ScanTools(q) \/ Begin(q) \/ Walk(q) \/ Commit(q) \/ Fail(q)

Spec == Init /\ [][Next]_vars
-----------------------------------------------------------------------------
\* Two processes may ingest one transcript at once, each from a watermark it
\* read before either had the lock: still every line is billed at most once,
\* a batch is stored as a whole, and no stored event or rate changes.
Ledger == INSTANCE CostLedger
LedgerSpec == Ledger!Spec

\* No turn is skipped: each line up to the watermark that was billable has its
\* event, of its model, or is flagged as not having parsed when it was read, as
\* a line is that never does.
EveryTurnAccounted ==
  \A p \in Paths : \A n \in 1 .. watermark[p] :
    LET turn == Turns(transcript[p])[n]
    IN  turn.model \in Models \/ turn = Garbled =>
          \E e \in events : /\ e.path = p /\ e.line = n
                            /\ e.errored \/ e.model = turn.model

\* Reprice's answer about a day is final once a rate of a later day is
\* recorded: ingests that wait for each other record their rates in order.
PastRepriceStable ==
  [][\A m \in Models, d \in Days :
       (\E r \in rows : r.asOf > d) => RateAsOf(rows', m, d) = RateAsOf(rows, m, d)]_vars

\* An event's tool is the one its own turn called.
ToolIsTheTurns ==
  \A e \in events : ~e.errored => e.tool = Turns(transcript[e.path])[e.line].tool

\* Every historical rate a model has ever carried remains queryable.
EveryRateQueryable ==
  \A e \in events : ~e.errored => \E r \in rows : r.model = e.model /\ r.rate = e.rate
=============================================================================
