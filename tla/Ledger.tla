------------------------------- MODULE Ledger -------------------------------
(***************************************************************************)
(* go/ledger over go/docmirror: a process opens a register kept in a       *)
(* canonical JSON file and its Markdown mirror, calls Add, Resolve,        *)
(* Retract and Recur on the copy in its memory, and each call replaces     *)
(* both files, one after the other.  Either write may fail, and the        *)
(* process may crash between them and be started again.                    *)
(***************************************************************************)
EXTENDS LedgerEntries

CONSTANTS
  Absent,     \* a file that does not exist
  MaxFaults   \* bound: pairs broken off between their two files

ASSUME AbsentAssumption == Absent \notin Seq(Entry)
ASSUME MaxFaultsAssumption == MaxFaults \in Nat

VARIABLES
  json,     \* the canonical file: the entries it holds, or Absent
  mirror,   \* the Markdown file: the entries it shows, or Absent
  mem,      \* the open handle's document
  next,     \* the entries being persisted
  phase,    \* the handle's state, and the next step of its call
  faults,   \* pairs broken off so far
  acked,    \* history: the entries as last reported to a caller
  torn,     \* history: the last pair was broken off between its two files
  lost      \* history: the process ended while it held the only copy of acked

files == <<json, mirror>>
past == <<acked, torn, lost>>
vars == <<files, mem, next, phase, faults, past>>

LedgerTypeOK ==
  /\ json = Absent \/ json \in Seq(Entry)
  /\ mirror = Absent \/ mirror \in Seq(Entry)
  /\ mem \in Seq(Entry) /\ next \in Seq(Entry) /\ acked \in Seq(Entry)
  /\ phase \in {"closed", "open", "failed", "json", "mirror"}
  /\ faults \in 0 .. MaxFaults
  /\ torn \in BOOLEAN /\ lost \in BOOLEAN

Init ==
  /\ json = Absent /\ mirror = Absent
  /\ mem = << >> /\ next = << >> /\ acked = << >>
  /\ phase = "closed"
  /\ faults = 0
  /\ torn = FALSE /\ lost = FALSE

Stored == IF json = Absent THEN << >> ELSE json

\* Open loads the JSON, or starts a fresh register if there is none.
Open ==
  /\ phase = "closed"
  /\ mem' = Stored
  /\ phase' = "open"
  /\ UNCHANGED <<faults, files, next, past>>

\* A call validates, finds its entry and computes the new entries.
Call ==
  /\ phase \in {"open", "failed"}
  /\ next' \in Changes(mem)
  /\ phase' = "json"
  /\ UNCHANGED <<faults, files, mem, past>>

\* A call that validation, the id or the entry's resolution rules out.
Refuse ==
  /\ phase \in {"open", "failed"}
  /\ phase' = "failed"
  /\ UNCHANGED <<faults, files, mem, next, past>>

\* Recur in a cycle already seen reports success and persists nothing.
RecurAgain ==
  /\ phase \in {"open", "failed"}
  /\ \E i \in Positions(mem), c \in Cycles : HasRecurred(mem, i, c)
  /\ acked' = mem /\ lost' = FALSE
  /\ phase' = "open"
  /\ UNCHANGED <<faults, files, mem, next, torn>>

\* WritePair: the JSON is replaced, or its write fails.
WriteJSON ==
  /\ phase = "json"
  /\ json' = next
  /\ phase' = "mirror"
  /\ UNCHANGED <<faults, mirror, mem, next, past>>

\* Mutation: a write in place, torn by its failure.
JSONFailsTorn ==
  /\ phase = "json"
  /\ json' = Absent
  /\ next' = << >>
  /\ phase' = "failed"
  /\ UNCHANGED <<faults, mirror, mem, past>>

\* Mutation: the handle takes the new entries before they are written.
JSONFailsAfterCommit ==
  /\ phase = "json"
  /\ mem' = next
  /\ next' = << >>
  /\ phase' = "failed"
  /\ UNCHANGED <<faults, files, past>>

JSONFails ==
  /\ phase = "json"
  /\ next' = << >>
  /\ phase' = "failed"
  /\ UNCHANGED <<faults, files, mem, past>>

\* Mutation: the mirror is rendered from the handle's old entries.
WriteMirrorOfOld ==
  /\ phase = "mirror"
  /\ mirror' = mem
  /\ mem' = next
  /\ acked' = next
  /\ torn' = FALSE /\ lost' = FALSE
  /\ next' = << >>
  /\ phase' = "open"
  /\ UNCHANGED <<json, faults>>

\* The mirror is replaced; persist makes the new entries the handle's and the
\* call reports success.
WriteMirror ==
  /\ phase = "mirror"
  /\ mirror' = next
  /\ mem' = next
  /\ acked' = next
  /\ torn' = FALSE /\ lost' = FALSE
  /\ next' = << >>
  /\ phase' = "open"
  /\ UNCHANGED <<json, faults>>

\* Mutation: the handle keeps the new entries of the failed call.
MirrorFailsAfterCommit ==
  /\ phase = "mirror"
  /\ json' \in {Absent, json}
  /\ faults < MaxFaults
  /\ faults' = faults + 1
  /\ torn' = TRUE
  /\ mem' = next
  /\ next' = << >>
  /\ phase' = "failed"
  /\ UNCHANGED <<mirror, acked, lost>>

\* The mirror's write fails: WritePair removes the JSON file, and ignores it
\* if the removal fails.
MirrorFails ==
  /\ phase = "mirror"
  /\ json' \in {Absent, json}
  /\ faults < MaxFaults
  /\ faults' = faults + 1
  /\ torn' = TRUE
  /\ next' = << >>
  /\ phase' = "failed"
  /\ UNCHANGED <<mirror, mem, acked, lost>>

\* The process ends, between two calls or in the middle of one.
Exit ==
  /\ phase # "closed"
  /\ phase = "mirror" => faults < MaxFaults
  /\ faults' = IF phase = "mirror" THEN faults + 1 ELSE faults
  /\ phase' = "closed"
  /\ mem' = << >> /\ next' = << >>
  /\ torn' = (torn \/ phase = "mirror")
  /\ lost' = (lost \/ (json = Absent /\ acked # << >>))
  /\ UNCHANGED <<files, acked>>

Next ==
  \/ Open \/ Call \/ Refuse \/ RecurAgain
  \/ WriteJSON \/ JSONFails \/ WriteMirror \/ MirrorFails
  \/ Exit

Spec == Init /\ [][Next]_vars
-----------------------------------------------------------------------------
\* Entry f is entry e later on: the same id and criticality, no cycle
\* forgotten, a retraction still there, no recurrence after a resolution.
Continues(e, f) ==
  /\ f.id = e.id /\ f.criticality = e.criticality
  /\ e.cycles \subseteq f.cycles
  /\ f.recurrence = Cardinality(f.cycles)
  /\ e.resolution = "retracted" => f.resolution = "retracted"
  /\ e.resolution # "none" => f.resolution # "none" /\ f.cycles = e.cycles

Later(entries, later) ==
  /\ Len(entries) <= Len(later)
  /\ \A i \in Positions(entries) : Continues(entries[i], later[i])

\* What a caller was told is in the JSON file from then on, restarts and
\* failed or interrupted calls included (the contract of persist, ledger.go:93).
AckedEntriesSurvive == Later(acked, Stored)

\* Where the next success takes the entries from: the handle while the JSON
\* file is gone.
Held == IF json = Absent /\ phase # "closed" THEN mem ELSE Stored

\* What a caller was told is not forgotten, whichever write fails or is
\* interrupted: no entry vanishes, none gets another's id, and none goes back in
\* its life.  The one exception is a process that ended after WritePair had
\* removed the JSON file (write.go:34) and before a call put it back.
AckedEntriesKept == lost \/ Later(acked, Held)

\* Between calls the mirror shows what the JSON file holds, unless the last
\* pair was broken off between the two: then the next change that succeeds
\* puts them right, but not Recur in a cycle already seen (ledger.go:217).
MirrorAgrees == phase = "mirror" \/ torn \/ mirror = json

\* While a process has the register open, only a call that reported success
\* changes its copy: whichever write failed, the next success starts from the
\* last one.
HandleFollowsAcks ==
  [][phase # "closed" /\ phase' # "closed" /\ mem' # mem
       => phase' = "open" /\ mem' = acked']_vars

\* Every threshold at which some entry of the handle changes sides, and 0.
Thresholds ==
  {0} \cup {mem[i].criticality + d : i \in Positions(mem), d \in {0, 1}}

\* The rollup at t counts each entry once, on the side that Partition puts it.
Accounts(t) ==
  LET r == Rollup(mem, t)
  IN  /\ r.total = r.actNow + r.deferred + r.retracted
      /\ r.actNow = Cardinality(ActNow(mem, t))
      /\ r.deferred = Cardinality(Deferred(mem, t))

\* Partition of the live entries and Rollup's count of all of them, two passes
\* over different slices, agree at every threshold and drop no entry.
RollupAccountsForAll == \A t \in Thresholds : Accounts(t)

\* The handle and its file are one append-only register, each call one step of
\* it or none, that starts over only while its file is gone.
Contents == IF phase = "closed" THEN Stored ELSE mem
Register == INSTANCE FindingsRegister WITH entries <- Contents, unfiled <- (json = Absent)
RegisterSpec == Register!Spec
=============================================================================
