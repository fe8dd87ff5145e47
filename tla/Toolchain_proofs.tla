-------------------------- MODULE Toolchain_proofs --------------------------
(***************************************************************************)
(* Proofs about go/toolchain's Run: its types, what the cache's lock        *)
(* protects, what a replayed verdict was computed for, that a success was   *)
(* earned from the tools, and how the currency verdicts age.                *)
(***************************************************************************)
EXTENDS Toolchain, FiniteSetTheorems, WellFoundedInduction, TLAPS

(***************************************************************************)
(* Types.                                                                  *)
(***************************************************************************)
LEMMA VerdictType ==
  ASSUME ToolchainTypeOK, NEW j, j.allow \in BOOLEAN, j.edited \in BOOLEAN, NEW t, NEW catalog
  PROVE  Verdict(j, t, catalog) \in Verdicts
PROOF
<1>1. classifyStatus(j.r, t, Findings(j.r, t, catalog), j.allow) \in {"success", "gate_negative"}
  BY DEF classifyStatus, Classify
<1>2. Clean(j.r, t, j.allow) \in BOOLEAN
  BY Zenon DEF Clean
<1>3. dir.src \in Sources
  BY DEF ToolchainTypeOK
<1> QED  BY <1>1, <1>2, <1>3 DEF Verdict, Verdicts

\* What a call holds, by where it stands.
RunJobs == [pc : {"lookup", "run"}, r : Requests, allow : BOOLEAN, hash : Hashes, edited : BOOLEAN]
LockJobs == [pc : {"lock"}, r : Requests, hash : Hashes, result : Verdicts]
UnlockJobs == [pc : {"unlock"}, r : Requests, result : Verdicts \cup {Failed}]
LEMMA JobKinds == Jobs = {Idle} \cup RunJobs \cup LockJobs \cup UnlockJobs
PROOF
BY Zenon DEF Jobs, RunJobs, LockJobs, UnlockJobs

LEMMA JobFields ==
  ASSUME ToolchainTypeOK, NEW p \in Procs
  PROVE  /\ job[p].pc \in {"idle", "lookup", "run", "lock", "save", "unlock"}
         /\ At(p, "lookup") \/ At(p, "run") => job[p] \in RunJobs
         /\ At(p, "lock") => job[p] \in LockJobs
         /\ At(p, "save") => job[p] \in SavingJobs({job[p].doc}) /\ IsDoc(job[p].doc)
         /\ At(p, "unlock") => job[p] \in UnlockJobs
PROOF
<1>1. CASE job[p] \in SavingJobs({job[p].doc}) /\ IsDoc(job[p].doc)
  BY <1>1 DEF At, SavingJobs
<1>2. CASE job[p] = Idle
  BY <1>2 DEF At, Idle
<1>3. CASE job[p] \in RunJobs
  BY <1>3 DEF At, RunJobs
<1>4. CASE job[p] \in LockJobs
  BY <1>4 DEF At, LockJobs
<1>5. CASE job[p] \in UnlockJobs
  BY <1>5 DEF At, UnlockJobs
<1>6. job[p] \in Jobs \/ (job[p] \in SavingJobs({job[p].doc}) /\ IsDoc(job[p].doc))
  BY DEF ToolchainTypeOK, IsJob
<1> QED  BY <1>1, <1>2, <1>3, <1>4, <1>5, <1>6, JobKinds

\* A document with one entry more, or one replaced.
LEMMA DocWith ==
  ASSUME NEW doc, IsDoc(doc), NEW r \in Requests, NEW e \in Entries
  PROVE  IsDoc([q \in DOMAIN doc \cup {r} |-> IF q = r THEN e ELSE doc[q]])
PROOF
<1> DEFINE new == [q \in DOMAIN doc \cup {r} |-> IF q = r THEN e ELSE doc[q]]
<1>1. DOMAIN new = DOMAIN doc \cup {r} /\ DOMAIN new \subseteq Requests
  BY DEF IsDoc
<1>2. \A q \in DOMAIN doc : doc[q] \in Entries
  BY DEF IsDoc
<1>3. \A q \in DOMAIN new : new[q] \in Entries
  BY <1>1, <1>2
<1> QED  BY <1>1, <1>3 DEF IsDoc

\* The type of a state that differs in p's call and result alone.
CallType(j, outcome) ==
  /\ IsJob(j)
  /\ outcome \in Verdicts \cup {Failed, None}

LEMMA CallKeepsType ==
  ASSUME ToolchainTypeOK, NEW p \in Procs, NEW j, NEW outcome, CallType(j, outcome),
         job' = [job EXCEPT ![p] = j], last' = [last EXCEPT ![p] = outcome]
  PROVE  /\ DOMAIN job' = Procs
         /\ \A q \in Procs : IsJob(job'[q])
         /\ last' \in [Procs -> Verdicts \cup {Failed, None}]
PROOF
<1>1. DOMAIN job = Procs /\ DOMAIN job' = Procs
  BY DEF ToolchainTypeOK
<1>2. job'[p] = j
  BY <1>1
<1>3. \A q \in Procs : q # p => job'[q] = job[q]
  BY <1>1
<1>4. last' \in [Procs -> Verdicts \cup {Failed, None}]
  BY DEF ToolchainTypeOK, CallType
<1>5. ASSUME NEW q \in Procs
      PROVE  IsJob(job'[q])
  <2>1. CASE q = p
    BY <1>2, <2>1 DEF CallType
  <2>2. CASE q # p
    BY <1>3, <2>2 DEF ToolchainTypeOK
  <2> QED  BY <2>1, <2>2
<1> QED  BY <1>1, <1>4, <1>5

LEMMA BeginType ==
  ASSUME ToolchainTypeOK, NEW p \in Procs, Begin(p)
  PROVE  ToolchainTypeOK'
PROOF
<1> DEFINE first(r, allow) ==
             [pc |-> "lookup", r |-> r, allow |-> allow, hash |-> ContentHash, edited |-> FALSE]
<1>1. /\ At(p, "idle") /\ runs[p] < MaxRuns /\ runs' = [runs EXCEPT ![p] = @ + 1]
      /\ UNCHANGED <<dir, day, tags, makes, cache, lock, lapse>>
  BY DEF Begin, world, locking
<1>2. PICK r \in makes[p], allow \in BOOLEAN :
        IF Subprocess(r.language, r.check) /\ Spawned(r) = <<>>
        THEN Return(p, Failed)
        ELSE job' = [job EXCEPT ![p] = first(r, allow)] /\ UNCHANGED last
  BY DEF Begin
<1>3. r \in Requests
  BY DEF ToolchainTypeOK
<1>4. PICK j, outcome : /\ CallType(j, outcome)
                        /\ job' = [job EXCEPT ![p] = j] /\ last' = [last EXCEPT ![p] = outcome]
  <2>1. CASE Return(p, Failed)
    <3>1. CallType(Idle, Failed)
      BY DEF CallType, IsJob, Jobs
    <3> QED  BY <2>1, <3>1 DEF Return
  <2>2. CASE job' = [job EXCEPT ![p] = first(r, allow)] /\ UNCHANGED last
    <3>1. ContentHash \in Hashes
      BY DEF ToolchainTypeOK, ContentHash, Hashes
    <3>2. first(r, allow) \in RunJobs
      BY <1>3, <3>1 DEF RunJobs
    <3>3. CallType(first(r, allow), last[p])
      BY <3>2, JobKinds DEF CallType, IsJob, ToolchainTypeOK
    <3>4. last' = [last EXCEPT ![p] = last[p]]
      BY <2>2 DEF ToolchainTypeOK
    <3> QED  BY <2>2, <3>3, <3>4
  <2> QED  BY <1>2, <2>1, <2>2
<1>5. runs' \in [Procs -> 0 .. MaxRuns]
  BY <1>1, BoundsAssumption DEF ToolchainTypeOK
<1> QED  BY <1>1, <1>4, <1>5, CallKeepsType DEF ToolchainTypeOK, IsDoc

LEMMA lookupType ==
  ASSUME ToolchainTypeOK, NEW p \in Procs, lookupCache(p)
  PROVE  ToolchainTypeOK'
PROOF
<1>1. /\ At(p, "lookup")
      /\ UNCHANGED <<dir, day, tags, makes, cache, lock, lapse, runs>>
  BY DEF lookupCache, world, locking
<1>2. PICK j, outcome : /\ CallType(j, outcome)
                        /\ job' = [job EXCEPT ![p] = j] /\ last' = [last EXCEPT ![p] = outcome]
  <2>1. CASE Hit(p)
    <3>1. cache.entries[job[p].r].result \in Verdicts
      BY <2>1 DEF Hit, ToolchainTypeOK, IsDoc, Entries
    <3>2. CallType(Idle, cache.entries[job[p].r].result)
      BY <3>1 DEF CallType, IsJob, Jobs
    <3> QED  BY <2>1, <3>2 DEF lookupCache, Return
  <2>2. CASE ~Hit(p)
    <3> DEFINE j == [job[p] EXCEPT !.pc = "run"]
    <3>1. job[p] \in RunJobs
      BY <1>1, JobFields
    <3>2. j \in RunJobs
      BY <3>1 DEF RunJobs
    <3>3. CallType(j, last[p])
      BY <3>2, JobKinds DEF CallType, IsJob, ToolchainTypeOK
    <3>4. last' = [last EXCEPT ![p] = last[p]]
      BY <2>2 DEF ToolchainTypeOK, lookupCache
    <3>5. job' = [job EXCEPT ![p] = j]
      BY <2>2 DEF lookupCache
    <3> QED  BY <3>3, <3>4, <3>5
  <2> QED  BY <2>1, <2>2
<1> QED  BY <1>1, <1>2, CallKeepsType DEF ToolchainTypeOK, IsDoc

LEMMA ExecuteType ==
  ASSUME ToolchainTypeOK, NEW p \in Procs, Execute(p)
  PROVE  ToolchainTypeOK'
PROOF
<1>1. At(p, "run") /\ UNCHANGED <<day, tags, makes, cache, lock, lapse, last, runs>>
  BY DEF Execute, locking
<1>2. job[p] \in RunJobs
  BY <1>1, JobFields
<1>3. PICK t, catalog :
        job' = [job EXCEPT ![p] = [pc |-> "lock", r |-> job[p].r, hash |-> job[p].hash,
                                   result |-> Verdict(job[p], t, catalog)]]
  BY DEF Execute
<1> DEFINE v == Verdict(job[p], t, catalog)
           j == [pc |-> "lock", r |-> job[p].r, hash |-> job[p].hash, result |-> v]
<1>4. v \in Verdicts
  BY <1>2, VerdictType DEF RunJobs
<1> HIDE DEF v
<1>5. j \in LockJobs
  BY <1>2, <1>4 DEF RunJobs, LockJobs
<1>6. CallType(j, last[p])
  BY <1>5, JobKinds DEF CallType, IsJob, ToolchainTypeOK
<1>7. last' = [last EXCEPT ![p] = last[p]]
  BY <1>1 DEF ToolchainTypeOK
<1>8. dir' \in [src : Sources, report : Reports \cup {NoReport}]
  BY DEF Execute, ToolchainTypeOK
<1>9. job' = [job EXCEPT ![p] = j]
  BY <1>3 DEF v
<1> HIDE DEF j
<1>10. DOMAIN job' = Procs /\ (\A q \in Procs : IsJob(job'[q])) /\ last' \in [Procs -> Verdicts \cup {Failed, None}]
  BY <1>6, <1>7, <1>9, CallKeepsType
<1> QED  BY <1>1, <1>8, <1>10 DEF ToolchainTypeOK

\* The steps that give p another call and leave its result.
LEMMA StepKeepsType ==
  ASSUME ToolchainTypeOK, NEW p \in Procs, NEW j, IsJob(j), job' = [job EXCEPT ![p] = j],
         lock' \in Procs \cup {NoProc}, lapse' \in BOOLEAN, UNCHANGED <<dir, day, tags, makes, cache, last, runs>>
  PROVE  ToolchainTypeOK'
PROOF
<1>1. CallType(j, last[p])
  BY DEF CallType, ToolchainTypeOK
<1>2. last' = [last EXCEPT ![p] = last[p]]
  BY DEF ToolchainTypeOK
<1>3. DOMAIN job' = Procs /\ (\A q \in Procs : IsJob(job'[q])) /\ last' \in [Procs -> Verdicts \cup {Failed, None}]
  BY <1>1, <1>2, CallKeepsType
<1> QED  BY <1>3 DEF ToolchainTypeOK

LEMMA LockType ==
  ASSUME ToolchainTypeOK, NEW p \in Procs, LockAndRead(p)
  PROVE  ToolchainTypeOK'
PROOF
<1>1. /\ At(p, "lock") /\ lock' = p /\ lapse' \in BOOLEAN
      /\ UNCHANGED <<dir, day, tags, makes, cache, last, runs>>
  BY DEF LockAndRead, world, ToolchainTypeOK
<1>2. job[p] \in LockJobs
  BY <1>1, JobFields
<1>3. CASE cache.newer
  <2> DEFINE j == [pc |-> "unlock", r |-> job[p].r, result |-> Failed]
  <2>1. j \in UnlockJobs
    BY <1>2 DEF LockJobs, UnlockJobs
  <2>2. IsJob(j) /\ job' = [job EXCEPT ![p] = j]
    BY <1>3, <2>1, JobKinds DEF IsJob, LockAndRead
  <2> QED  BY <1>1, <2>2, StepKeepsType
<1>4. CASE ~cache.newer
  <2> DEFINE j == [pc |-> "save", r |-> job[p].r, hash |-> job[p].hash, result |-> job[p].result,
                   doc |-> cache.entries]
  <2>1. j \in SavingJobs({j.doc}) /\ j.pc = "save" /\ IsDoc(j.doc)
    BY <1>2 DEF LockJobs, SavingJobs, ToolchainTypeOK
  <2>2. IsJob(j) /\ job' = [job EXCEPT ![p] = j]
    BY <1>4, <2>1 DEF IsJob, LockAndRead
  <2> QED  BY <1>1, <2>2, StepKeepsType
<1> QED  BY <1>3, <1>4

LEMMA RemoveType ==
  ASSUME ToolchainTypeOK, NEW p \in Procs, RemoveLock(p)
  PROVE  lock' \in Procs \cup {NoProc} /\ lapse' \in BOOLEAN
PROOF
BY DEF RemoveLock, ToolchainTypeOK

LEMMA BreakType ==
  ASSUME ToolchainTypeOK, NEW p \in Procs, BreakLock(p)
  PROVE  ToolchainTypeOK'
PROOF
<1>1. RemoveLock(p) /\ UNCHANGED <<dir, day, tags, makes, cache, job, last, runs>>
  BY DEF BreakLock, world
<1> QED  BY <1>1, RemoveType DEF ToolchainTypeOK, IsDoc

\* What Save writes: the document as it was read, with this call's entry.
LEMMA SaveDoes ==
  ASSUME ToolchainTypeOK, NEW p \in Procs, Save(p)
  PROVE  LET doc == job[p].doc
             e == [hash |-> job[p].hash, result |-> job[p].result]
         IN  /\ At(p, "save") /\ job[p].r \in Requests /\ e \in Entries /\ IsDoc(doc)
             /\ job[p].result \in Verdicts
             /\ cache' = [newer |-> FALSE,
                          entries |-> [q \in DOMAIN doc \cup {job[p].r} |-> IF q = job[p].r THEN e ELSE doc[q]]]
             /\ job' = [job EXCEPT ![p] = [pc |-> "unlock", r |-> job[p].r, result |-> job[p].result]]
             /\ UNCHANGED <<dir, day, tags, makes, lock, lapse, last, runs>>
PROOF
<1>1. At(p, "save")
  BY DEF Save
<1>2. job[p] \in SavingJobs({job[p].doc}) /\ IsDoc(job[p].doc)
  BY <1>1, JobFields
<1>3. job[p].r \in Requests /\ job[p].result \in Verdicts /\ job[p].hash \in Hashes
  BY <1>2 DEF SavingJobs
<1> QED  BY <1>1, <1>2, <1>3 DEF Save, Entries, world, locking

LEMMA SaveType ==
  ASSUME ToolchainTypeOK, NEW p \in Procs, Save(p)
  PROVE  ToolchainTypeOK'
PROOF
<1> DEFINE doc == job[p].doc
           e == [hash |-> job[p].hash, result |-> job[p].result]
           new == [q \in DOMAIN doc \cup {job[p].r} |-> IF q = job[p].r THEN e ELSE doc[q]]
           j == [pc |-> "unlock", r |-> job[p].r, result |-> job[p].result]
<1>1. /\ job[p].r \in Requests /\ e \in Entries /\ IsDoc(doc)
      /\ job[p].result \in Verdicts
      /\ cache' = [newer |-> FALSE, entries |-> new]
      /\ job' = [job EXCEPT ![p] = j]
      /\ UNCHANGED <<dir, day, tags, makes, lock, lapse, last, runs>>
  BY SaveDoes
<1>2. IsDoc(new)
  BY <1>1, DocWith
<1>3. cache'.entries = new /\ cache' \in [newer : BOOLEAN, entries : {cache'.entries}]
  BY <1>1
<1>4. j \in UnlockJobs
  BY <1>1 DEF UnlockJobs
<1>5. CallType(j, last[p])
  BY <1>4, JobKinds DEF CallType, IsJob, ToolchainTypeOK
<1>6. last' = [last EXCEPT ![p] = last[p]]
  BY <1>1 DEF ToolchainTypeOK
<1> HIDE DEF new, j
<1>7. DOMAIN job' = Procs /\ (\A q \in Procs : IsJob(job'[q])) /\ last' \in [Procs -> Verdicts \cup {Failed, None}]
  BY <1>1, <1>5, <1>6, CallKeepsType
<1> QED  BY <1>1, <1>2, <1>3, <1>7 DEF ToolchainTypeOK

LEMMA WriteFailsType ==
  ASSUME ToolchainTypeOK, NEW p \in Procs, WriteFails(p)
  PROVE  ToolchainTypeOK'
PROOF
<1> DEFINE j == [pc |-> "unlock", r |-> job[p].r, result |-> Failed]
<1>1. /\ At(p, "save") /\ job' = [job EXCEPT ![p] = j]
      /\ UNCHANGED <<dir, day, tags, makes, cache, lock, lapse, last, runs>>
  BY DEF WriteFails, world, locking
<1>2. job[p].r \in Requests
  BY <1>1, JobFields DEF SavingJobs
<1>3. j \in UnlockJobs
  BY <1>2 DEF UnlockJobs
<1>4. IsJob(j)
  BY <1>3, JobKinds DEF IsJob
<1>5. lock' \in Procs \cup {NoProc} /\ lapse' \in BOOLEAN
  BY <1>1 DEF ToolchainTypeOK
<1> QED  BY <1>1, <1>4, <1>5, StepKeepsType

\* The steps that end p's call.
LEMMA ReturnType ==
  ASSUME ToolchainTypeOK, NEW p \in Procs, NEW outcome \in Verdicts \cup {Failed, None}, Return(p, outcome),
         lock' \in Procs \cup {NoProc}, lapse' \in BOOLEAN, UNCHANGED <<dir, day, tags, makes, cache, runs>>
  PROVE  ToolchainTypeOK'
PROOF
<1>1. CallType(Idle, outcome)
  BY DEF CallType, IsJob, Jobs
<1> QED  BY <1>1, CallKeepsType DEF ToolchainTypeOK, IsDoc, Return

LEMMA FailType ==
  ASSUME ToolchainTypeOK, NEW p \in Procs, ExecuteFails(p) \/ LockFails(p) \/ Dies(p)
  PROVE  ToolchainTypeOK'
PROOF
<1>1. /\ Return(p, Failed) \/ Return(p, None)
      /\ UNCHANGED <<dir, day, tags, makes, cache, lock, lapse, runs>>
  BY DEF ExecuteFails, LockFails, Dies, world, locking
<1>2. lock' \in Procs \cup {NoProc} /\ lapse' \in BOOLEAN
  BY <1>1 DEF ToolchainTypeOK
<1> QED  BY <1>1, <1>2, ReturnType

LEMMA UnlockType ==
  ASSUME ToolchainTypeOK, NEW p \in Procs, Unlock(p)
  PROVE  ToolchainTypeOK'
PROOF
<1>1. /\ At(p, "unlock") /\ RemoveLock(p) /\ Return(p, job[p].result)
      /\ UNCHANGED <<dir, day, tags, makes, cache, runs>>
  BY DEF Unlock, world
<1>2. job[p].result \in Verdicts \cup {Failed}
  BY <1>1, JobFields DEF UnlockJobs
<1> QED  BY <1>1, <1>2, RemoveType, ReturnType

LEMMA UncachedType ==
  ASSUME ToolchainTypeOK, NEW p \in Procs, ReturnUncached(p)
  PROVE  ToolchainTypeOK'
PROOF
<1>1. /\ At(p, "lock") /\ Return(p, job[p].result)
      /\ UNCHANGED <<dir, day, tags, makes, cache, lock, lapse, runs>>
  BY DEF ReturnUncached, world, locking
<1>2. job[p].result \in Verdicts
  BY <1>1, JobFields DEF LockJobs
<1>3. lock' \in Procs \cup {NoProc} /\ lapse' \in BOOLEAN
  BY <1>1 DEF ToolchainTypeOK
<1> QED  BY <1>1, <1>2, <1>3, ReturnType

\* The world around changes the directory, the day, the tags and the document's
\* version; an edit is noted in the calls it overtakes.
LEMMA WorldType ==
  ASSUME ToolchainTypeOK, Edit \/ Midnight \/ Tag \/ Release \/ NewerBuild
  PROVE  ToolchainTypeOK'
PROOF
<1>1. UNCHANGED <<makes, lock, lapse, last, runs>>
  BY DEF Edit, Midnight, Tag, Release, NewerBuild, world, locking
<1>2. dir' \in [src : Sources, report : Reports \cup {NoReport}]
  BY DEF Edit, Midnight, Tag, Release, NewerBuild, world, ToolchainTypeOK
<1>3. day \in Nat /\ day' \in 0 .. MaxDay
  <2>1. MaxDay \in Nat /\ day \in 0 .. MaxDay
    BY BoundsAssumption DEF ToolchainTypeOK
  <2>2. UNCHANGED day \/ (day < MaxDay /\ day' = day + 1)
    BY DEF Edit, Midnight, Tag, Release, NewerBuild, world
  <2> QED  BY <2>1, <2>2
<1>4. tags' \subseteq TagRecords
  <2>1. CASE UNCHANGED tags
    BY <2>1 DEF ToolchainTypeOK
  <2>2. CASE Tag
    <3>1. PICK t \in Tags : tags' = tags \cup {[t EXCEPT !.commit = day]}
      BY <2>2 DEF Tag
    <3>2. [t EXCEPT !.commit = day] \in TagRecords
      BY <1>3, TagsAssumption DEF TagRecords
    <3> QED  BY <3>1, <3>2 DEF ToolchainTypeOK
  <2>3. CASE Release
    <3>1. PICK t \in tags : tags' = (tags \ {t}) \cup {[t EXCEPT !.hasRelease = TRUE, !.published = day]}
      BY <2>3 DEF Release
    <3>2. [t EXCEPT !.hasRelease = TRUE, !.published = day] \in TagRecords
      BY <1>3 DEF ToolchainTypeOK, TagRecords
    <3> QED  BY <3>1, <3>2 DEF ToolchainTypeOK
  <2> QED  BY <2>1, <2>2, <2>3 DEF Edit, Midnight, NewerBuild, world
<1>5. cache'.entries = cache.entries /\ cache' \in [newer : BOOLEAN, entries : {cache'.entries}]
  BY DEF Edit, Midnight, Tag, Release, NewerBuild, ToolchainTypeOK
<1>6. DOMAIN job' = Procs /\ \A p \in Procs : IsJob(job'[p])
  <2>1. CASE UNCHANGED job
    BY <2>1 DEF ToolchainTypeOK
  <2>2. CASE Edit
    <3>1. /\ DOMAIN job' = Procs
          /\ \A p \in Procs : job'[p] = IF At(p, "lookup") \/ At(p, "run") THEN [job[p] EXCEPT !.edited = TRUE] ELSE job[p]
      BY <2>2 DEF Edit
    <3>2. ASSUME NEW p \in Procs PROVE IsJob(job'[p])
      <4>1. CASE At(p, "lookup") \/ At(p, "run")
        <5>1. job[p] \in RunJobs
          BY <4>1, JobFields
        <5>2. [job[p] EXCEPT !.edited = TRUE] \in RunJobs
          BY <5>1 DEF RunJobs
        <5> QED  BY <3>1, <4>1, <5>2, JobKinds DEF IsJob
      <4>2. CASE ~(At(p, "lookup") \/ At(p, "run"))
        BY <3>1, <4>2 DEF ToolchainTypeOK
      <4> QED  BY <4>1, <4>2
    <3> QED  BY <3>1, <3>2
  <2> QED  BY <2>1, <2>2 DEF Midnight, Tag, Release, NewerBuild
<1> QED  BY <1>1, <1>2, <1>3, <1>4, <1>5, <1>6 DEF ToolchainTypeOK, IsDoc

LEMMA InitType == Init => ToolchainTypeOK
PROOF
<1> SUFFICES ASSUME Init PROVE ToolchainTypeOK
  OBVIOUS
<1>1. IsDoc(<<>>)
  BY DEF IsDoc
<1>2. \A p \in Procs : job[p] \in Jobs
  BY DEF Init, Jobs
<1>3. cache \in [newer : BOOLEAN, entries : {cache.entries}] /\ IsDoc(cache.entries)
  BY <1>1 DEF Init
<1>4. day \in 0 .. MaxDay /\ runs \in [Procs -> 0 .. MaxRuns]
  BY BoundsAssumption DEF Init
<1>5. dir \in [src : Sources, report : Reports \cup {NoReport}]
  BY DEF Init
<1> QED  BY <1>2, <1>3, <1>4, <1>5, TablesAssumption DEF Init, IsJob, ToolchainTypeOK

LEMMA NextType ==
  ASSUME ToolchainTypeOK, [Next]_vars
  PROVE  ToolchainTypeOK'
PROOF
<1>1. CASE UNCHANGED vars
  BY <1>1 DEF ToolchainTypeOK, vars, world, locking, IsDoc
<1>2. ASSUME NEW p \in Procs, Step(p) PROVE ToolchainTypeOK'
  BY <1>2, BeginType, lookupType, ExecuteType, LockType, BreakType, SaveType, WriteFailsType, UnlockType, FailType,
     UncachedType DEF Step
<1> QED  BY <1>1, <1>2, WorldType DEF Next

\* Every variable of Run and its cache keeps its type (cache.go:113): what is
\* looked up, saved and returned is a whole verdict, whatever the requests, the
\* files, the tools' answers and the tags.
THEOREM TypeCorrect == Spec => []ToolchainTypeOK
<1> QED  BY InitType, NextType, PTL DEF Spec

(***************************************************************************)
(* The dispatch: whatever an adapter spawns tools for, the table declares. *)
(***************************************************************************)
LEMMA EntryDeclared ==
  ASSUME NEW l, NEW c, NEW k, NEW tools, Entry(l, c, k, tools) \in committedMatrix
  PROVE  Declared([language |-> l, check |-> c, test |-> k])
PROOF
BY Zenon DEF Declared, PairID, Entry

LEMMA RequestShape ==
  ASSUME NEW r \in Requests
  PROVE  /\ r.language \in Languages /\ r.check \in Checks \cup {"other"}
         /\ r.test # NoTest => r.check = "test"
         /\ r = [language |-> r.language, check |-> r.check, test |-> r.test]
PROOF
<1>1. CASE r \in [language : Languages, check : (Checks \ {"test"}) \cup {"other"}, test : {NoTest}]
  BY <1>1
<1>2. CASE r \in [language : Languages, check : {"test"}, test : TestKinds \cup {NoTest}]
  BY <1>2 DEF Checks
<1> QED  BY <1>1, <1>2 DEF Requests

LEMMA GoDeclared ==
  ASSUME NEW r \in Requests, r.language = "go", Spawned(r) # <<>>
  PROVE  Declared(r)
PROOF
<1>1. /\ Entry("go", "build", NoTest, <<"go build">>) \in committedMatrix
      /\ Entry("go", "format", NoTest, <<"gofmt", "goimports">>) \in committedMatrix
      /\ Entry("go", "lint", NoTest, <<"golangci-lint", "goimports">>) \in committedMatrix
      /\ Entry("go", "vet", NoTest, <<"go vet", "staticcheck">>) \in committedMatrix
      /\ Entry("go", "security", NoTest, <<"gosec", "govulncheck">>) \in committedMatrix
      /\ Entry("go", "test", "unit", <<"go test", "gotestsum">>) \in committedMatrix
      /\ Entry("go", "test", "e2e", <<"go test">>) \in committedMatrix
  BY Zenon DEF committedMatrix
<1>2. \/ r.check \in {"build", "format", "lint", "vet", "security"}
      \/ r.check = "test" /\ r.test \in {"unit", "e2e"}
  BY DEF Spawned, goTools
<1>3. \/ r.check \in {"build", "format", "lint", "vet", "security"} /\ r.test = NoTest
      \/ r.check = "test" /\ r.test \in {"unit", "e2e"}
  BY <1>2, RequestShape
<1> QED  BY <1>1, <1>3, EntryDeclared, RequestShape

LEMMA RustDeclared ==
  ASSUME NEW r \in Requests, r.language = "rust", Spawned(r) # <<>>
  PROVE  Declared(r)
PROOF
<1>1. /\ Entry("rust", "build", NoTest, <<"cargo build">>) \in committedMatrix
      /\ Entry("rust", "format", NoTest, <<"cargo fmt">>) \in committedMatrix
      /\ Entry("rust", "lint", NoTest, <<"cargo clippy">>) \in committedMatrix
      /\ Entry("rust", "vet", NoTest, <<"cargo check">>) \in committedMatrix
      /\ Entry("rust", "security", NoTest, <<"cargo audit", "cargo deny">>) \in committedMatrix
      /\ Entry("rust", "test", "unit", <<"cargo nextest", "cargo llvm-cov">>) \in committedMatrix
      /\ Entry("rust", "test", "e2e", <<"cargo nextest">>) \in committedMatrix
      /\ Entry("rust", "test", "benchmark", <<"cargo bench">>) \in committedMatrix
  BY Zenon DEF committedMatrix
<1>2. \/ r.check \in {"build", "format", "lint", "vet", "security"}
      \/ r.check = "test" /\ r.test \in {"unit", "e2e", "benchmark"}
  BY DEF Spawned, cargoTools
<1>3. \/ r.check \in {"build", "format", "lint", "vet", "security"} /\ r.test = NoTest
      \/ r.check = "test" /\ r.test \in {"unit", "e2e", "benchmark"}
  BY <1>2, RequestShape
<1> QED  BY <1>1, <1>3, EntryDeclared, RequestShape

LEMMA PythonDeclared ==
  ASSUME NEW r \in Requests, r.language = "python", Spawned(r) # <<>>
  PROVE  Declared(r)
PROOF
<1>1. /\ Entry("python", "build", NoTest, <<"uv build">>) \in committedMatrix
      /\ Entry("python", "format", NoTest, <<"ruff format">>) \in committedMatrix
      /\ Entry("python", "lint", NoTest, <<"ruff check">>) \in committedMatrix
      /\ Entry("python", "vet", NoTest, <<"mypy">>) \in committedMatrix
      /\ Entry("python", "security", NoTest, <<"bandit">>) \in committedMatrix
      /\ Entry("python", "test", "unit", <<"pytest">>) \in committedMatrix
      /\ Entry("python", "test", "e2e", <<"pytest", "playwright">>) \in committedMatrix
  BY Zenon DEF committedMatrix
<1>2. \/ r.check \in {"build", "format", "lint", "vet", "security"}
      \/ r.check = "test" /\ r.test \in {"unit", "e2e"}
  BY DEF Spawned, pythonTools
<1>3. \/ r.check \in {"build", "format", "lint", "vet", "security"} /\ r.test = NoTest
      \/ r.check = "test" /\ r.test \in {"unit", "e2e"}
  BY <1>2, RequestShape
<1> QED  BY <1>1, <1>3, EntryDeclared, RequestShape

LEMMA ShellDeclared ==
  ASSUME NEW r \in Requests, r.language = "shell", Spawned(r) # <<>>
  PROVE  Declared(r)
PROOF
<1>1. /\ Entry("shell", "format", NoTest, <<"shfmt">>) \in committedMatrix
      /\ Entry("shell", "lint", NoTest, <<"shellcheck", "checkbashisms">>) \in committedMatrix
      /\ Entry("shell", "security", NoTest, <<"semgrep">>) \in committedMatrix
      /\ Entry("shell", "test", "unit", <<"bats", "kcov">>) \in committedMatrix
      /\ Entry("shell", "test", "e2e", <<"bats">>) \in committedMatrix
  BY Zenon DEF committedMatrix
<1>2. \/ r.check \in {"format", "lint", "security"}
      \/ r.check = "test" /\ r.test \in {"unit", "e2e"}
  BY DEF Spawned, shellTools
<1>3. \/ r.check \in {"format", "lint", "security"} /\ r.test = NoTest
      \/ r.check = "test" /\ r.test \in {"unit", "e2e"}
  BY <1>2, RequestShape
<1> QED  BY <1>1, <1>3, EntryDeclared, RequestShape

LEMMA WorkflowDeclared ==
  ASSUME NEW r \in Requests, r.language = "workflow", Spawned(r) # <<>>
  PROVE  Declared(r)
PROOF
<1>1. /\ Entry("workflow", "lint", NoTest, <<"actionlint">>) \in committedMatrix
  BY Zenon DEF committedMatrix, workflowPair
<1>2. \/ r.check \in {"lint"}
  BY DEF Spawned, workflowTools
<1>3. \/ r.check \in {"lint"} /\ r.test = NoTest
  BY <1>2, RequestShape
<1> QED  BY <1>1, <1>3, EntryDeclared, RequestShape

LEMMA SpawnedDeclared ==
  ASSUME NEW r \in Requests, Spawned(r) # <<>>
  PROVE  Declared(r)
PROOF
BY RequestShape, GoDeclared, RustDeclared, PythonDeclared, ShellDeclared, WorkflowDeclared DEF Languages

(***************************************************************************)
(* What the parsers make of a tool's findings.  If the diagnostics of a    *)
(* tool let the check pass, the tool itself has no objection to it.        *)
(***************************************************************************)
Passing(diags, allow) == "error" \notin diags /\ ("warning" \in diags => allow)

\* A tool's result, cut or not: what was kept of its findings.
Shown(tool, a) ==
  /\ a.seen \in Seq(Native(tool)) /\ a.exit \in Exits(tool)
  /\ tool = "pytest" /\ a.exit = 5 => a.seen = <<>>

LEMMA ResultsShown ==
  ASSUME NEW tool, NEW n \in Nat, NEW a \in Results(tool, n)
  PROVE  Shown(tool, a)
PROOF
<1> DEFINE reports == UNION {[1 .. k -> Native(tool)] : k \in 0 .. n}
           kept(f) == IF OneDocument(tool) THEN {<<>>} ELSE {SubSeq(f, 1, k) : k \in 0 .. Len(f) - 1}
           printed == {x \in Exits(tool) \X reports : tool = "pytest" /\ x[1] = 5 => x[2] = <<>>}
           results(e, f) == {[exit |-> e, found |-> f, seen |-> f, cut |-> FALSE]}
             \cup {[exit |-> e, found |-> f, seen |-> s, cut |-> TRUE] : s \in (IF f = <<>> THEN {} ELSE kept(f))}
<1>1. PICK x \in printed : a \in results(x[1], x[2])
  BY Zenon DEF Results
<1>2. /\ x[1] \in Exits(tool) /\ x[2] \in reports
      /\ tool = "pytest" /\ x[1] = 5 => x[2] = <<>>
  OBVIOUS
<1>3. x[2] \in Seq(Native(tool))
  BY <1>2
<1> HIDE DEF printed, reports
<1>4. CASE a = [exit |-> x[1], found |-> x[2], seen |-> x[2], cut |-> FALSE]
  BY <1>2, <1>3, <1>4 DEF Shown
<1>5. CASE x[2] # <<>> /\ \E s \in kept(x[2]) : a = [exit |-> x[1], found |-> x[2], seen |-> s, cut |-> TRUE]
  <2>1. PICK s \in kept(x[2]) : a = [exit |-> x[1], found |-> x[2], seen |-> s, cut |-> TRUE]
    BY <1>5
  <2>2. a.exit = x[1] /\ a.seen = s
    BY <2>1
  <2>3. s \in Seq(Native(tool))
    <3>1. PICK f \in Seq(Native(tool)) : f = x[2]
      BY <1>3
    <3>2. CASE s = <<>>
      BY <3>2
    <3>3. CASE s \in {SubSeq(f, 1, k) : k \in 0 .. Len(f) - 1}
      <4>1. PICK k \in 0 .. Len(f) - 1 : s = SubSeq(f, 1, k)
        BY <3>3
      <4>2. k \in Nat /\ k <= Len(f)
        OBVIOUS
      <4> QED  BY <4>1, <4>2
    <3>4. s = <<>> \/ s \in {SubSeq(f, 1, k) : k \in 0 .. Len(f) - 1}
      BY <3>1
    <3> QED  BY <3>2, <3>3, <3>4
  <2> QED  BY <1>2, <1>5, <2>2, <2>3 DEF Shown
<1>6. \/ a = [exit |-> x[1], found |-> x[2], seen |-> x[2], cut |-> FALSE]
      \/ x[2] # <<>> /\ \E s \in kept(x[2]) : a = [exit |-> x[1], found |-> x[2], seen |-> s, cut |-> TRUE]
  BY <1>1
<1> QED  BY <1>4, <1>5, <1>6

LEMMA AnswersShown ==
  ASSUME NEW r, NEW t \in Answers(r)
  PROVE  /\ DOMAIN t = ToSet(Spawned(r))
         /\ \A tool \in ToSet(Spawned(r)) : Shown(tool, t[tool])
PROOF
<1> DEFINE tools == ToSet(Spawned(r))
           n == IF Cardinality(tools) > 1 THEN 1 ELSE MaxFindings
           of(tool) == {a \in Results(tool, n) : a.cut => a.exit # 0 \/ tool \in SucceedsOnFindings}
<1>1. /\ t \in [tools -> UNION {of(tool) : tool \in tools}]
      /\ \A tool \in tools : t[tool] \in of(tool)
  BY DEF Answers
<1>2. n \in Nat
  BY BoundsAssumption
<1>3. \A tool \in tools : t[tool] \in Results(tool, n)
  BY <1>1
<1> HIDE DEF n, tools
<1>4. DOMAIN t = tools
  BY <1>1
<1> QED  BY <1>2, <1>3, <1>4, ResultsShown DEF tools

LEMMA SeenNative ==
  ASSUME NEW tool, NEW a, Shown(tool, a)
  PROVE  ToSet(a.seen) \subseteq Native(tool)
PROOF
BY DEF Shown, ToSet

\* Nothing found and an exit status of 0 is no objection.
LEMMA SilenceAgrees ==
  ASSUME NEW r, NEW tool, NEW a, NEW allow, ToSet(a.seen) = {}, a.seen \in Seq(Native(tool)),
         a.exit = 0 \/ tool = "goimports" \/ <<tool, a.exit>> \in {<<"checkbashisms", 4>>, <<"pytest", 5>>}
  PROVE  Agrees(r, tool, a, allow)
PROOF
<1>1. ~RuleWithPlace(a.seen)
  BY DEF ToSet, RuleWithPlace
<1> QED  BY <1>1 DEF Agrees, Tolerated

\* Every finding is an error, and so is a failed exit.
LEMMA EachErrorAgrees ==
  ASSUME NEW r, NEW tool, NEW a, Shown(tool, a), NEW allow, Passing(Checked(EachError(a.seen), a), allow)
  PROVE  Agrees(r, tool, a, allow)
PROOF
<1>1. EachError(a.seen) = {} /\ a.exit = 0
  BY DEF Shown, Passing, Checked, fallbackDiagnostic, EachError
<1>2. ToSet(a.seen) = {}
  BY <1>1 DEF EachError
<1> QED  BY <1>1, <1>2, SilenceAgrees DEF Shown

\* A table that grades what the tool means as it means it.
Grades(tool, grade) ==
  /\ \A f \in Native(tool) \cap Hard(tool) : f \in DOMAIN grade /\ grade[f] = "error"
  /\ \A f \in Soft(tool) : f \in DOMAIN grade /\ grade[f] = "warning"
  /\ \A f \in Native(tool) \cap DOMAIN grade :
       grade[f] = "error" \/ (grade[f] = "warning" /\ f \in Soft(tool))
  /\ "header" \notin Native(tool)

LEMMA GradedAgrees ==
  ASSUME NEW r, NEW tool, NEW grade, Grades(tool, grade), NEW a, Shown(tool, a), NEW allow,
         Passing(Checked(Graded(a.seen, grade), a), allow),
         Subprocess(r.language, r.check) => a.exit = 0
  PROVE  Agrees(r, tool, a, allow)
PROOF
<1> DEFINE diags == Graded(a.seen, grade)
<1>1. /\ \A f \in ToSet(a.seen) : f \in Native(tool)
      /\ "error" \notin diags /\ ("warning" \in diags => allow)
      /\ a.exit = 0 \/ diags # {}
  BY SeenNative DEF Shown, Passing, Checked, fallbackDiagnostic
<1>2. \A f \in ToSet(a.seen) : f \in DOMAIN grade => grade[f] \in diags
  BY DEF Graded
<1>3. ToSet(a.seen) \cap Hard(tool) = {}
  BY <1>1, <1>2 DEF Grades
<1>4. ~allow => ToSet(a.seen) \cap Soft(tool) = {}
  BY <1>1, <1>2 DEF Grades
<1>5. ~RuleWithPlace(a.seen)
  BY <1>1 DEF Grades, RuleWithPlace, ToSet
<1>6. Tolerated(r, tool, a, allow)
  <2>1. CASE a.exit = 0
    BY <2>1 DEF Tolerated
  <2>2. CASE a.exit # 0
    <3>1. PICK f \in ToSet(a.seen) \cap DOMAIN grade : grade[f] \in diags
      BY <1>1, <2>2 DEF Graded
    <3>2. grade[f] = "warning" /\ f \in Soft(tool) /\ allow
      BY <1>1, <3>1 DEF Grades
    <3> QED  BY <2>2, <3>1, <3>2 DEF Tolerated
  <2> QED  BY <2>1, <2>2
<1> QED  BY <1>3, <1>4, <1>5, <1>6 DEF Agrees

LEMMA GradesGo ==
  /\ \A tool \in {"go build", "gofmt"} : Grades(tool, [unformatted |-> "error", position |-> "error"])
  /\ \A tool \in {"golangci-lint", "staticcheck"} : Grades(tool, [warning |-> "warning", other |-> "error"])
  /\ \A tool \in {"gosec", "bandit"} : Grades(tool, [high |-> "error", medium |-> "error", low |-> "warning"])
PROOF
BY DEF Grades, Native, Hard, Soft

LEMMA GradesCargo ==
  /\ \A tool \in {"cargo build", "cargo fmt", "cargo clippy", "cargo check", "cargo bench"} :
       Grades(tool, [error |-> "error", warning |-> "warning", testFailed |-> "error"])
  /\ Grades("cargo deny", [error |-> "error", warning |-> "warning"])
PROOF
BY DEF Grades, Native, Hard, Soft

LEMMA GradesShell ==
  /\ Grades("shellcheck", [error |-> "error", warning |-> "error", info |-> "warning", style |-> "warning"])
  /\ Grades("semgrep", [ERROR |-> "error", WARNING |-> "error", INFO |-> "warning"])
PROOF
BY DEF Grades, Native, Hard, Soft

(***************************************************************************)
(* The parser of ruff and mypy, by induction over the lines of a report.   *)
(***************************************************************************)
LEMMA SetInduction ==
  ASSUME NEW S, 0 \in S, \A n \in Nat : n \in S => n + 1 \in S
  PROVE  Nat \subseteq S
PROOF
<1> SUFFICES ASSUME Nat \ S # {} PROVE FALSE
  OBVIOUS
<1> DEFINE below == {mn \in Nat \X Nat : mn[1] < mn[2]}
           T == Nat \ S
<1>1. IsWellFoundedOn(below, Nat)
  BY NatLessThanWellFounded DEF OpToRel
<1>2. T \subseteq Nat /\ T # {}
  OBVIOUS
<1> HIDE DEF below, T
<1>3. PICK x \in T : \A y \in T : <<y, x>> \notin below
  BY <1>1, <1>2, WFMin
<1> USE DEF below, T
<1>4. x # 0 /\ x - 1 \in Nat /\ x - 1 < x
  BY <1>3
<1>5. x - 1 \notin T
  BY <1>3, <1>4
<1>6. x - 1 + 1 \in S
  BY <1>4, <1>5
<1> QED  BY <1>3, <1>4, <1>6

\* What the parser has after each of the first n lines of l.
Before == [diags |-> {}, pending |-> FALSE]
Parsed(l, g, i) == IF i = 0 THEN Before ELSE pythonLine(g[i - 1], l[i])
IsParse(l, n, g) == g = [i \in 0 .. n |-> Parsed(l, g, i)]

LEMMA ParseExists == ASSUME NEW l, NEW n \in Nat PROVE \E g : IsParse(l, n, g)
PROOF
<1> DEFINE S == {k \in Nat : \E g : IsParse(l, k, g)}
<1>1. 0 \in S
  <2>1. IsParse(l, 0, [i \in 0 .. 0 |-> Before])
    BY DEF IsParse, Parsed
  <2> QED  BY <2>1
<1>2. ASSUME NEW k \in Nat, k \in S PROVE k + 1 \in S
  <2>1. PICK g : IsParse(l, k, g)
    BY <1>2
  <2> DEFINE h == [i \in 0 .. k + 1 |-> IF i = k + 1 THEN Parsed(l, g, i) ELSE g[i]]
  <2>2. ASSUME NEW i \in 0 .. k + 1 PROVE h[i] = Parsed(l, h, i)
    <3>1. CASE i = 0
      BY <2>1, <3>1 DEF IsParse, Parsed
    <3>2. CASE i # 0 /\ i # k + 1
      <4>1. i \in 0 .. k /\ i - 1 \in 0 .. k + 1 /\ i - 1 # k + 1
        BY <3>2
      <4>2. h[i - 1] = g[i - 1] /\ h[i] = g[i]
        BY <4>1, <3>2
      <4>3. g[i] = Parsed(l, g, i)
        BY <2>1, <4>1 DEF IsParse
      <4> QED  BY <4>2, <4>3, <3>2 DEF Parsed
    <3>3. CASE i = k + 1
      <4>1. i - 1 \in 0 .. k + 1 /\ i - 1 # k + 1
        BY <3>3
      <4>2. h[i - 1] = g[i - 1] /\ h[i] = Parsed(l, g, i)
        BY <4>1, <3>3
      <4> QED  BY <4>2, <3>3 DEF Parsed
    <3> QED  BY <3>1, <3>2, <3>3
  <2>3. IsParse(l, k + 1, h)
    BY <2>2 DEF IsParse
  <2> QED  BY <2>3
<1> HIDE DEF S
<1> QED  BY <1>1, <1>2, SetInduction DEF S

LEMMA pythonParseIs ==
  ASSUME NEW l, Len(l) \in Nat
  PROVE  \E g : IsParse(l, Len(l), g) /\ pythonParse(l) = g[Len(l)].diags
PROOF
<1>1. pythonParse(l) = (CHOOSE g : IsParse(l, Len(l), g))[Len(l)].diags
  BY DEF pythonParse, IsParse, Parsed, Before
<1> QED  BY <1>1, ParseExists

\* One line: what it adds, and whether a rule waits for its place.
LEMMA pythonLineDoes ==
  ASSUME NEW acc, NEW D, acc \in [diags : {D}, pending : BOOLEAN], NEW line,
         NEW next, next = pythonLine(acc, line)
  PROVE  /\ next \in [diags : {next.diags}, pending : BOOLEAN]
         /\ D \subseteq next.diags
         /\ line = "mypyError" => "error" \in next.diags
         /\ line = "mypyWarning" => "warning" \in next.diags
         /\ line = "location" /\ acc.pending => "error" \in next.diags
         /\ line = "header" => next.pending
         /\ acc.pending => next.pending \/ "error" \in next.diags
PROOF
<1> PICK b \in BOOLEAN : acc = [diags |-> D, pending |-> b]
  OBVIOUS
<1>0. PICK yes \in BOOLEAN, no \in BOOLEAN : yes /\ ~no
  OBVIOUS
<1> SUFFICES \E ds : \E c \in BOOLEAN :
      /\ next = [diags |-> ds, pending |-> c]
      /\ D \subseteq ds
      /\ line = "mypyError" => "error" \in ds
      /\ line = "mypyWarning" => "warning" \in ds
      /\ line = "location" /\ b => "error" \in ds
      /\ line = "header" => c
      /\ b => c \/ "error" \in ds
  OBVIOUS
<1>1. CASE line = "location" /\ b
  <2>1. PICK ds : ds = D \cup {"error"}
    OBVIOUS
  <2>2. next = [diags |-> ds, pending |-> no]
    BY <1>0, <1>1, <2>1 DEF pythonLine
  <2>3. D \subseteq ds /\ "error" \in ds /\ line # "header" /\ line # "mypyWarning"
    BY <1>1, <2>1
  <2> QED  BY <2>2, <2>3
<1>2. CASE line = "header"
  <2>1. next = [diags |-> D, pending |-> yes]
    BY <1>0, <1>2 DEF pythonLine
  <2> QED  BY <1>0, <1>2, <2>1
<1>3. CASE line = "mypyError"
  <2>1. next = [diags |-> D \cup {"error"}, pending |-> b]
    BY <1>3 DEF pythonLine
  <2> QED  BY <1>3, <2>1
<1>4. CASE line = "mypyWarning"
  <2>1. next = [diags |-> D \cup {"warning"}, pending |-> b]
    BY <1>4 DEF pythonLine
  <2> QED  BY <1>4, <2>1
<1>5. CASE line \notin {"header", "mypyError", "mypyWarning"} /\ ~(line = "location" /\ b)
  <2>1. next = acc
    BY <1>5 DEF pythonLine
  <2> QED  BY <1>5, <2>1
<1> QED  BY <1>1, <1>2, <1>3, <1>4, <1>5

\* Every line of a parse is one such step.
LEMMA ParseSteps ==
  ASSUME NEW l, NEW n \in Nat, NEW g, IsParse(l, n, g)
  PROVE  /\ g[0] = Before
         /\ \A i \in 1 .. n : g[i] = pythonLine(g[i - 1], l[i])
         /\ \A i \in 0 .. n : g[i] \in [diags : {g[i].diags}, pending : BOOLEAN]
PROOF
<1>1. g[0] = Before
  BY DEF IsParse, Parsed
<1>2. ASSUME NEW i \in 1 .. n PROVE g[i] = pythonLine(g[i - 1], l[i])
  <2>1. i \in 0 .. n /\ i # 0
    OBVIOUS
  <2>2. g[i] = Parsed(l, g, i)
    BY <2>1 DEF IsParse
  <2> QED  BY <2>1, <2>2 DEF Parsed
<1> DEFINE S == {i \in Nat : i <= n => g[i] \in [diags : {g[i].diags}, pending : BOOLEAN]}
<1>3. 0 \in S
  <2>1. Before \in [diags : {Before.diags}, pending : BOOLEAN]
    BY DEF Before
  <2> QED  BY <1>1, <2>1
<1>4. ASSUME NEW i \in Nat, i \in S PROVE i + 1 \in S
  <2> SUFFICES ASSUME i + 1 <= n PROVE g[i + 1] \in [diags : {g[i + 1].diags}, pending : BOOLEAN]
    OBVIOUS
  <2>1. i + 1 \in 1 .. n /\ i + 1 - 1 = i /\ i <= n
    OBVIOUS
  <2>2. g[i + 1] = pythonLine(g[i], l[i + 1])
    BY <1>2, <2>1
  <2>3. g[i] \in [diags : {g[i].diags}, pending : BOOLEAN]
    BY <1>4, <2>1
  <2> QED  BY <2>2, <2>3, pythonLineDoes
<1> HIDE DEF S
<1>5. Nat \subseteq S
  BY <1>3, <1>4, SetInduction
<1> QED  BY <1>1, <1>2, <1>5 DEF S

\* A diagnostic once made stays.
LEMMA ParseGrows ==
  ASSUME NEW l, NEW n \in Nat, NEW g, IsParse(l, n, g), NEW i \in 0 .. n
  PROVE  g[i].diags \subseteq g[n].diags
PROOF
<1> DEFINE S == {k \in Nat : i <= k /\ k <= n => g[i].diags \subseteq g[k].diags}
<1>1. 0 \in S
  OBVIOUS
<1>2. ASSUME NEW k \in Nat, k \in S PROVE k + 1 \in S
  <2> SUFFICES ASSUME i <= k + 1, k + 1 <= n PROVE g[i].diags \subseteq g[k + 1].diags
    OBVIOUS
  <2>1. CASE i = k + 1
    BY <2>1
  <2>2. CASE i <= k
    <3>1. k + 1 \in 1 .. n /\ k + 1 - 1 = k /\ k \in 0 .. n
      OBVIOUS
    <3>2. PICK m \in 1 .. n : m = k + 1 /\ m - 1 = k
      BY <3>1
    <3>3. g[m] = pythonLine(g[m - 1], l[m]) /\ g[k] \in [diags : {g[k].diags}, pending : BOOLEAN]
      BY <3>1, ParseSteps
    <3>4. g[k + 1] = pythonLine(g[k], l[k + 1])
      BY <3>2, <3>3
    <3>5. g[k].diags \subseteq g[k + 1].diags
      BY <3>3, <3>4, pythonLineDoes
    <3> QED  BY <1>2, <2>2, <3>1, <3>5
  <2> QED  BY <2>1, <2>2
<1> HIDE DEF S
<1>3. n \in S
  BY <1>1, <1>2, SetInduction
<1> QED  BY <1>3 DEF S

\* Without an error, a rule that was printed waits for its place to the end.
LEMMA RuleWaits ==
  ASSUME NEW l, NEW n \in Nat, NEW g, IsParse(l, n, g), "error" \notin g[n].diags,
         NEW i \in 1 .. n, l[i] = "header"
  PROVE  \A k \in i .. n : g[k].pending
PROOF
<1> DEFINE S == {k \in Nat : i <= k /\ k <= n => g[k].pending}
<1>1. 0 \in S
  OBVIOUS
<1>2. ASSUME NEW k \in Nat, k \in S PROVE k + 1 \in S
  <2> SUFFICES ASSUME i <= k + 1, k + 1 <= n PROVE g[k + 1].pending
    OBVIOUS
  <2>1. k + 1 \in 1 .. n /\ k + 1 - 1 = k /\ k \in 0 .. n /\ k + 1 \in 0 .. n
    OBVIOUS
  <2>2. g[k + 1] = pythonLine(g[k], l[k + 1]) /\ g[k] \in [diags : {g[k].diags}, pending : BOOLEAN]
    BY <2>1, ParseSteps
  <2>3. "error" \notin g[k + 1].diags
    BY <2>1, ParseGrows
  <2>4. CASE i = k + 1
    BY <2>2, <2>4, pythonLineDoes
  <2>5. CASE i <= k
    <3>1. g[k].pending
      BY <1>2, <2>1, <2>5
    <3> QED  BY <2>2, <2>3, <3>1, pythonLineDoes
  <2> QED  BY <2>4, <2>5
<1> HIDE DEF S
<1>3. Nat \subseteq S
  BY <1>1, <1>2, SetInduction
<1> QED  BY <1>3 DEF S

PythonFinds(tool) == Hard(tool) = {"mypyError"} /\ Soft(tool) \subseteq {"mypyWarning"}
LEMMA pythonFinds == \A tool \in {"uv build", "ruff format", "ruff check", "mypy"} : PythonFinds(tool)
PROOF
BY DEF PythonFinds, Hard, Soft

LEMMA pythonAgrees ==
  ASSUME NEW r, NEW tool, PythonFinds(tool),
         NEW a, Shown(tool, a), NEW allow, Passing(Checked(pythonParse(a.seen), a), allow), a.exit = 0
  PROVE  Agrees(r, tool, a, allow)
PROOF
<1>l. PICK l \in Seq(Native(tool)) : l = a.seen
  BY DEF Shown
<1>n. PICK n \in Nat : n = Len(l)
  OBVIOUS
<1>1. DOMAIN l = 1 .. n
  BY <1>n
<1>2. PICK g : IsParse(l, n, g) /\ pythonParse(l) = g[n].diags
  BY <1>n, pythonParseIs
<1>3. "error" \notin g[n].diags /\ ("warning" \in g[n].diags => allow)
  BY <1>l, <1>2 DEF Shown, Passing, Checked, fallbackDiagnostic
<1>4. ASSUME NEW i \in 1 .. n
      PROVE  /\ g[i] = pythonLine(g[i - 1], l[i]) /\ i - 1 \in 0 .. n
             /\ g[i - 1] \in [diags : {g[i - 1].diags}, pending : BOOLEAN]
             /\ g[i].diags \subseteq g[n].diags
  <2>1. i \in 0 .. n /\ i - 1 \in 0 .. n
    OBVIOUS
  <2>2. /\ g[i] = pythonLine(g[i - 1], l[i])
        /\ g[i - 1] \in [diags : {g[i - 1].diags}, pending : BOOLEAN]
    BY <1>2, <2>1, ParseSteps
  <2>3. g[i].diags \subseteq g[n].diags
    BY <1>2, <2>1, ParseGrows
  <2> QED  BY <2>1, <2>2, <2>3
<1>5. ASSUME NEW i \in 1 .. n
      PROVE  l[i] # "mypyError" /\ (l[i] = "mypyWarning" => allow)
  <2>1. ("error" \notin g[i].diags) /\ ("warning" \in g[i].diags => allow)
    BY <1>3, <1>4
  <2>2. g[i] = pythonLine(g[i - 1], l[i]) /\ g[i - 1] \in [diags : {g[i - 1].diags}, pending : BOOLEAN]
    BY <1>4
  <2>3. (l[i] = "mypyError" => "error" \in g[i].diags) /\ (l[i] = "mypyWarning" => "warning" \in g[i].diags)
    BY <2>2, pythonLineDoes
  <2> QED  BY <2>1, <2>3
<1>6. ~RuleWithPlace(l)
  <2> SUFFICES ASSUME NEW i \in 1 .. n, NEW j \in 1 .. n, i < j, l[i] = "header", l[j] = "location"
               PROVE  FALSE
    BY <1>1 DEF RuleWithPlace
  <2>1. j - 1 \in i .. n
    BY <1>1
  <2>2. g[j - 1].pending
    BY <1>1, <1>2, <1>3, <2>1, RuleWaits
  <2>3. "error" \in g[j].diags
    BY <1>4, <2>2, pythonLineDoes
  <2> QED  BY <1>3, <1>4, <2>3
<1>7. Hard(tool) = {"mypyError"} /\ Soft(tool) \subseteq {"mypyWarning"}
  BY DEF PythonFinds
<1>8. /\ ToSet(l) \cap Hard(tool) = {}
      /\ ~allow => ToSet(l) \cap Soft(tool) = {}
  BY <1>1, <1>5, <1>7 DEF ToSet
<1> QED  BY <1>l, <1>6, <1>8 DEF Agrees, Tolerated

(***************************************************************************)
(* Each adapter: if the diagnostics of a request pass, none of its tools   *)
(* objects.  A subprocess has its exit status looked at as well.           *)
(***************************************************************************)
Ran(r, t) ==
  /\ DOMAIN t = ToSet(Spawned(r))
  /\ \A tool \in ToSet(Spawned(r)) : Shown(tool, t[tool])
  /\ Subprocess(r.language, r.check) => t[Spawned(r)[1]].exit = 0

LEMMA ToSetShort ==
  /\ \A x : ToSet(<<x>>) = {x}
  /\ \A x, y : ToSet(<<x, y>>) = {x, y}
PROOF
BY DEF ToSet

LEMMA OneTool ==
  ASSUME NEW r, NEW t, Ran(r, t), NEW tool, Spawned(r) = <<tool>>
  PROVE  /\ Shown(tool, t[tool])
         /\ Subprocess(r.language, r.check) => t[tool].exit = 0
         /\ \A allow : Agrees(r, tool, t[tool], allow) => NoObjection(r, t, allow)
PROOF
<1>1. ToSet(Spawned(r)) = {tool} /\ Spawned(r)[1] = tool
  BY ToSetShort
<1> QED  BY <1>1 DEF Ran, NoObjection

LEMMA TwoTools ==
  ASSUME NEW r, NEW t, Ran(r, t), NEW tool, NEW other, Spawned(r) = <<tool, other>>
  PROVE  /\ Shown(tool, t[tool]) /\ Shown(other, t[other])
         /\ \A allow : Agrees(r, tool, t[tool], allow) /\ Agrees(r, other, t[other], allow)
              => NoObjection(r, t, allow)
PROOF
<1>1. ToSet(Spawned(r)) = {tool, other}
  BY ToSetShort
<1> QED  BY <1>1 DEF Ran, NoObjection

LEMMA GradedTool ==
  ASSUME NEW r, NEW t, Ran(r, t), NEW tool, Spawned(r) = <<tool>>, NEW grade, Grades(tool, grade),
         NEW allow, Passing(Checked(Graded(t[tool].seen, grade), t[tool]), allow)
  PROVE  NoObjection(r, t, allow)
PROOF
BY OneTool, GradedAgrees

LEMMA EachErrorTool ==
  ASSUME NEW r, NEW t, Ran(r, t), NEW tool, Spawned(r) = <<tool>>,
         NEW allow, Passing(Checked(EachError(t[tool].seen), t[tool]), allow)
  PROVE  NoObjection(r, t, allow)
PROOF
BY OneTool, EachErrorAgrees

LEMMA BothPass ==
  ASSUME NEW A, NEW B, NEW allow, Passing(A \cup B, allow)
  PROVE  Passing(A, allow) /\ Passing(B, allow)
PROOF
BY DEF Passing

LEMMA goNoObjection ==
  ASSUME NEW r \in Requests, r.language = "go", Spawned(r) # <<>>, NEW t, Ran(r, t),
         NEW allow, Passing(Diagnostics(r, t), allow)
  PROVE  NoObjection(r, t, allow)
PROOF
<1>0. Spawned(r) = goTools(r.check, r.test) /\ Diagnostics(r, t) = goDiagnostics(r, t)
  BY Zenon DEF Spawned, Diagnostics
<1>n. r.check # "test" => r.test = ""
  BY RequestShape DEF NoTest
<1>1. CASE r.check = "build"
  <2>1. /\ Spawned(r) = <<"go build">>
        /\ Diagnostics(r, t) = Checked(goParse(t["go build"].seen), t["go build"])
    BY <1>0, <1>n, <1>1, Zenon DEF goTools, goDiagnostics
  <2> QED  BY <2>1, GradesGo, GradedTool, Zenon DEF goParse
<1>2. CASE r.check = "format"
  <2>1. Spawned(r) = <<"gofmt">> /\ Diagnostics(r, t) = Checked(goParse(t["gofmt"].seen), t["gofmt"])
    BY <1>0, <1>n, <1>2, Zenon DEF goTools, goDiagnostics
  <2> QED  BY <2>1, GradesGo, GradedTool, Zenon DEF goParse
<1>3. CASE r.check = "lint"
  <2> DEFINE lint == t["golangci-lint"]
             imports == t["goimports"]
  <2>1. Spawned(r) = <<"golangci-lint", "goimports">> /\ Diagnostics(r, t) = goLint(t)
    BY <1>0, <1>n, <1>3, Zenon DEF goTools, goDiagnostics
  <2>2. Shown("golangci-lint", lint) /\ Shown("goimports", imports)
    BY <2>1, TwoTools
  <2>3. /\ Passing(Checked(parseGolangciLintJSON(lint.seen), lint), allow)
        /\ Passing(EachError(imports.seen), allow)
    BY <2>1, BothPass, Zenon DEF goLint, parseGoImportsPaths
  <2>4. Agrees(r, "golangci-lint", lint, allow)
    <3>1. ~Subprocess(r.language, r.check)
      BY <1>3, Zenon DEF Subprocess
    <3> QED  BY <2>2, <2>3, <3>1, GradesGo, GradedAgrees, Zenon DEF parseGolangciLintJSON
  <2>5. ToSet(imports.seen) = {} /\ imports.seen \in Seq(Native("goimports"))
    BY <2>2, <2>3 DEF Passing, EachError, Shown
  <2>6. Agrees(r, "goimports", imports, allow)
    BY <2>5, SilenceAgrees
  <2> QED  BY <2>1, <2>4, <2>6, TwoTools, Zenon
<1>4. CASE r.check = "vet"
  <2>1. Spawned(r) = <<"go vet", "staticcheck">> /\ Diagnostics(r, t) = goVet(t)
    BY <1>0, <1>n, <1>4, Zenon DEF goTools, goDiagnostics
  <2>2. Shown("go vet", t["go vet"]) /\ Shown("staticcheck", t["staticcheck"])
    BY <2>1, TwoTools, Zenon
  <2>3. /\ Passing(Checked(parseFileLineMessages(t["go vet"].seen), t["go vet"]), allow)
        /\ Passing(Checked(parseStaticcheckJSON(t["staticcheck"].seen), t["staticcheck"]), allow)
    BY <2>1, BothPass, Zenon DEF goVet
  <2>4. Agrees(r, "go vet", t["go vet"], allow)
    BY <2>2, <2>3, EachErrorAgrees, Zenon DEF parseFileLineMessages
  <2>5. Agrees(r, "staticcheck", t["staticcheck"], allow)
    <3>1. ~Subprocess(r.language, r.check)
      BY <1>4, Zenon DEF Subprocess
    <3> QED  BY <2>2, <2>3, <3>1, GradesGo, GradedAgrees, Zenon DEF parseStaticcheckJSON
  <2> QED  BY <2>1, <2>4, <2>5, TwoTools, Zenon
<1>5. CASE r.check = "security"
  <2>1. Spawned(r) = <<"gosec", "govulncheck">> /\ Diagnostics(r, t) = goSecurity(t)
    BY <1>0, <1>n, <1>5, Zenon DEF goTools, goDiagnostics
  <2>2. Shown("gosec", t["gosec"]) /\ Shown("govulncheck", t["govulncheck"])
    BY <2>1, TwoTools, Zenon
  <2>3. /\ Passing(Checked(parseGosecJSON(t["gosec"].seen), t["gosec"]), allow)
        /\ Passing(Checked(parseGovulncheckStream(t["govulncheck"].seen), t["govulncheck"]), allow)
    BY <2>1, BothPass, Zenon DEF goSecurity
  <2>4. Agrees(r, "gosec", t["gosec"], allow)
    <3>1. ~Subprocess(r.language, r.check)
      BY <1>5, Zenon DEF Subprocess
    <3> QED  BY <2>2, <2>3, <3>1, GradesGo, GradedAgrees, Zenon DEF parseGosecJSON
  <2>5. Agrees(r, "govulncheck", t["govulncheck"], allow)
    BY <2>2, <2>3, EachErrorAgrees, Zenon DEF parseGovulncheckStream
  <2> QED  BY <2>1, <2>4, <2>5, TwoTools, Zenon
<1>6. CASE r.check = "test"
  <2>0. r.test \in {"unit", "e2e"}
    BY <1>0, <1>6, Zenon DEF goTools
  <2>1. \/ Spawned(r) = <<"gotestsum">> /\ Diagnostics(r, t) = goUnitTest(t)
        \/ Spawned(r) = <<"go test">> /\ Diagnostics(r, t) = goE2ETest(t)
    BY <1>0, <1>6, <2>0, Zenon DEF goTools, goDiagnostics
  <2> QED  BY <2>1, EachErrorTool, Zenon DEF goUnitTest, goE2ETest, parseGoTestFailures
<1> QED  BY <1>0, <1>1, <1>2, <1>3, <1>4, <1>5, <1>6, Zenon DEF goTools

LEMMA FirstOf == \A x : <<x>>[1] = x
PROOF
OBVIOUS

LEMMA cargoSubprocess ==
  ASSUME NEW r \in Requests, NEW t, Subprocess("rust", r.check), NEW tool, cargoTools(r.check, r.test) = <<tool>>
  PROVE  cargoDiagnostics(r, t) = Checked(cargoParse(t[tool].seen), t[tool])
PROOF
<1>1. r.check \in {"build", "format", "lint", "vet"} /\ r.test = ""
  BY RequestShape, Zenon DEF Subprocess, NoTest
<1>2. cargoDiagnostics(r, t) =
        LET result == t[cargoTools(r.check, r.test)[1]] IN Checked(cargoParse(result.seen), result)
  BY <1>1, Zenon DEF cargoDiagnostics
<1> QED  BY <1>2, FirstOf

LEMMA pythonSubprocess ==
  ASSUME NEW r \in Requests, NEW t, Subprocess("python", r.check), NEW tool, pythonTools(r.check, r.test) = <<tool>>
  PROVE  pythonDiagnostics(r, t) = Checked(pythonParse(t[tool].seen), t[tool])
PROOF
<1>1. r.check \notin {"security", "test"}
  BY Zenon DEF Subprocess
<1>2. pythonDiagnostics(r, t) =
        LET result == t[pythonTools(r.check, r.test)[1]] IN Checked(pythonParse(result.seen), result)
  BY <1>1, Zenon DEF pythonDiagnostics
<1> QED  BY <1>2, FirstOf

LEMMA cargoNoObjection ==
  ASSUME NEW r \in Requests, r.language = "rust", Spawned(r) # <<>>, NEW t, Ran(r, t),
         NEW allow, Passing(Diagnostics(r, t), allow)
  PROVE  NoObjection(r, t, allow)
PROOF
<1>0. Spawned(r) = cargoTools(r.check, r.test) /\ Diagnostics(r, t) = cargoDiagnostics(r, t)
  BY Zenon DEF Spawned, Diagnostics
<1>n. r.check # "test" => r.test = ""
  BY RequestShape DEF NoTest
<1>1. CASE r.check = "build"
  <2>1. /\ Spawned(r) = <<"cargo build">> /\ cargoTools(r.check, r.test) = <<"cargo build">>
        /\ Subprocess("rust", r.check)
    BY <1>0, <1>n, <1>1, Zenon DEF cargoTools, Subprocess
  <2>2. Diagnostics(r, t) = Checked(cargoParse(t["cargo build"].seen), t["cargo build"])
    BY <1>0, <2>1, cargoSubprocess, Zenon
  <2> QED  BY <2>1, <2>2, GradesCargo, GradedTool, Zenon DEF cargoParse
<1>2. CASE r.check = "format"
  <2>1. /\ Spawned(r) = <<"cargo fmt">> /\ cargoTools(r.check, r.test) = <<"cargo fmt">>
        /\ Subprocess("rust", r.check)
    BY <1>0, <1>n, <1>2, Zenon DEF cargoTools, Subprocess
  <2>2. Diagnostics(r, t) = Checked(cargoParse(t["cargo fmt"].seen), t["cargo fmt"])
    BY <1>0, <2>1, cargoSubprocess, Zenon
  <2> QED  BY <2>1, <2>2, GradesCargo, GradedTool, Zenon DEF cargoParse
<1>3. CASE r.check = "lint"
  <2>1. /\ Spawned(r) = <<"cargo clippy">> /\ cargoTools(r.check, r.test) = <<"cargo clippy">>
        /\ Subprocess("rust", r.check)
    BY <1>0, <1>n, <1>3, Zenon DEF cargoTools, Subprocess
  <2>2. Diagnostics(r, t) = Checked(cargoParse(t["cargo clippy"].seen), t["cargo clippy"])
    BY <1>0, <2>1, cargoSubprocess, Zenon
  <2> QED  BY <2>1, <2>2, GradesCargo, GradedTool, Zenon DEF cargoParse
<1>4. CASE r.check = "vet"
  <2>1. /\ Spawned(r) = <<"cargo check">> /\ cargoTools(r.check, r.test) = <<"cargo check">>
        /\ Subprocess("rust", r.check)
    BY <1>0, <1>n, <1>4, Zenon DEF cargoTools, Subprocess
  <2>2. Diagnostics(r, t) = Checked(cargoParse(t["cargo check"].seen), t["cargo check"])
    BY <1>0, <2>1, cargoSubprocess, Zenon
  <2> QED  BY <2>1, <2>2, GradesCargo, GradedTool, Zenon DEF cargoParse
<1>5. CASE r.check = "security"
  <2>1. Spawned(r) = <<"cargo audit", "cargo deny">> /\ Diagnostics(r, t) = cargoSecurity(t)
    BY <1>0, <1>n, <1>5, Zenon DEF cargoTools, cargoDiagnostics, Subprocess
  <2>2. Shown("cargo audit", t["cargo audit"]) /\ Shown("cargo deny", t["cargo deny"])
    BY <2>1, TwoTools, Zenon
  <2>3. /\ Passing(Checked(parseCargoAuditJSON(t["cargo audit"].seen), t["cargo audit"]), allow)
        /\ Passing(Checked(parseCargoDenyJSON(t["cargo deny"].seen), t["cargo deny"]), allow)
    BY <2>1, BothPass, Zenon DEF cargoSecurity
  <2>4. Agrees(r, "cargo audit", t["cargo audit"], allow)
    BY <2>2, <2>3, EachErrorAgrees, Zenon DEF parseCargoAuditJSON
  <2>5. Agrees(r, "cargo deny", t["cargo deny"], allow)
    <3>1. ~Subprocess(r.language, r.check)
      BY <1>5, Zenon DEF Subprocess
    <3> QED  BY <2>2, <2>3, <3>1, GradesCargo, GradedAgrees, Zenon DEF parseCargoDenyJSON
  <2> QED  BY <2>1, <2>4, <2>5, TwoTools, Zenon
<1>6. CASE r.check = "test"
  <2>0. r.test \in {"unit", "e2e", "benchmark"} /\ ~Subprocess("rust", r.check)
    BY <1>0, <1>6, Zenon DEF cargoTools, Subprocess
  <2>1. \/ Spawned(r) = <<"cargo llvm-cov nextest">> /\ Diagnostics(r, t) = cargoUnitTest(t)
        \/ Spawned(r) = <<"cargo nextest">> /\ Diagnostics(r, t) = cargoE2ETest(t)
        \/ Spawned(r) = <<"cargo bench">> /\ Diagnostics(r, t) = cargoBenchmark(t)
    BY <1>0, <1>6, <2>0, Zenon DEF cargoTools, cargoDiagnostics
  <2>2. CASE Spawned(r) = <<"cargo bench">> /\ Diagnostics(r, t) = cargoBenchmark(t)
    BY <2>2, GradesCargo, GradedTool, Zenon DEF cargoBenchmark, cargoParse
  <2> QED  BY <2>1, <2>2, EachErrorTool, Zenon
           DEF cargoUnitTest, cargoE2ETest, parseCargoNextestFailures
<1> QED  BY <1>0, <1>1, <1>2, <1>3, <1>4, <1>5, <1>6, Zenon DEF cargoTools

LEMMA pythonNoObjection ==
  ASSUME NEW r \in Requests, r.language = "python", Spawned(r) # <<>>, NEW t, Ran(r, t),
         NEW allow, Passing(Diagnostics(r, t), allow)
  PROVE  NoObjection(r, t, allow)
PROOF
<1>0. Spawned(r) = pythonTools(r.check, r.test) /\ Diagnostics(r, t) = pythonDiagnostics(r, t)
  BY Zenon DEF Spawned, Diagnostics
<1>n. r.check # "test" => r.test = ""
  BY RequestShape DEF NoTest
<1>1. CASE r.check = "build"
  <2>1. /\ Spawned(r) = <<"uv build">> /\ pythonTools(r.check, r.test) = <<"uv build">>
        /\ Subprocess("python", r.check)
    BY <1>0, <1>n, <1>1, Zenon DEF pythonTools, Subprocess
  <2>2. Diagnostics(r, t) = Checked(pythonParse(t["uv build"].seen), t["uv build"])
    BY <1>0, <2>1, pythonSubprocess, Zenon
  <2>3. Shown("uv build", t["uv build"]) /\ t["uv build"].exit = 0
    BY <2>1, OneTool, Zenon
  <2>4. Agrees(r, "uv build", t["uv build"], allow)
    BY <2>2, <2>3, pythonFinds, pythonAgrees, Zenon
  <2> QED  BY <2>1, <2>4, OneTool, Zenon
<1>2. CASE r.check = "format"
  <2>1. /\ Spawned(r) = <<"ruff format">> /\ pythonTools(r.check, r.test) = <<"ruff format">>
        /\ Subprocess("python", r.check)
    BY <1>0, <1>n, <1>2, Zenon DEF pythonTools, Subprocess
  <2>2. Diagnostics(r, t) = Checked(pythonParse(t["ruff format"].seen), t["ruff format"])
    BY <1>0, <2>1, pythonSubprocess, Zenon
  <2>3. Shown("ruff format", t["ruff format"]) /\ t["ruff format"].exit = 0
    BY <2>1, OneTool, Zenon
  <2>4. Agrees(r, "ruff format", t["ruff format"], allow)
    BY <2>2, <2>3, pythonFinds, pythonAgrees, Zenon
  <2> QED  BY <2>1, <2>4, OneTool, Zenon
<1>3. CASE r.check = "lint"
  <2>1. /\ Spawned(r) = <<"ruff check">> /\ pythonTools(r.check, r.test) = <<"ruff check">>
        /\ Subprocess("python", r.check)
    BY <1>0, <1>n, <1>3, Zenon DEF pythonTools, Subprocess
  <2>2. Diagnostics(r, t) = Checked(pythonParse(t["ruff check"].seen), t["ruff check"])
    BY <1>0, <2>1, pythonSubprocess, Zenon
  <2>3. Shown("ruff check", t["ruff check"]) /\ t["ruff check"].exit = 0
    BY <2>1, OneTool, Zenon
  <2>4. Agrees(r, "ruff check", t["ruff check"], allow)
    BY <2>2, <2>3, pythonFinds, pythonAgrees, Zenon
  <2> QED  BY <2>1, <2>4, OneTool, Zenon
<1>4. CASE r.check = "vet"
  <2>1. /\ Spawned(r) = <<"mypy">> /\ pythonTools(r.check, r.test) = <<"mypy">>
        /\ Subprocess("python", r.check)
    BY <1>0, <1>n, <1>4, Zenon DEF pythonTools, Subprocess
  <2>2. Diagnostics(r, t) = Checked(pythonParse(t["mypy"].seen), t["mypy"])
    BY <1>0, <2>1, pythonSubprocess, Zenon
  <2>3. Shown("mypy", t["mypy"]) /\ t["mypy"].exit = 0
    BY <2>1, OneTool, Zenon
  <2>4. Agrees(r, "mypy", t["mypy"], allow)
    BY <2>2, <2>3, pythonFinds, pythonAgrees, Zenon
  <2> QED  BY <2>1, <2>4, OneTool, Zenon
<1>5. CASE r.check = "security"
  <2>1. Spawned(r) = <<"bandit">> /\ Diagnostics(r, t) = banditDiagnostics(t["bandit"])
    BY <1>0, <1>n, <1>5, Zenon DEF pythonTools, pythonDiagnostics, Subprocess
  <2>2. CASE t["bandit"].cut
    <3>1. Diagnostics(r, t) = {"warning"}
      BY <2>1, <2>2, Zenon DEF banditDiagnostics
    <3>2. allow
      BY <3>1 DEF Passing
    <3>3. Agrees(r, "bandit", t["bandit"], allow)
      BY <2>2, <3>2, Zenon DEF Agrees
    <3> QED  BY <2>1, <3>3, OneTool, Zenon
  <2>3. CASE ~t["bandit"].cut
    <3>1. Diagnostics(r, t) = Checked(parseBanditJSON(t["bandit"].seen), t["bandit"])
      BY <2>1, <2>3, Zenon DEF banditDiagnostics
    <3> QED  BY <2>1, <3>1, GradesGo, GradedTool, Zenon DEF parseBanditJSON
  <2> QED  BY <2>2, <2>3
<1>6. CASE r.check = "test"
  <2>1. Spawned(r) = <<"pytest">> /\ Diagnostics(r, t) = pytest(t["pytest"])
    BY <1>0, <1>6, Zenon DEF pythonTools, pythonDiagnostics, Subprocess
  <2>2. CASE t["pytest"].exit # 5
    BY <2>1, <2>2, EachErrorTool, Zenon DEF pytest, parsePytestFailures
  <2>3. CASE t["pytest"].exit = 5
    <3>1. Shown("pytest", t["pytest"])
      BY <2>1, OneTool
    <3>2. t["pytest"].seen \in Seq(Native("pytest")) /\ ToSet(t["pytest"].seen) = {}
      BY <2>3, <3>1 DEF Shown, ToSet
    <3>3. Agrees(r, "pytest", t["pytest"], allow)
      BY <2>3, <3>2, SilenceAgrees
    <3> QED  BY <2>1, <3>3, OneTool
  <2> QED  BY <2>2, <2>3
<1> QED  BY <1>0, <1>1, <1>2, <1>3, <1>4, <1>5, <1>6, Zenon DEF pythonTools

LEMMA CleanBash == \A e \in {0, 1, 4, 5} : WithoutCleanBash(e) = 0 => e \in {0, 4}
PROOF
BY DEF WithoutCleanBash

LEMMA shellNoObjection ==
  ASSUME NEW r \in Requests, r.language = "shell", Spawned(r) # <<>>, NEW t, Ran(r, t),
         NEW allow, Passing(Diagnostics(r, t), allow)
  PROVE  NoObjection(r, t, allow)
PROOF
<1>0. Spawned(r) = shellTools(r.check, r.test) /\ Diagnostics(r, t) = shellDiagnostics(r, t)
  BY Zenon DEF Spawned, Diagnostics
<1>n. r.check # "test" => r.test = ""
  BY RequestShape DEF NoTest
<1>1. CASE r.check = "format"
  <2>1. Spawned(r) = <<"shfmt">> /\ Diagnostics(r, t) = shellFormat(t)
    BY <1>0, <1>n, <1>1, Zenon DEF shellTools, shellDiagnostics
  <2> QED  BY <2>1, EachErrorTool, Zenon DEF shellFormat, parseShfmtList
<1>2. CASE r.check = "lint"
  <2> DEFINE cb == t["checkbashisms"]
  <2>1. Spawned(r) = <<"shellcheck", "checkbashisms">> /\ Diagnostics(r, t) = shellLint(t)
    BY <1>0, <1>n, <1>2, Zenon DEF shellTools, shellDiagnostics
  <2>2. Shown("shellcheck", t["shellcheck"]) /\ Shown("checkbashisms", cb)
    BY <2>1, TwoTools
  <2>3. /\ Passing(Checked(parseShellcheckJSON1(t["shellcheck"].seen), t["shellcheck"]), allow)
        /\ Passing(fallbackDiagnostic(parseCheckbashisms(cb.seen), WithoutCleanBash(cb.exit)), allow)
    BY <2>1, BothPass, Zenon DEF shellLint
  <2>4. Agrees(r, "shellcheck", t["shellcheck"], allow)
    <3>1. ~Subprocess(r.language, r.check)
      BY <1>2, Zenon DEF Subprocess
    <3> QED  BY <2>2, <2>3, <3>1, GradesShell, GradedAgrees, Zenon DEF parseShellcheckJSON1
  <2>5. EachError(cb.seen) = {} /\ WithoutCleanBash(cb.exit) = 0
    BY <2>2, <2>3 DEF Shown, Passing, fallbackDiagnostic, parseCheckbashisms, EachError
  <2>6. ToSet(cb.seen) = {}
    BY <2>5 DEF EachError
  <2>7. cb.exit \in {0, 4}
    <3>1. cb.exit \in {0, 1, 4, 5}
      BY <2>2 DEF Shown, Exits
    <3> QED  BY <2>5, <3>1, CleanBash
  <2>8. Agrees(r, "checkbashisms", cb, allow)
    BY <2>2, <2>6, <2>7, SilenceAgrees DEF Shown
  <2> QED  BY <2>1, <2>4, <2>8, TwoTools
<1>3. CASE r.check = "security"
  <2>1. Spawned(r) = <<"semgrep">> /\ Diagnostics(r, t) = shellSecurity(t)
    BY <1>0, <1>n, <1>3, Zenon DEF shellTools, shellDiagnostics
  <2> QED  BY <2>1, GradesShell, GradedTool, Zenon DEF shellSecurity, parseSemgrepJSON
<1>4. CASE r.check = "test"
  <2>0. r.test \in {"unit", "e2e"}
    BY <1>0, <1>4, Zenon DEF shellTools
  <2>1. \/ Spawned(r) = <<"kcov+bats">> /\ Diagnostics(r, t) = shellUnitTest(t)
        \/ Spawned(r) = <<"bats">> /\ Diagnostics(r, t) = shellE2ETest(t)
    BY <1>0, <1>4, <2>0, Zenon DEF shellTools, shellDiagnostics
  <2> QED  BY <2>1, EachErrorTool, Zenon DEF shellUnitTest, shellE2ETest, parseBatsFailures
<1> QED  BY <1>0, <1>1, <1>2, <1>3, <1>4, Zenon DEF shellTools

LEMMA workflowNoObjection ==
  ASSUME NEW r \in Requests, r.language = "workflow", Spawned(r) # <<>>, NEW t, Ran(r, t),
         t["git ls-files"].exit = 0, NEW allow, Passing(Diagnostics(r, t), allow)
  PROVE  NoObjection(r, t, allow)
PROOF
<1>1. /\ Spawned(r) = <<"git ls-files", "actionlint">>
      /\ Diagnostics(r, t) = runActionlint(t)
  BY Zenon DEF Spawned, Diagnostics, workflowTools
<1>2. Shown("git ls-files", t["git ls-files"]) /\ Shown("actionlint", t["actionlint"])
  BY <1>1, TwoTools, Zenon
<1>3. Agrees(r, "actionlint", t["actionlint"], allow)
  BY <1>1, <1>2, EachErrorAgrees, Zenon DEF runActionlint, parseActionlintJSON
<1>4. Native("git ls-files") = {}
  BY Zenon DEF Native
<1>5. ToSet(t["git ls-files"].seen) = {} /\ t["git ls-files"].seen \in Seq(Native("git ls-files"))
  BY <1>2, <1>4, SeenNative, Zenon DEF Shown
<1>6. Agrees(r, "git ls-files", t["git ls-files"], allow)
  BY <1>5, SilenceAgrees, Zenon
<1> QED  BY <1>1, <1>3, <1>6, TwoTools, Zenon

(***************************************************************************)
(* The lock.  Out of a lapse, the lock file of a call between its read and *)
(* its write of the document is there and its own, and the document is     *)
(* what it read.                                                           *)
(***************************************************************************)
Owner ==
  ~lapse => \A p \in Procs :
    /\ Holding(p) => lock = p
    /\ At(p, "save") => ~cache.newer /\ job[p].doc = cache.entries

\* A step of p leaves the other calls alone.
LEMMA OthersKeep ==
  ASSUME ToolchainTypeOK, NEW p \in Procs, Step(p), NEW q \in Procs, q # p
  PROVE  job'[q] = job[q] /\ last'[q] = last[q]
PROOF
<1>1. DOMAIN job = Procs /\ DOMAIN last = Procs
  BY DEF ToolchainTypeOK
<1> QED  BY <1>1 DEF Step, Begin, lookupCache, Execute, ExecuteFails, LockAndRead, BreakLock, Save, WriteFails,
              Unlock, LockFails, ReturnUncached, Dies, Return, At

\* Where p stands after a step: only LockAndRead, or a write, leaves it holding.
LEMMA NotHolding ==
  ASSUME ToolchainTypeOK, NEW p \in Procs, Step(p), ~LockAndRead(p), ~Save(p), ~WriteFails(p)
  PROVE  ~Holding(p)'
PROOF
<1>1. DOMAIN job = Procs
  BY DEF ToolchainTypeOK
<1>2. CASE Begin(p)
  BY <1>1, <1>2 DEF Begin, Return, Idle, At, Holding
<1>3. CASE lookupCache(p)
  <2>1. At(p, "lookup") /\ job[p] \in RunJobs
    BY <1>3, JobFields DEF lookupCache
  <2> QED  BY <1>1, <1>3, <2>1 DEF lookupCache, Return, Idle, At, Holding, RunJobs
<1>4. CASE Execute(p)
  <2>1. PICK v : job' = [job EXCEPT ![p] = [pc |-> "lock", r |-> job[p].r, hash |-> job[p].hash, result |-> v]]
    BY <1>4 DEF Execute
  <2> QED  BY <1>1, <2>1 DEF At, Holding
<1>5. CASE BreakLock(p)
  BY <1>5 DEF BreakLock, At, Holding
<1>6. CASE ExecuteFails(p) \/ Unlock(p) \/ LockFails(p) \/ ReturnUncached(p) \/ Dies(p)
  BY <1>1, <1>6 DEF ExecuteFails, Unlock, LockFails, ReturnUncached, Dies, Return, Idle, At, Holding
<1> QED  BY <1>2, <1>3, <1>4, <1>5, <1>6 DEF Step

\* p moves to another place and the lock, the lapse and, if p does not hold,
\* the document are left.
LEMMA OwnerStep ==
  ASSUME ToolchainTypeOK, Owner, NEW p \in Procs, Step(p)
  PROVE  Owner'
PROOF
<1> SUFFICES ASSUME ~lapse', NEW q \in Procs
             PROVE  /\ Holding(q)' => lock' = q
                    /\ At(q, "save")' => ~cache'.newer /\ job'[q].doc = cache'.entries
  BY DEF Owner
<1>0. DOMAIN job = Procs /\ lapse \in BOOLEAN
  BY DEF ToolchainTypeOK
<1>w. ~lapse => \A x \in Procs :
        /\ Holding(x) => lock = x
        /\ At(x, "save") => ~cache.newer /\ job[x].doc = cache.entries
  BY Zenon DEF Owner
<1>1. q # p => job'[q] = job[q] /\ (Holding(q)' = Holding(q)) /\ (At(q, "save")' = At(q, "save"))
  BY OthersKeep DEF Holding, At
<1>2. CASE LockAndRead(p)
  <2>1. /\ lock = NoProc /\ lock' = p /\ UNCHANGED cache
        /\ ~lapse \/ \A x \in Procs : ~Holding(x)
    BY <1>2 DEF LockAndRead
  <2>2. \A x \in Procs : ~Holding(x)
    BY <1>w, <2>1, TablesAssumption
  <2>3. At(p, "save")' => ~cache.newer /\ job'[p].doc = cache.entries
    BY <1>0, <1>2 DEF LockAndRead, At
  <2> QED  BY <1>1, <2>1, <2>2, <2>3 DEF Holding
<1>3. CASE RemoveLock(p) /\ UNCHANGED cache /\ ~Holding(p)'
  <2>1. ~lapse /\ ~(lock \in Procs \ {p} /\ Holding(lock))
    BY <1>0, <1>3 DEF RemoveLock
  <2>2. q # p => ~Holding(q)
    BY <1>w, <2>1
  <2> QED  BY <1>1, <1>3, <2>2 DEF Holding
<1>4. CASE ~LockAndRead(p) /\ ~BreakLock(p) /\ ~Unlock(p)
  <2>1. UNCHANGED <<lock, lapse>>
    BY <1>4 DEF Step, Begin, lookupCache, Execute, ExecuteFails, Save, WriteFails, LockFails, ReturnUncached, Dies,
       locking
  <2>2. CASE Save(p) \/ WriteFails(p)
    <3>1. At(p, "save") /\ lock = p
      BY <1>w, <2>1, <2>2 DEF Save, WriteFails, Holding
    <3>2. ~At(p, "save")'
      BY <1>0, <2>2 DEF Save, WriteFails, At
    <3>3. q # p => ~Holding(q)
      BY <1>w, <2>1, <3>1
    <3> QED  BY <1>1, <2>1, <3>1, <3>2, <3>3 DEF Holding
  <2>3. CASE ~Save(p) /\ ~WriteFails(p)
    <3>1. ~Holding(p)'
      BY <1>4, <2>3, NotHolding
    <3>2. UNCHANGED cache
      BY <1>4, <2>3 DEF Step, Begin, lookupCache, Execute, ExecuteFails, LockFails, ReturnUncached, Dies
    <3> QED  BY <1>w, <1>1, <2>1, <3>1, <3>2 DEF Holding
  <2> QED  BY <2>2, <2>3
<1>5. BreakLock(p) \/ Unlock(p) => RemoveLock(p) /\ UNCHANGED cache
  BY DEF BreakLock, Unlock
<1>6. BreakLock(p) \/ Unlock(p) => ~LockAndRead(p) /\ ~Save(p) /\ ~WriteFails(p)
  <2>1. BreakLock(p) => lock # NoProc /\ At(p, "lock")
    BY DEF BreakLock
  <2>2. Unlock(p) => At(p, "unlock")
    BY DEF Unlock
  <2> QED  BY <2>1, <2>2 DEF LockAndRead, Save, WriteFails, At
<1>7. BreakLock(p) \/ Unlock(p) => ~Holding(p)'
  BY <1>6, NotHolding
<1> QED  BY <1>2, <1>3, <1>4, <1>5, <1>7

LEMMA OwnerInv ==
  ASSUME ToolchainTypeOK, Owner, [Next]_vars
  PROVE  Owner'
PROOF
<1>1. CASE UNCHANGED <<cache, lock, lapse, job>>
  BY <1>1 DEF Owner, Holding, At
<1>2. CASE Edit
  <2>1. /\ UNCHANGED <<cache, lock, lapse>>
        /\ \A p \in Procs : job'[p] = IF At(p, "lookup") \/ At(p, "run") THEN [job[p] EXCEPT !.edited = TRUE] ELSE job[p]
    BY <1>2 DEF Edit, locking
  <2>2. ASSUME NEW p \in Procs
        PROVE  job'[p] = job[p] \/ (~Holding(p)' /\ ~At(p, "save")')
    <3>1. CASE At(p, "lookup") \/ At(p, "run")
      <4>1. job'[p] = [job[p] EXCEPT !.edited = TRUE] /\ job[p] \in RunJobs
        BY <2>1, <3>1, JobFields
      <4>2. job'[p].pc = job[p].pc
        BY <4>1 DEF RunJobs
      <4> QED  BY <3>1, <4>2 DEF Holding, At
    <3> QED  BY <2>1, <3>1
  <2> QED  BY <2>1, <2>2 DEF Owner, Holding, At
<1>3. CASE NewerBuild
  <2>1. lock = NoProc /\ UNCHANGED <<job, lock, lapse>>
    BY <1>3 DEF NewerBuild, locking
  <2>2. ~lapse => \A p \in Procs : ~Holding(p)
    BY <2>1, TablesAssumption, Zenon DEF Owner
  <2> QED  BY <2>1, <2>2 DEF Owner, Holding, At
<1> QED  BY <1>1, <1>2, <1>3, OwnerStep DEF Next, vars, locking, Midnight, Tag, Release

LEMMA InitOwner == Init => Owner
PROOF
BY DEF Init, Owner, Holding, At, Idle

\* Saving a result replaces the entry of its own id and no other (cache.go:117):
\* what another call stored in the meantime stays, for any number of processes,
\* deaths and broken locks, unless a running holder lost its lock file to
\* another process and somebody has held ever since.
THEOREM EntriesKept == Spec => EntriesSurvive
<1> DEFINE Kept == \/ lapse
                   \/ \A r \in DOMAIN cache.entries : r \in DOMAIN cache'.entries /\
                        (cache'.entries[r] # cache.entries[r] => \E p \in Procs : At(p, "save") /\ job[p].r = r)
<1>1. ASSUME ToolchainTypeOK, Owner, [Next]_vars
      PROVE  [Kept]_vars
  <2>1. CASE UNCHANGED cache
    BY <2>1
  <2>2. CASE NewerBuild
    BY <2>2 DEF NewerBuild, ToolchainTypeOK
  <2>3. ASSUME NEW p \in Procs, Save(p), ~lapse
        PROVE  Kept
    <3> DEFINE doc == job[p].doc
               e == [hash |-> job[p].hash, result |-> job[p].result]
               new == [q \in DOMAIN doc \cup {job[p].r} |-> IF q = job[p].r THEN e ELSE doc[q]]
    <3>1. At(p, "save") /\ cache' = [newer |-> FALSE, entries |-> new]
      BY <1>1, <2>3, SaveDoes
    <3>2. doc = cache.entries
      BY <1>1, <2>3, <3>1, Zenon DEF Owner
    <3>3. cache'.entries = new
      BY <3>1
    <3> QED  BY <3>1, <3>2, <3>3
  <2>4. \/ UNCHANGED cache \/ NewerBuild
        \/ \E p \in Procs : Save(p)
    BY <1>1 DEF Next, Step, vars, Begin, lookupCache, Execute, ExecuteFails, LockAndRead, BreakLock, WriteFails,
         Unlock, LockFails, ReturnUncached, Dies, Edit, Midnight, Tag, Release
  <2> QED  BY <2>1, <2>2, <2>3, <2>4
<1> HIDE DEF Kept
<1>2. ToolchainTypeOK /\ Owner /\ [Next]_vars => Owner'
  BY OwnerInv
<1>3. Spec => [][Kept]_vars
  BY <1>1, <1>2, InitType, NextType, InitOwner, PTL DEF Spec
<1> QED  BY <1>3 DEF EntriesSurvive, Kept

(***************************************************************************)
(* What a verdict was computed for, and from what: the sources of a        *)
(* verdict are those of the hash it is kept under, or it was noted that    *)
(* they were edited meanwhile; a success was earned.                       *)
(***************************************************************************)
Earned(result) == result.status = "success" => result.clean
Sound(hash, verdict) ==
  /\ verdict.src = hash[1] \/ verdict.edited
  /\ Earned(verdict)

DocSound(doc) == \A r \in DOMAIN doc : Sound(doc[r].hash, doc[r].result)
CallSound(p) ==
  /\ At(p, "lookup") \/ At(p, "run") => job[p].hash[1] = dir.src \/ job[p].edited
  /\ At(p, "lock") \/ At(p, "save") => Sound(job[p].hash, job[p].result)
  /\ At(p, "save") => DocSound(job[p].doc)
  /\ At(p, "unlock") => Earned(job[p].result)
  /\ At(p, "lock") \/ At(p, "save") \/ At(p, "unlock") => Declared(job[p].r)
  /\ Earned(last[p])
VerdictsSound == DocSound(cache.entries) /\ \A p \in Procs : CallSound(p)

\* Where the rules report no error, no body runs a banned tool itself.
LEMMA RulesEarned ==
  ASSUME NEW bodies, NEW catalog, NEW now, "error" \notin ruleDiagnostics(bodies, catalog, now), NEW f \in bodies
  PROVE  f.excludedBasename \/ ~parseWorkflowBody(f).banned
PROOF
<1> SUFFICES ASSUME ~f.excludedBasename, parseWorkflowBody(f).banned PROVE FALSE
  OBVIOUS
<1> DEFINE body == parseWorkflowBody(f)
<1>1. body.hasJob
  <2>1. CASE ~f.yamlParses
    BY <2>1 DEF parseWorkflowBody, NoBody
  <2>2. CASE f.yamlParses
    BY <2>2 DEF parseWorkflowBody
  <2> QED  BY <2>1, <2>2
<1> HIDE DEF body
<1>2. body.banned
  BY DEF body
<1>3. evaluateInheritance(f, body) = "error"
  BY <1>1, <1>2 DEF evaluateInheritance
<1> DEFINE of(g) == {evaluateInheritance(g, parseWorkflowBody(g))}
                      \cup {evaluateCurrency(ref, catalog, now) : ref \in parseWorkflowBody(g).refs}
           all == UNION {of(g) : g \in bodies}
<1>4. ruleDiagnostics(bodies, catalog, now) = all \ {"none"}
  BY DEF ruleDiagnostics
<1>5. "error" \in of(f)
  BY <1>3 DEF body
<1>6. "error" \in all
  BY <1>5, Zenon
<1> HIDE DEF all
<1> QED  BY <1>4, <1>6

\* The heart of SuccessWasEarned: diagnostics that classify as a success come
\* from tools none of which objects.
LEMMA VerdictEarned ==
  ASSUME NEW r \in Requests, Spawned(r) # <<>>, NEW t \in Answers(r),
         r.language = "workflow" => t["git ls-files"].exit = 0,
         NEW allow \in BOOLEAN, NEW catalog,
         classifyStatus(r, t, Findings(r, t, catalog), allow) = "success"
  PROVE  Clean(r, t, allow)
PROOF
<1>1. /\ Passing(Findings(r, t, catalog), allow)
      /\ Subprocess(r.language, r.check) => t[Spawned(r)[1]].exit = 0
  BY DEF classifyStatus, Classify, ExitOf, Passing
<1>2. Ran(r, t)
  BY <1>1, AnswersShown DEF Ran
<1> DEFINE bodies == enumerateWorkflowBodies(Files[dir.src])
<1>3. CASE ~Listed(r) \/ (r.language = "workflow" /\ bodies = {})
  BY <1>3 DEF Clean
<1>4. CASE Listed(r) /\ r.language # "workflow"
  <2>1. Passing(Diagnostics(r, t), allow)
    BY <1>1, <1>4 DEF Findings
  <2>2. NoObjection(r, t, allow)
    BY <1>2, <1>4, <2>1, RequestShape, goNoObjection, cargoNoObjection, pythonNoObjection,
       shellNoObjection DEF Languages
  <2> QED  BY <1>4, <2>2 DEF Clean
<1>5. CASE Listed(r) /\ r.language = "workflow" /\ bodies # {}
  <2>1. Findings(r, t, catalog) = Diagnostics(r, t) \cup ruleDiagnostics(bodies, catalog, day)
    BY <1>5 DEF Findings
  <2>2. Passing(Diagnostics(r, t), allow) /\ Passing(ruleDiagnostics(bodies, catalog, day), allow)
    BY <1>1, <2>1, BothPass
  <2>3. NoObjection(r, t, allow)
    BY <1>2, <1>5, <2>2, workflowNoObjection, Zenon
  <2>4. \A f \in bodies : f.excludedBasename \/ ~parseWorkflowBody(f).banned
    BY <2>2, RulesEarned DEF Passing
  <2> QED  BY <1>5, <2>3, <2>4 DEF Clean
<1> QED  BY <1>3, <1>4, <1>5

\* The call that takes the step is sound after it.
LEMMA OwnStepSound ==
  ASSUME ToolchainTypeOK, VerdictsSound, NEW p \in Procs, Step(p)
  PROVE  CallSound(p)'
PROOF
<1>1. DOMAIN job = Procs /\ DOMAIN last = Procs /\ Earned(Failed) /\ Earned(None) /\ CallSound(p)
  BY DEF ToolchainTypeOK, Failed, None, Earned, VerdictsSound
<1>2. ASSUME NEW outcome, Return(p, outcome), Earned(outcome)
      PROVE  CallSound(p)'
  <2>1. job'[p] = Idle /\ last'[p] = outcome
    BY <1>1, <1>2 DEF Return
  <2>2. Earned(last[p])' = Earned(outcome)
    BY <2>1 DEF Earned
  <2> QED  BY <1>2, <2>1, <2>2 DEF CallSound, At, Idle
<1>3. CASE Begin(p)
  <2>1. CASE Return(p, Failed)
    BY <1>1, <1>2, <2>1
  <2>2. CASE ~Return(p, Failed)
    <3>1. job'[p].pc = "lookup" /\ job'[p].hash = ContentHash /\ last' = last /\ dir' = dir
      BY <1>1, <1>3, <2>2 DEF Begin, world
    <3>2. job'[p].hash[1] = dir'.src
      BY <3>1 DEF ContentHash
    <3> QED  BY <1>1, <3>1, <3>2 DEF CallSound, At, Earned
  <2> QED  BY <2>1, <2>2
<1>4. CASE lookupCache(p) /\ Hit(p)
  <2>1. Earned(cache.entries[job[p].r].result)
    BY <1>4 DEF Hit, VerdictsSound, DocSound, Sound
  <2> QED  BY <1>2, <1>4, <2>1 DEF lookupCache
<1>5. CASE lookupCache(p) /\ ~Hit(p)
  <2>1. At(p, "lookup") /\ job[p] \in RunJobs
    BY <1>5, JobFields DEF lookupCache
  <2>2. /\ job'[p].pc = "run" /\ job'[p].hash = job[p].hash /\ job'[p].edited = job[p].edited
        /\ last' = last /\ dir' = dir
    BY <1>1, <1>5, <2>1 DEF lookupCache, world, RunJobs
  <2> QED  BY <1>1, <2>1, <2>2 DEF CallSound, At, Earned
<1>6. CASE Execute(p)
  <2>1. At(p, "run") /\ job[p] \in RunJobs
    BY <1>6, JobFields DEF Execute
  <2>2. PICK t \in Answers(job[p].r), catalog \in Catalogs :
          /\ job[p].r.language = "workflow" => t["git ls-files"].exit = 0
          /\ job' = [job EXCEPT ![p] = [pc |-> "lock", r |-> job[p].r, hash |-> job[p].hash,
                                        result |-> Verdict(job[p], t, catalog)]]
    BY <1>6 DEF Execute
  <2>3. Spawned(job[p].r) # <<>> /\ job[p].r \in Requests /\ job[p].allow \in BOOLEAN /\ last' = last
    BY <1>6, <2>1 DEF Execute, RunJobs
  <2> DEFINE v == Verdict(job[p], t, catalog)
  <2>4. Sound(job[p].hash, v)
    <3>1. v.src = dir.src /\ v.edited = job[p].edited
      BY DEF Verdict
    <3>2. v.status = "success" => v.clean
      BY <2>2, <2>3, VerdictEarned DEF Verdict
    <3>3. job[p].hash[1] = dir.src \/ job[p].edited
      BY <1>1, <2>1 DEF CallSound
    <3> HIDE DEF v
    <3> QED  BY <3>1, <3>2, <3>3 DEF Sound, Earned
  <2>5. Declared(job[p].r)
    BY <2>3, SpawnedDeclared
  <2>6. job'[p].pc = "lock" /\ job'[p].r = job[p].r /\ job'[p].hash = job[p].hash /\ job'[p].result = v
    BY <1>1, <2>2
  <2> HIDE DEF v
  <2>7. Sound(job'[p].hash, job'[p].result) /\ Declared(job'[p].r)
    BY <2>4, <2>5, <2>6
  <2> QED  BY <1>1, <2>3, <2>6, <2>7 DEF CallSound, At, Earned
<1>7. CASE LockAndRead(p) \/ WriteFails(p) \/ Save(p)
  <2>1. (At(p, "lock") \/ At(p, "save")) /\ last' = last
    BY <1>7 DEF LockAndRead, WriteFails, Save
  <2>2. Sound(job[p].hash, job[p].result) /\ Declared(job[p].r) /\ DocSound(cache.entries)
    BY <1>1, <2>1 DEF CallSound, VerdictsSound
  <2>3. \/ job'[p] = [pc |-> "unlock", r |-> job[p].r, result |-> Failed]
        \/ job'[p] = [pc |-> "unlock", r |-> job[p].r, result |-> job[p].result]
        \/ job'[p] = [pc |-> "save", r |-> job[p].r, hash |-> job[p].hash, result |-> job[p].result,
                       doc |-> cache.entries]
    BY <1>1, <1>7 DEF LockAndRead, WriteFails, Save
  <2>4. \/ job'[p].pc = "unlock" /\ job'[p].r = job[p].r /\ job'[p].result \in {Failed, job[p].result}
        \/ /\ job'[p].pc = "save" /\ job'[p].r = job[p].r /\ job'[p].hash = job[p].hash
           /\ job'[p].result = job[p].result /\ job'[p].doc = cache.entries
    BY <2>3
  <2>5. Earned(job[p].result)
    BY <2>2 DEF Sound
  <2>6. \/ job'[p].pc = "unlock" /\ Declared(job'[p].r) /\ Earned(job'[p].result)
        \/ /\ job'[p].pc = "save" /\ Declared(job'[p].r) /\ Sound(job'[p].hash, job'[p].result)
           /\ DocSound(job'[p].doc)
    BY <1>1, <2>2, <2>4, <2>5
  <2> QED  BY <1>1, <2>1, <2>6 DEF CallSound, At, Earned
<1>8. CASE BreakLock(p)
  <2>1. UNCHANGED <<dir, job, last>>
    BY <1>8 DEF BreakLock, world
  <2> QED  BY <1>1, <2>1 DEF CallSound, At, Earned
<1>9. CASE Unlock(p) \/ ReturnUncached(p)
  <2>1. (At(p, "unlock") \/ At(p, "lock")) /\ Return(p, job[p].result)
    BY <1>9 DEF Unlock, ReturnUncached
  <2>2. Earned(job[p].result)
    BY <1>1, <2>1 DEF CallSound, Sound
  <2> QED  BY <1>2, <2>1, <2>2
<1>10. CASE ExecuteFails(p) \/ LockFails(p) \/ Dies(p)
  BY <1>1, <1>2, <1>10 DEF ExecuteFails, LockFails, Dies
<1> QED  BY <1>3, <1>4, <1>5, <1>6, <1>7, <1>8, <1>9, <1>10 DEF Step

\* Another call's sources stay what they were: a run changes its report alone.
LEMMA OthersSound ==
  ASSUME ToolchainTypeOK, VerdictsSound, NEW p \in Procs, Step(p), NEW q \in Procs, q # p
  PROVE  CallSound(q)'
PROOF
<1>1. job'[q] = job[q] /\ last'[q] = last[q] /\ CallSound(q)
  BY OthersKeep DEF VerdictsSound
<1>2. dir'.src = dir.src
  BY DEF Step, Begin, lookupCache, Execute, ExecuteFails, LockAndRead, BreakLock, Save, WriteFails, Unlock,
         LockFails, ReturnUncached, Dies, world, ToolchainTypeOK
<1> QED  BY <1>1, <1>2 DEF CallSound, At, Earned

LEMMA EntriesStaySound ==
  ASSUME ToolchainTypeOK, VerdictsSound, [Next]_vars
  PROVE  DocSound(cache'.entries)
PROOF
<1>1. CASE cache'.entries = cache.entries
  BY <1>1 DEF VerdictsSound
<1>2. ASSUME NEW p \in Procs, Save(p)
      PROVE  DocSound(cache'.entries)
  <2> DEFINE doc == job[p].doc
             e == [hash |-> job[p].hash, result |-> job[p].result]
             new == [q \in DOMAIN doc \cup {job[p].r} |-> IF q = job[p].r THEN e ELSE doc[q]]
  <2>1. At(p, "save") /\ cache' = [newer |-> FALSE, entries |-> new]
    BY <1>2, SaveDoes
  <2>2. cache'.entries = new
    BY <2>1
  <2>3. Sound(e.hash, e.result) /\ DocSound(doc)
    BY <2>1 DEF VerdictsSound, CallSound
  <2>4. \A r \in DOMAIN new : Sound(new[r].hash, new[r].result)
    BY <2>3 DEF DocSound
  <2> HIDE DEF new
  <2> QED  BY <2>2, <2>4 DEF DocSound
<1>3. \/ cache'.entries = cache.entries
      \/ \E p \in Procs : Save(p)
  BY DEF Next, Step, vars, Begin, lookupCache, Execute, ExecuteFails, LockAndRead, BreakLock, WriteFails, Unlock,
         LockFails, ReturnUncached, Dies, Edit, Midnight, Tag, Release, NewerBuild, ToolchainTypeOK
<1> QED  BY <1>1, <1>2, <1>3

LEMMA SoundInv ==
  ASSUME ToolchainTypeOK, VerdictsSound, [Next]_vars
  PROVE  VerdictsSound'
PROOF
<1> SUFFICES ASSUME NEW q \in Procs PROVE CallSound(q)'
  BY EntriesStaySound DEF VerdictsSound
<1>0. CallSound(q)
  BY DEF VerdictsSound
<1>1. CASE UNCHANGED <<dir, job, last>>
  BY <1>0, <1>1 DEF CallSound, At, Earned
<1>2. CASE Edit
  <2>1. /\ UNCHANGED last
        /\ job'[q] = IF At(q, "lookup") \/ At(q, "run") THEN [job[q] EXCEPT !.edited = TRUE] ELSE job[q]
    BY <1>2 DEF Edit
  <2>2. CASE At(q, "lookup") \/ At(q, "run")
    <3>1. job'[q] = [job[q] EXCEPT !.edited = TRUE] /\ job[q] \in RunJobs
      BY <2>1, <2>2, JobFields
    <3>2. job'[q].edited /\ job'[q].pc = job[q].pc
      BY <3>1 DEF RunJobs
    <3> QED  BY <1>0, <2>1, <2>2, <3>2 DEF CallSound, At, Earned
  <2>3. CASE ~(At(q, "lookup") \/ At(q, "run"))
    BY <1>0, <2>1, <2>3 DEF CallSound, At, Earned
  <2> QED  BY <2>2, <2>3
<1>3. ASSUME NEW p \in Procs, Step(p) PROVE CallSound(q)'
  BY <1>3, OwnStepSound, OthersSound
<1> QED  BY <1>1, <1>2, <1>3 DEF Next, vars, world, Midnight, Tag, Release, NewerBuild

LEMMA InitSound == Init => VerdictsSound
PROOF
BY DEF Init, VerdictsSound, DocSound, CallSound, Earned, At, Idle, None

IInv == ToolchainTypeOK /\ VerdictsSound
LEMMA Invariance == Spec => []IInv
PROOF
<1>1. Init => IInv
  BY InitType, InitSound DEF IInv
<1>2. IInv /\ [Next]_vars => IInv'
  BY NextType, SoundInv DEF IInv
<1> QED  BY <1>1, <1>2, PTL DEF Spec

\* A success, fresh or replayed, was earned from what was kept of the tools'
\* findings and from their exits, and only a pair of the dispatch table gets as
\* far as a verdict (run.go:64), for any number of findings, files, bodies and
\* calls, for whole and for cut reports.
THEOREM SuccessEarned == Spec => []SuccessWasEarned
<1>1. IInv => SuccessWasEarned
  <2> SUFFICES ASSUME IInv, NEW p \in Procs
               PROVE  /\ last[p].status = "success" => last[p].clean
                      /\ ~At(p, "idle") /\ ~At(p, "lookup") /\ ~At(p, "run") => Declared(job[p].r)
    BY DEF SuccessWasEarned
  <2>1. job[p].pc \in {"idle", "lookup", "run", "lock", "save", "unlock"}
    BY JobFields DEF IInv
  <2> QED  BY <2>1 DEF IInv, VerdictsSound, CallSound, Earned, At
<1> QED  BY <1>1, Invariance, PTL

\* What lookupCache replays (cache.go:88) was computed under the same policy and
\* over the sources that were hashed, or by a run whose sources were edited
\* between its own hash and its tools (run.go:120), for any edits and saves.
THEOREM ReplaySound == Spec => ReplayOfSource
<1> DEFINE Same == \A p \in Procs : (lookupCache(p) /\ Hit(p)) =>
             /\ last'[p].src = job[p].hash[1] \/ last'[p].edited
             /\ last'[p].allow = job[p].allow
<1>1. ASSUME IInv PROVE Same
  <2> SUFFICES ASSUME NEW p \in Procs, lookupCache(p), Hit(p)
               PROVE  /\ last'[p].src = job[p].hash[1] \/ last'[p].edited
                      /\ last'[p].allow = job[p].allow
    OBVIOUS
  <2>1. last'[p] = cache.entries[job[p].r].result
    BY <1>1 DEF lookupCache, Return, IInv, ToolchainTypeOK
  <2>2. /\ cache.entries[job[p].r].hash = job[p].hash
        /\ cache.entries[job[p].r].result.allow = job[p].allow
        /\ Sound(cache.entries[job[p].r].hash, cache.entries[job[p].r].result)
    BY <1>1 DEF Hit, IInv, VerdictsSound, DocSound
  <2> QED  BY <2>1, <2>2 DEF Sound
<1>2. IInv /\ [Next]_vars => [Same]_vars
  BY <1>1
<1> HIDE DEF Same
<1>3. Spec => [][Same]_vars
  BY <1>2, Invariance, PTL DEF Spec
<1> QED  BY <1>3 DEF ReplayOfSource, Same

(***************************************************************************)
(* The currency rule.  The highest version is found in any finite catalog, *)
(* and a catalog that grows only moves it up.                              *)
(***************************************************************************)
LEMMA lessOrders ==
  ASSUME NEW a \in Versions, NEW b \in Versions, NEW c \in Versions
  PROVE  /\ ~less(a, a)
         /\ ~less(a, b) /\ ~less(b, c) => ~less(a, c)
         /\ less(a, b) => ~less(b, a)
         /\ ~less(a, b) /\ ~less(b, a) => a = b
         /\ ~less(a, b) => b.major <= a.major
PROOF
<1>1. /\ a = [major |-> a.major, minor |-> a.minor, patch |-> a.patch]
      /\ b = [major |-> b.major, minor |-> b.minor, patch |-> b.patch]
      /\ {a.major, a.minor, a.patch, b.major, b.minor, b.patch, c.major, c.minor, c.patch} \subseteq Nat
  BY DEF Versions
<1>2. ~less(a, a)
  BY <1>1 DEF less
<1>3. ~less(a, b) /\ ~less(b, c) => ~less(a, c)
  BY <1>1 DEF less
<1>4. less(a, b) => ~less(b, a)
  BY <1>1 DEF less
<1>5. ~less(a, b) /\ ~less(b, a) => a = b
  <2>1. ~less(a, b) /\ ~less(b, a) => a.major = b.major /\ a.minor = b.minor /\ a.patch = b.patch
    BY <1>1 DEF less
  <2> QED  BY <1>1, <2>1
<1>6. ~less(a, b) => b.major <= a.major
  BY <1>1 DEF less
<1> QED  BY <1>2, <1>3, <1>4, <1>5, <1>6

\* By induction over the number of tags.
LEMMA HighestExists ==
  ASSUME NEW T, IsFiniteSet(T), T # {}, \A t \in T : t.version \in Versions
  PROVE  \E m \in T : \A u \in T : ~less(m.version, u.version)
PROOF
<1> DEFINE HasTop(U) == \E m \in U : \A u \in U : ~less(m.version, u.version)
           S == {n \in Nat : \A U \in SUBSET T : Cardinality(U) = n /\ U # {} => HasTop(U)}
<1>1. 0 \in S
  <2> SUFFICES ASSUME NEW U \in SUBSET T, Cardinality(U) = 0, U # {} PROVE FALSE
    OBVIOUS
  <2>1. IsFiniteSet(U)
    BY FS_Subset
  <2> QED  BY <2>1, FS_EmptySet
<1>2. ASSUME NEW n \in Nat, n \in S PROVE n + 1 \in S
  <2> SUFFICES ASSUME NEW U \in SUBSET T, Cardinality(U) = n + 1, U # {} PROVE HasTop(U)
    OBVIOUS
  <2>1. PICK x \in U : TRUE
    OBVIOUS
  <2> DEFINE V == U \ {x}
  <2>2. IsFiniteSet(U) /\ Cardinality(V) = n /\ V \in SUBSET T
    <3>1. IsFiniteSet(U)
      BY FS_Subset
    <3>2. Cardinality(V) = Cardinality(U) - 1
      BY <3>1, FS_RemoveElement
    <3> QED  BY <3>1, <3>2
  <2>3. CASE V = {}
    <3>1. U = {x} /\ x.version \in Versions
      BY <2>3
    <3> QED  BY <3>1, lessOrders
  <2>4. CASE V # {}
    <3>1. PICK m \in V : \A u \in V : ~less(m.version, u.version)
      BY <1>2, <2>2, <2>4
    <3>2. m.version \in Versions /\ x.version \in Versions /\ \A u \in V : u.version \in Versions
      OBVIOUS
    <3>3. CASE ~less(m.version, x.version)
      BY <3>1, <3>3
    <3>4. CASE less(m.version, x.version)
      <4>1. ~less(x.version, m.version) /\ ~less(x.version, x.version)
        BY <3>2, <3>4, lessOrders
      <4>2. \A u \in V : ~less(x.version, u.version)
        BY <3>1, <3>2, <4>1, lessOrders
      <4>3. \A u \in U : ~less(x.version, u.version)
        BY <4>1, <4>2
      <4> QED  BY <4>3
    <3> QED  BY <3>3, <3>4
  <2> QED  BY <2>3, <2>4
<1> HIDE DEF S
<1>3. Nat \subseteq S
  BY <1>1, <1>2, SetInduction
<1>4. Cardinality(T) \in S
  BY <1>3, FS_CardinalityType
<1> QED  BY <1>4 DEF S

\* A catalog whose names, and whose bare versions, name one tag each.
WellNamed(ts) ==
  /\ IsFiniteSet(ts) /\ ts \subseteq TagRecords
  /\ \A t, u \in ts : t.name = u.name => t = u
  /\ \A t, u \in ts : t.isBare /\ u.isBare /\ t.version = u.version => t = u

LEMMA HighestIs ==
  ASSUME NEW ts, WellNamed(ts), Bare(ts) # {}
  PROVE  /\ highestBareVersion(ts) \in Bare(ts)
         /\ \A u \in Bare(ts) : ~less(highestBareVersion(ts).version, u.version)
PROOF
<1>1. IsFiniteSet(Bare(ts)) /\ \A t \in Bare(ts) : t.version \in Versions
  <2>1. Bare(ts) \subseteq ts
    BY DEF Bare
  <2> QED  BY <2>1, FS_Subset DEF WellNamed, TagRecords
<1>2. \E t \in Bare(ts) : \A u \in Bare(ts) : ~less(t.version, u.version)
  BY <1>1, HighestExists
<1> QED  BY <1>2 DEF highestBareVersion

Known(ts) == [known |-> TRUE, reason |-> "", tags |-> ts]
RefTo(t) == [path |-> FALSE, version |-> t.name]

\* The verdict on a reference to a tag of the catalog.
LEMMA VerdictOn ==
  ASSUME NEW ts, WellNamed(ts), NEW t \in ts, NEW now
  PROVE  evaluateCurrency(RefTo(t), Known(ts), now) =
           IF Bare(ts) = {} THEN "none"
           ELSE LET h == highestBareVersion(ts) IN
                IF t.name = h.name THEN "none"
                ELSE IF t.version.major < h.version.major THEN "error"
                ELSE IF now < date(t) + CurrencyWindow THEN "warning" ELSE "error"
PROOF
<1>1. {u \in ts : u.name = t.name} = {t}
  BY DEF WellNamed
<1>2. (CHOOSE u \in {t} : TRUE) = t
  OBVIOUS
<1>3. /\ RefTo(t).version = t.name /\ ~RefTo(t).path
      /\ Known(ts).tags = ts /\ Known(ts).known
  BY DEF RefTo, Known
<1> QED  BY <1>1, <1>2, <1>3, Zenon DEF evaluateCurrency

\* Every bare version of ts is one of us too.
Covers(ts, us) == \A t \in Bare(ts) : \E u \in Bare(us) : u.version = t.version

LEMMA VerdictAges ==
  ASSUME NEW ts, WellNamed(ts), NEW us, WellNamed(us), Covers(ts, us),
         NEW t, t \in ts, t \in us, NEW d \in Nat, NEW e \in Nat, d <= e
  PROVE  Severity(evaluateCurrency(RefTo(t), Known(ts), d))
           <= Severity(evaluateCurrency(RefTo(t), Known(us), e))
PROOF
<1> DEFINE before == evaluateCurrency(RefTo(t), Known(ts), d)
           after == evaluateCurrency(RefTo(t), Known(us), e)
           h == highestBareVersion(ts)
           k == highestBareVersion(us)
<1>1. /\ Severity("none") = 0 /\ Severity("warning") = 1 /\ Severity("error") = 2
      /\ after \in {"none", "warning", "error"} /\ before \in {"none", "warning", "error"}
  <2>1. Severity("none") = 0 /\ Severity("warning") = 1 /\ Severity("error") = 2
    BY DEF Severity
  <2>2. after \in {"none", "warning", "error"}
    BY VerdictOn
  <2>3. before \in {"none", "warning", "error"}
    BY VerdictOn
  <2> QED  BY <2>1, <2>2, <2>3
<1> SUFFICES ASSUME before # "none"
             PROVE  after = "error" \/ (after = "warning" /\ before = "warning")
  BY <1>1
<1>2. Bare(ts) # {} /\ t.name # h.name
  BY VerdictOn
<1>3. h \in Bare(ts) /\ \A u \in Bare(ts) : ~less(h.version, u.version)
  BY <1>2, HighestIs
<1>4. Bare(us) # {}
  BY <1>3 DEF Covers
<1>5. k \in Bare(us) /\ \A u \in Bare(us) : ~less(k.version, u.version)
  BY <1>4, HighestIs
<1> HIDE DEF h, k
<1>6. /\ h.version \in Versions /\ k.version \in Versions /\ t.version \in Versions
      /\ date(t) \in Nat /\ CurrencyWindow \in Nat
  <2>1. h \in TagRecords /\ k \in TagRecords /\ t \in TagRecords
    BY <1>3, <1>5 DEF Bare, WellNamed
  <2> QED  BY <2>1, WindowAssumption DEF TagRecords, date
<1>7. ~less(k.version, h.version)
  BY <1>3, <1>5 DEF Covers
<1>8. h.version.major <= k.version.major
  BY <1>6, <1>7, lessOrders
<1>9. t.name # k.name
  <2> SUFFICES ASSUME t.name = k.name PROVE FALSE
    OBVIOUS
  <2>1. t = k
    BY <1>5 DEF WellNamed, Bare
  <2>2. t \in Bare(ts)
    BY <1>5, <2>1 DEF Bare
  <2>3. ~less(h.version, t.version) /\ ~less(t.version, h.version)
    BY <1>3, <1>7, <2>1, <2>2
  <2>4. h.version = t.version
    BY <1>6, <2>3, lessOrders
  <2>5. h = t
    BY <1>3, <2>2, <2>4 DEF WellNamed, Bare
  <2> QED  BY <1>2, <2>5
<1>10. before = IF t.version.major < h.version.major THEN "error"
                ELSE IF d < date(t) + CurrencyWindow THEN "warning" ELSE "error"
  BY <1>2, VerdictOn DEF h
<1>11. after = IF t.version.major < k.version.major THEN "error"
               ELSE IF e < date(t) + CurrencyWindow THEN "warning" ELSE "error"
  BY <1>4, <1>9, VerdictOn DEF k
<1>12. h.version.major \in Nat /\ k.version.major \in Nat /\ t.version.major \in Nat
  BY <1>6 DEF Versions
<1> HIDE DEF before, after
<1> QED  BY <1>6, <1>8, <1>10, <1>11, <1>12

\* Tags are well named, and each is one that may appear.
WellTagged(ts) ==
  /\ WellNamed(ts)
  /\ \A t \in ts : \E u \in Tags : u.name = t.name /\ u.isBare = t.isBare /\ u.version = t.version
TagsInv == WellTagged(tags)

\* A tag more, or one with another date: what both catalogs need.
LEMMA TagsBecome ==
  ASSUME NEW old, WellTagged(old), NEW new \in TagRecords, \A t \in old : t.name # new.name,
         NEW u \in Tags, new.name = u.name, new.isBare = u.isBare, new.version = u.version,
         NEW ts, ts = old \cup {new}
  PROVE  WellTagged(ts)
PROOF
<1>1. IsFiniteSet(ts)
  BY FS_AddElement DEF WellTagged, WellNamed
<1>2. ts \subseteq TagRecords
  BY DEF WellTagged, WellNamed
<1>3. \A t \in ts : \E v \in Tags : v.name = t.name /\ v.isBare = t.isBare /\ v.version = t.version
  BY DEF WellTagged
<1>4. \A t, w \in ts : t.name = w.name => t = w
  BY DEF WellTagged, WellNamed
<1>5. \A t, w \in ts : t.isBare /\ w.isBare /\ t.version = w.version => t = w
  <2> SUFFICES ASSUME NEW t \in ts, NEW w \in ts, t.isBare, w.isBare, t.version = w.version
               PROVE  t.name = w.name
    BY <1>4
  <2> QED  BY <1>3, TagsAssumption
<1> QED  BY <1>1, <1>2, <1>3, <1>4, <1>5 DEF WellNamed, WellTagged

\* Without one of them they stay so.
LEMMA FewerTags == ASSUME NEW ts, WellTagged(ts), NEW gone PROVE WellTagged(ts \ {gone})
PROOF
<1>1. IsFiniteSet(ts \ {gone})
  BY FS_Subset DEF WellTagged, WellNamed
<1> QED  BY <1>1 DEF WellTagged, WellNamed

\* The steps of the catalog: no bare version goes away.
LEMMA CatalogSteps ==
  ASSUME ToolchainTypeOK, TagsInv, [Next]_vars
  PROVE  /\ TagsInv' /\ Covers(tags, tags') /\ Cardinality(tags) <= Cardinality(tags')
         /\ day \in Nat /\ day' \in Nat /\ day <= day'
PROOF
<1>1. day \in Nat
  BY DEF ToolchainTypeOK
<1>2. (UNCHANGED day) \/ day' = day + 1
  BY DEF Next, Step, vars, world, Begin, lookupCache, Execute, ExecuteFails, LockAndRead, BreakLock, Save,
         WriteFails, Unlock, LockFails, ReturnUncached, Dies, Edit, Midnight, Tag, Release, NewerBuild
<1>f. IsFiniteSet(tags) /\ Cardinality(tags) \in Nat
  BY FS_CardinalityType DEF TagsInv, WellTagged, WellNamed
<1>3. TagsInv' /\ Covers(tags, tags') /\ Cardinality(tags) <= Cardinality(tags')
  <2>1. CASE UNCHANGED tags
    BY <1>f, <2>1 DEF TagsInv, Covers, Bare
  <2>2. CASE Tag
    <3>1. PICK u \in Tags : (\A v \in tags : v.name # u.name) /\ tags' = tags \cup {[u EXCEPT !.commit = day]}
      BY <2>2 DEF Tag
    <3> DEFINE new == [u EXCEPT !.commit = day]
    <3>2. new \in TagRecords /\ new.name = u.name /\ new.isBare = u.isBare /\ new.version = u.version
      BY <1>1, TagsAssumption DEF TagRecords
    <3> HIDE DEF new
    <3>3. tags' = tags \cup {new}
      BY <3>1 DEF new
    <3>4. TagsInv'
      BY <3>1, <3>2, <3>3, TagsBecome DEF TagsInv
    <3>5. Covers(tags, tags')
      BY <3>3 DEF Covers, Bare
    <3>6. Cardinality(tags) <= Cardinality(tags')
      BY <1>f, <3>3, FS_AddElement
    <3> QED  BY <3>4, <3>5, <3>6
  <2>3. CASE Release
    <3>1. PICK t \in tags : tags' = (tags \ {t}) \cup {[t EXCEPT !.hasRelease = TRUE, !.published = day]}
      BY <2>3 DEF Release
    <3> DEFINE new == [t EXCEPT !.hasRelease = TRUE, !.published = day]
    <3>2. new \in TagRecords /\ new.name = t.name /\ new.isBare = t.isBare /\ new.version = t.version
      BY <1>1 DEF ToolchainTypeOK, TagRecords
    <3> HIDE DEF new
    <3>3. tags' = (tags \ {t}) \cup {new}
      BY <3>1 DEF new
    <3>4. PICK u \in Tags : new.name = u.name /\ new.isBare = u.isBare /\ new.version = u.version
      BY <3>2 DEF TagsInv, WellTagged
    <3>5. \A v \in tags \ {t} : v.name # new.name
      BY <3>2 DEF TagsInv, WellTagged, WellNamed
    <3>6. TagsInv'
      BY <3>2, <3>3, <3>4, <3>5, FewerTags, TagsBecome DEF TagsInv
    <3>7. Covers(tags, tags')
      BY <3>2, <3>3 DEF Covers, Bare
    <3>8. Cardinality(tags) <= Cardinality(tags')
      <4>1. Cardinality(tags \ {t}) = Cardinality(tags) - 1 /\ IsFiniteSet(tags \ {t})
        BY <1>f, FS_RemoveElement
      <4>2. new \notin tags \ {t}
        BY <3>5
      <4>3. Cardinality(tags') = Cardinality(tags \ {t}) + 1
        BY <3>3, <4>1, <4>2, FS_AddElement
      <4> QED  BY <1>f, <4>1, <4>3
    <3> QED  BY <3>6, <3>7, <3>8
  <2> QED  BY <2>1, <2>2, <2>3 DEF Next, Step, vars, world, Begin, lookupCache, Execute, ExecuteFails,
           LockAndRead, BreakLock, Save, WriteFails, Unlock, LockFails, ReturnUncached, Dies, Edit, Midnight,
           NewerBuild
<1> QED  BY <1>1, <1>2, <1>3

\* A catalog that fits on a page is read as it is.
LEMMA OneListing ==
  ASSUME NEW ts, IsFiniteSet(ts), ts \subseteq TagRecords, Cardinality(ts) <= PageSize, NEW listing \in Listings(ts)
  PROVE  listing = ts
PROOF
<1> DEFINE released == {t \in ts : t.hasRelease}
<1>1. IsFiniteSet(released) /\ Cardinality(released) <= Cardinality(ts)
  BY FS_Subset
<1>2. Cardinality(released) \in Nat /\ Cardinality(ts) \in Nat
  BY <1>1, FS_CardinalityType
<1>3. Cardinality(released) <= PageSize
  BY <1>1, <1>2, PageAssumption
<1>4. Pages(ts) = {ts} /\ Pages(released) = {released}
  BY <1>3 DEF Pages
<1>5. listing = {[t EXCEPT !.hasRelease = t \in released] : t \in ts}
  <2>1. PICK page \in Pages(ts), fresh \in Pages(released) :
          listing = {[t EXCEPT !.hasRelease = t \in fresh] : t \in page}
    BY DEF Listings
  <2>2. page = ts /\ fresh = released
    BY <1>4, <2>1
  <2> HIDE DEF released
  <2> QED  BY <2>1, <2>2, Zenon
<1>6. ASSUME NEW t \in ts PROVE [t EXCEPT !.hasRelease = t \in released] = t
  <2>1. t \in TagRecords /\ t.hasRelease \in BOOLEAN
    BY DEF TagRecords
  <2>2. t = [t EXCEPT !.hasRelease = t.hasRelease]
    BY <2>1 DEF TagRecords
  <2>3. (t \in released) = t.hasRelease
    BY <2>1
  <2> HIDE DEF released
  <2> QED  BY <2>2, <2>3
<1> HIDE DEF released
<1> QED  BY <1>5, <1>6

\* Days pass and tags appear, and a reference once called behind never becomes
\* current by itself, nor an error a warning (workflow_currency.go:159), for any
\* tags whose bare names differ in version and that fit on the page that is read.
THEOREM CurrencyAges == Spec => VerdictOnlyAges
<1> DEFINE Ages == Cardinality(tags') <= PageSize =>
       \A t \in tags \cap tags', before \in Listings(tags), after \in Listings(tags') :
         LET ref == [path |-> FALSE, version |-> t.name]
             known(ts) == [known |-> TRUE, reason |-> "", tags |-> ts]
         IN  Severity(evaluateCurrency(ref, known(before), day))
               <= Severity(evaluateCurrency(ref, known(after), day'))
<1>1. ASSUME ToolchainTypeOK, TagsInv, [Next]_vars
      PROVE  Ages
  <2> SUFFICES ASSUME Cardinality(tags') <= PageSize, NEW t \in tags, t \in tags',
                      NEW before \in Listings(tags), NEW after \in Listings(tags')
               PROVE  Severity(evaluateCurrency(RefTo(t), Known(before), day))
                        <= Severity(evaluateCurrency(RefTo(t), Known(after), day'))
    BY DEF RefTo, Known
  <2>1. PICK us, e : us = tags' /\ e = day'
    OBVIOUS
  <2>2. /\ WellNamed(tags) /\ WellNamed(us) /\ Covers(tags, us) /\ day \in Nat /\ e \in Nat /\ day <= e
        /\ Cardinality(tags) <= Cardinality(us)
    BY <1>1, <2>1, CatalogSteps DEF TagsInv, WellTagged
  <2>3. t \in tags /\ t \in us
    BY <2>1
  <2>4. Cardinality(tags) <= PageSize /\ Cardinality(us) <= PageSize
    BY <2>1, <2>2, PageAssumption, FS_CardinalityType DEF WellNamed
  <2>5. before = tags
    BY <2>2, <2>4, OneListing DEF WellNamed
  <2>6. after = us
    BY <2>1, <2>2, <2>4, OneListing DEF WellNamed
  <2>7. Severity(evaluateCurrency(RefTo(t), Known(tags), day))
          <= Severity(evaluateCurrency(RefTo(t), Known(us), e))
    BY <2>2, <2>3, VerdictAges
  <2> QED  BY <2>1, <2>5, <2>6, <2>7
<1>2. ToolchainTypeOK /\ TagsInv /\ [Next]_vars => [Ages]_<<tags, day>>
  BY <1>1
<1>3. ToolchainTypeOK /\ TagsInv /\ [Next]_vars => TagsInv'
  BY CatalogSteps
<1>4. Init => TagsInv
  BY FS_EmptySet DEF Init, TagsInv, WellTagged, WellNamed
<1> HIDE DEF Ages
<1>5. Spec => [][Ages]_<<tags, day>>
  BY <1>2, <1>3, <1>4, TypeCorrect, PTL DEF Spec
<1> QED  BY <1>5 DEF VerdictOnlyAges, Ages
=============================================================================
