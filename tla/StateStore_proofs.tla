-------------------------- MODULE StateStore_proofs --------------------------
(***************************************************************************)
(* Proofs about StateStore for every set of processes, refs, consumers and *)
(* requests and every pair of limits.  Nothing is assumed of the timing:    *)
(* holders overrun, breakers race and processes crash as they may, and     *)
(* each theorem says what still holds then.                                *)
(***************************************************************************)
EXTENDS StateStore, TLAPS

(***************************************************************************)
(* What a registration does to a document.                                 *)
(***************************************************************************)
LEMMA AnyRequestType == AnyRequest \in Requests
BY RequestsAssumption DEF AnyRequest

LEMMA NoDocumentType == NoDocument \in Document
BY DEF NoDocument, Document, Entry, Unseen

LEMMA RegisteringType ==
  ASSUME NEW doc \in Document, NEW q \in Requests, NEW v \in Nat
  PROVE  Registering(doc, q, v) \in Document
<1>1. q.ref \in Refs /\ q.consumer \in Consumers /\ q.at \in Nat
  BY RequestsAssumption
<1>2. \A e \in Entry : Seeing(e, q) \in Entry
  BY <1>1 DEF Seeing, Entry
<1>3. doc.refs \in [Refs -> Entry]
  BY DEF Document
<1>4. [doc.refs EXCEPT ![q.ref] = Seeing(doc.refs[q.ref], q)] \in [Refs -> Entry]
  BY <1>1, <1>2, <1>3
<1> QED
  BY <1>4 DEF Registering, Document

LEMMA RegisteringEntry ==
  ASSUME NEW doc \in Document, NEW q \in Requests, NEW v, NEW r \in Refs
  PROVE  Registering(doc, q, v).refs[r] =
           IF r = q.ref THEN Seeing(doc.refs[r], q) ELSE doc.refs[r]
BY DEF Registering, Document

LEMMA RegisteringGrows ==
  ASSUME NEW doc \in Document, NEW q \in Requests, NEW v
  PROVE  /\ Registered(doc) \subseteq Registered(Registering(doc, q, v))
         /\ <<q.ref, q.consumer>> \in Registered(Registering(doc, q, v))
         /\ \A r \in Refs : Seen(doc, r) =>
              Registering(doc, q, v).refs[r].first = doc.refs[r].first
<1>1. q.ref \in Refs /\ q.consumer \in Consumers
  BY RequestsAssumption
<1>2. ASSUME NEW r \in Refs
      PROVE  /\ doc.refs[r].consumers \subseteq
                  Registering(doc, q, v).refs[r].consumers
             /\ Seen(doc, r) =>
                  Registering(doc, q, v).refs[r].first = doc.refs[r].first
  <2>1. Registering(doc, q, v).refs[r] =
          IF r = q.ref THEN Seeing(doc.refs[r], q) ELSE doc.refs[r]
    BY RegisteringEntry
  <2> QED
    BY <2>1 DEF Seeing, Seen
<1>3. q.consumer \in Registering(doc, q, v).refs[q.ref].consumers
  <2>1. Registering(doc, q, v).refs[q.ref] = Seeing(doc.refs[q.ref], q)
    BY <1>1, RegisteringEntry
  <2> QED
    BY <2>1 DEF Seeing
<1> QED
  BY <1>1, <1>2, <1>3 DEF Registered

(***************************************************************************)
(* Type correctness.                                                       *)
(***************************************************************************)
LEMMA TypeStep == StoreTypeOK /\ [StoreNext]_storeVars => StoreTypeOK'
<1> USE LimitsAssumption, AnyRequestType, NoDocumentType
<1> SUFFICES ASSUME StoreTypeOK, [StoreNext]_storeVars
             PROVE  StoreTypeOK'
  OBVIOUS
<1> USE DEF StoreTypeOK, lapsing
<1>1. ASSUME NEW p \in Procs, Call(p) PROVE StoreTypeOK'
  BY <1>1 DEF Call, Goto, Waiting
<1>2. ASSUME NEW p \in Procs, Acquire(p) PROVE StoreTypeOK'
  BY <1>2 DEF Acquire, Goto
<1>3. ASSUME NEW p \in Procs, Contend(p) PROVE StoreTypeOK'
  BY <1>3 DEF Contend, Goto
<1>4. ASSUME NEW p \in Procs, OpenFails(p) PROVE StoreTypeOK'
  BY <1>4 DEF OpenFails, EndCall, Goto
<1>5. ASSUME NEW p \in Procs, FindStale(p) PROVE StoreTypeOK'
  BY <1>5 DEF FindStale, Goto
<1>6. ASSUME NEW p \in Procs, Break(p) PROVE StoreTypeOK'
  <2>1. lock' \in [held : BOOLEAN, owner : Procs \cup {NoProc}, age : 0 .. StaleAge + 1]
    <3>1. NoLock \in [held : BOOLEAN, owner : Procs \cup {NoProc}, age : 0 .. StaleAge + 1]
      BY DEF NoLock
    <3>2. lock' = NoLock \/ lock' = lock
      BY <1>6 DEF Break, RemoveLock
    <3> QED
      BY <3>1, <3>2
  <2>2. gone' \subseteq {q \in Procs \ {p} : pc[q] = "break"}
    BY <1>6 DEF Break, RemoveLock
  <2>3. lapse' \in {"none", "raced", "overrun"}
    BY <1>6 DEF Break
  <2> QED
    BY <1>6, <2>1, <2>2, <2>3 DEF Break, Goto
<1>7. ASSUME NEW p \in Procs, GiveUp(p) PROVE StoreTypeOK'
  BY <1>7 DEF GiveUp, EndCall, Goto
<1>8. ASSUME NEW p \in Procs, Poll(p) PROVE StoreTypeOK'
  BY <1>8 DEF Poll, Goto
<1>9. ASSUME NEW p \in Procs, Refuse(p) PROVE StoreTypeOK'
  BY <1>9 DEF Refuse, Goto
<1>10. ASSUME NEW p \in Procs, ReadDoc(p) PROVE StoreTypeOK'
  BY <1>10 DEF ReadDoc, Goto
<1>11. ASSUME NEW p \in Procs, WriteDoc(p) PROVE StoreTypeOK'
  <2>1. file' \in Document
    BY <1>11, RegisteringType, KnownAssumption DEF WriteDoc
  <2> QED
    BY <1>11, <2>1 DEF WriteDoc, Goto
<1>12. ASSUME NEW p \in Procs, WriteFails(p) PROVE StoreTypeOK'
  BY <1>12 DEF WriteFails, Goto
<1>13. ASSUME NEW p \in Procs, Release(p) PROVE StoreTypeOK'
  <2>1. <<req[p].ref, req[p].consumer>> \in Refs \X Consumers
    BY RequestsAssumption
  <2> QED
    BY <1>13, <2>1 DEF Release, RemoveLock, EndCall, Goto, NoLock
<1>14. ASSUME NEW p \in Procs, CrashStore(p) PROVE StoreTypeOK'
  BY <1>14 DEF CrashStore, EndCall, Goto
<1>15. CASE Tick
  BY <1>15 DEF Tick, Older
<1>16. CASE UNCHANGED storeVars
  BY <1>16 DEF storeVars
<1> QED
  BY <1>1, <1>2, <1>3, <1>4, <1>5, <1>6, <1>7, <1>8, <1>9, <1>10, <1>11, <1>12,
     <1>13, <1>14, <1>15, <1>16 DEF StoreNext, Step

\* Every variable of the store keeps its type, whatever the timing: in
\* particular the file is a well-formed document after every step.
THEOREM TypeCorrect == StoreSpec => []StoreTypeOK
<1>1. StoreInit => StoreTypeOK
  BY LimitsAssumption, AnyRequestType, NoDocumentType
     DEF StoreInit, StoreTypeOK, NoLock
<1> QED
  BY <1>1, TypeStep, PTL DEF StoreSpec
-----------------------------------------------------------------------------
(***************************************************************************)
(* Mutual exclusion.  HolderOwnsLock is not inductive: a removal hits no   *)
(* holder because, outside a lapse, a holder's lock file is not stale, and *)
(* a waiter about to remove one removes the very file it found stale, or   *)
(* finds none.                                                             *)
(***************************************************************************)
HolderInv ==
  \A p \in Procs : Holding(p) => lock.held /\ lock.owner = p /\ lock.age <= StaleAge
BreakerInv ==
  \A p \in Procs : pc[p] = "break" /\ p \notin gone => lock.held /\ lock.age > StaleAge
LockInv == lapse = "none" => HolderInv /\ BreakerInv

\* A lapse does not end while a call is under way.
LEMMA LapseLasts ==
  ASSUME StoreTypeOK, [StoreNext]_storeVars, lapse' = "none", lapse # "none"
  PROVE  \E p \in Procs :
           Call(p) /\ \A q \in Procs : ~Waiting(q) /\ ~Holding(q)
<1>1. PICK p \in Procs : Call(p)
  BY DEF StoreNext, Step, storeVars, lapsing, Acquire, Contend, OpenFails, FindStale,
         Break, GiveUp, Poll, Refuse, ReadDoc, WriteDoc, WriteFails, Release,
         CrashStore, Tick
<1> QED
  BY <1>1 DEF Call

LEMMA LockStep == StoreTypeOK /\ LockInv /\ [StoreNext]_storeVars => LockInv'
<1> USE LimitsAssumption
<1> SUFFICES ASSUME StoreTypeOK, LockInv, [StoreNext]_storeVars, lapse' = "none"
             PROVE  HolderInv' /\ BreakerInv'
  BY DEF LockInv
<1>0. /\ pc \in [Procs -> {"idle", "timedout", "crashed", "open", "stat", "break",
                           "read", "write", "release", "unwind"}]
      /\ lock \in [held : BOOLEAN, owner : Procs \cup {NoProc}, age : 0 .. StaleAge + 1]
      /\ gone \subseteq {p \in Procs : pc[p] = "break"}
  BY DEF StoreTypeOK
<1>b. CASE lapse # "none"
  \* The lapse ends as somebody calls; nobody else is in a call.
  <2>1. PICK p \in Procs : Call(p) /\ \A q \in Procs : ~Waiting(q) /\ ~Holding(q)
    BY <1>b, LapseLasts
  <2> QED
    BY <1>0, <2>1 DEF Call, Goto, HolderInv, BreakerInv, Waiting, Holding
<1>c. CASE lapse = "none"
  <2>0. HolderInv /\ BreakerInv
    BY <1>c DEF LockInv
  <2>a. ASSUME NEW p \in Procs, NEW label, Goto(p, label), UNCHANGED lock,
               gone \subseteq gone' \cup {p}, label # "break",
               label \in {"read", "write", "release", "unwind"} => Holding(p)
        PROVE  HolderInv' /\ BreakerInv'
    \* A process moves, does not acquire, and touches no lock file.
    BY <1>0, <2>0, <2>a DEF Goto, HolderInv, BreakerInv, Holding
  <2>1. ASSUME NEW p \in Procs, Call(p) PROVE HolderInv' /\ BreakerInv'
    BY <2>1, <2>a DEF Call
  <2>2. ASSUME NEW p \in Procs, Acquire(p) PROVE HolderInv' /\ BreakerInv'
    BY <1>0, <2>0, <2>2 DEF Acquire, Goto, lapsing, HolderInv, BreakerInv, Holding
  <2>3. ASSUME NEW p \in Procs, Contend(p) PROVE HolderInv' /\ BreakerInv'
    BY <2>3, <2>a DEF Contend, lapsing
  <2>4. ASSUME NEW p \in Procs, OpenFails(p) PROVE HolderInv' /\ BreakerInv'
    BY <2>4, <2>a DEF OpenFails, EndCall, lapsing
  <2>5. ASSUME NEW p \in Procs, FindStale(p) PROVE HolderInv' /\ BreakerInv'
    BY <1>0, <2>0, <2>5 DEF FindStale, Stale, Goto, lapsing, HolderInv, BreakerInv, Holding
  <2>6. ASSUME NEW p \in Procs, Break(p) PROVE HolderInv' /\ BreakerInv'
    <3>1. CASE ~Removable
      BY <2>6, <2>a, <3>1 DEF Break
    <3>2. CASE Removable
      <4>1. ~lock.held \/ p \notin gone
        BY <1>c, <2>6, <3>2 DEF Break
      <4>2. \A q \in Procs : ~Holding(q)
        BY <1>0, <2>0, <2>6, <4>1 DEF Break, HolderInv, BreakerInv
      <4>3. gone' = {q \in Procs \ {p} : pc[q] = "break"}
        BY <2>6, <3>2 DEF Break, RemoveLock
      <4>4. pc' = [pc EXCEPT ![p] = "open"]
        BY <2>6 DEF Break, Goto
      <4> QED
        BY <1>0, <4>2, <4>3, <4>4 DEF HolderInv, BreakerInv, Holding
    <3> QED
      BY <3>1, <3>2
  <2>7. ASSUME NEW p \in Procs, GiveUp(p) PROVE HolderInv' /\ BreakerInv'
    BY <2>7, <2>a DEF GiveUp, EndCall, lapsing
  <2>8. ASSUME NEW p \in Procs, Poll(p) PROVE HolderInv' /\ BreakerInv'
    BY <2>8, <2>a DEF Poll, lapsing
  <2>9. ASSUME NEW p \in Procs, Refuse(p) PROVE HolderInv' /\ BreakerInv'
    BY <2>9, <2>a DEF Refuse, Holding, lapsing
  <2>10. ASSUME NEW p \in Procs, ReadDoc(p) PROVE HolderInv' /\ BreakerInv'
    BY <2>10, <2>a DEF ReadDoc, Holding, lapsing
  <2>11. ASSUME NEW p \in Procs, WriteDoc(p) PROVE HolderInv' /\ BreakerInv'
    BY <2>11, <2>a DEF WriteDoc, Holding, lapsing
  <2>12. ASSUME NEW p \in Procs, WriteFails(p) PROVE HolderInv' /\ BreakerInv'
    BY <2>12, <2>a DEF WriteFails, Holding, lapsing
  <2>13. ASSUME NEW p \in Procs, Release(p) PROVE HolderInv' /\ BreakerInv'
    <3>1. Holding(p)
      BY <2>13 DEF Release, Holding
    <3>2. \A q \in Procs : Holding(q) => q = p
      BY <2>0, <3>1 DEF HolderInv
    <3>3. gone' = {q \in Procs \ {p} : pc[q] = "break"}
      BY <2>13 DEF Release, RemoveLock
    <3>4. pc' = [pc EXCEPT ![p] = "idle"]
      BY <2>13 DEF Release, EndCall, Goto
    <3> QED
      BY <1>0, <3>2, <3>3, <3>4 DEF HolderInv, BreakerInv, Holding
  <2>14. ASSUME NEW p \in Procs, CrashStore(p) PROVE HolderInv' /\ BreakerInv'
    BY <2>14, <2>a DEF CrashStore, EndCall
  <2>15. CASE Tick
    BY <1>0, <2>0, <2>15 DEF Tick, Older, HolderInv, BreakerInv, Holding
  <2>16. CASE UNCHANGED storeVars
    BY <2>0, <2>16 DEF storeVars, lapsing, HolderInv, BreakerInv, Holding
  <2> QED
    BY <2>1, <2>2, <2>3, <2>4, <2>5, <2>6, <2>7, <2>8, <2>9, <2>10, <2>11, <2>12,
       <2>13, <2>14, <2>15, <2>16 DEF StoreNext, Step
<1> QED
  BY <1>b, <1>c

LEMMA LockInvariant == StoreSpec => [](StoreTypeOK /\ LockInv)
<1>1. StoreInit => LockInv
  BY DEF StoreInit, LockInv, HolderInv, BreakerInv, Holding
<1> QED
  BY <1>1, LockStep, TypeCorrect, PTL DEF StoreSpec

\* For any number of processes and any limits, crashes included, whoever runs
\* fn owns the lock file until a holder outlives staleLockAge or a waiter
\* removes another file than the stale one it found, and again once the lock
\* has been unused since.
THEOREM LockExclusive == StoreSpec => []HolderOwnsLock
<1>1. LockInv => HolderOwnsLock
  BY DEF LockInv, HolderInv, HolderOwnsLock
<1> QED
  BY <1>1, LockInvariant, PTL
-----------------------------------------------------------------------------
(***************************************************************************)
(* No lost update.  Outside a lapse, what a process read under the lock is *)
(* still what the file holds when it writes, and a registration written    *)
(* but not yet acknowledged is in the file.                                *)
(***************************************************************************)
WriterInv ==
  \A p \in Procs : pc[p] = "write" => local[p] = file /\ file.version <= Known[p]
ReleaserInv ==
  \A p \in Procs :
    pc[p] = "release" => <<req[p].ref, req[p].consumer>> \in Registered(file)
DocInv == lapse = "none" => WriterInv /\ ReleaserInv

\* What WriteDoc makes of the file outside a lapse: the registration of the
\* document that was in it, which loses nothing.
LEMMA WriteEffect ==
  ASSUME StoreTypeOK, WriterInv, NEW p \in Procs, WriteDoc(p)
  PROVE  /\ file' = Registering(file, req[p], Known[p])
         /\ file.version <= file'.version
         /\ Registered(file) \subseteq Registered(file')
         /\ <<req[p].ref, req[p].consumer>> \in Registered(file')
         /\ \A r \in Refs : Seen(file, r) =>
              file'.refs[r].first = file.refs[r].first
<1>1. file' = Registering(file, req[p], Known[p]) /\ file.version <= Known[p]
  BY DEF WriteDoc, WriterInv
<1>2. file \in Document /\ req[p] \in Requests
  BY DEF StoreTypeOK
<1>3. file'.version = Known[p]
  BY <1>1 DEF Registering
<1> QED
  BY <1>1, <1>2, <1>3, RegisteringGrows

LEMMA DocStep == StoreTypeOK /\ LockInv /\ DocInv /\ [StoreNext]_storeVars => DocInv'
<1> SUFFICES ASSUME StoreTypeOK, LockInv, DocInv, [StoreNext]_storeVars, lapse' = "none"
             PROVE  WriterInv' /\ ReleaserInv'
  BY DEF DocInv
<1>0. /\ pc \in [Procs -> {"idle", "timedout", "crashed", "open", "stat", "break",
                           "read", "write", "release", "unwind"}]
      /\ local \in [Procs -> Document]
      /\ req \in [Procs -> Requests]
  BY DEF StoreTypeOK
<1> USE DEF WriterInv, ReleaserInv
<1>b. CASE lapse # "none"
  <2>1. PICK p \in Procs : Call(p) /\ \A q \in Procs : ~Waiting(q) /\ ~Holding(q)
    BY <1>b, LapseLasts
  <2> QED
    BY <1>0, <2>1 DEF Call, Goto, Waiting, Holding
<1>c. CASE lapse = "none"
  <2>0. WriterInv /\ ReleaserInv /\ HolderInv
    BY <1>c DEF DocInv, LockInv
  <2>a. ASSUME NEW p \in Procs, NEW label, Goto(p, label),
               label \notin {"write", "release"}, UNCHANGED file,
               \A q \in Procs : q # p => local'[q] = local[q] /\ req'[q] = req[q]
        PROVE  WriterInv' /\ ReleaserInv'
    \* A process that is not about to write or to report success disturbs nothing.
    BY <1>0, <2>0, <2>a DEF Goto
  <2>1. ASSUME NEW p \in Procs, Call(p) PROVE WriterInv' /\ ReleaserInv'
    BY <1>0, <2>1, <2>a DEF Call
  <2>2. ASSUME NEW p \in Procs,
               \/ Acquire(p) \/ Contend(p) \/ FindStale(p) \/ Break(p) \/ Poll(p)
               \/ Refuse(p)
        PROVE  WriterInv' /\ ReleaserInv'
    <3>1. PICK label \in {"read", "stat", "break", "open", "unwind"} : Goto(p, label)
      BY <2>2 DEF Acquire, Contend, FindStale, Break, Poll, Refuse
    <3>2. UNCHANGED <<file, local, req>>
      BY <2>2 DEF Acquire, Contend, FindStale, Break, Poll, Refuse
    <3> QED
      BY <2>a, <3>1, <3>2
  <2>3. ASSUME NEW p \in Procs, OpenFails(p) \/ GiveUp(p) \/ Release(p) \/ CrashStore(p)
        PROVE  WriterInv' /\ ReleaserInv'
    <3>1. PICK label \in {"idle", "timedout", "crashed"} : EndCall(p, label)
      BY <2>3 DEF OpenFails, GiveUp, Release, CrashStore
    <3>2. UNCHANGED file
      BY <2>3 DEF OpenFails, GiveUp, Release, CrashStore
    <3> QED
      BY <1>0, <2>a, <3>1, <3>2 DEF EndCall
  <2>4. ASSUME NEW p \in Procs, WriteFails(p) PROVE WriterInv' /\ ReleaserInv'
    BY <1>0, <2>4, <2>a DEF WriteFails
  <2>5. ASSUME NEW p \in Procs, ReadDoc(p) PROVE WriterInv' /\ ReleaserInv'
    BY <1>0, <2>0, <2>5 DEF ReadDoc, Goto
  <2>6. ASSUME NEW p \in Procs, WriteDoc(p) PROVE WriterInv' /\ ReleaserInv'
    <3>1. \A q \in Procs : q # p => ~Holding(q)
      BY <2>0, <2>6 DEF WriteDoc, HolderInv, Holding
    <3>2. \A q \in Procs : pc'[q] = "release" => q = p
      BY <1>0, <2>6, <3>1 DEF WriteDoc, Goto, Holding
    <3>3. \A q \in Procs : pc'[q] # "write"
      BY <1>0, <2>6, <3>1 DEF WriteDoc, Goto, Holding
    <3> QED
      BY <2>0, <2>6, <3>2, <3>3, WriteEffect DEF WriteDoc
  <2>7. CASE Tick
    BY <2>0, <2>7 DEF Tick
  <2>8. CASE UNCHANGED storeVars
    BY <2>0, <2>8 DEF storeVars
  <2> QED
    BY <2>1, <2>2, <2>3, <2>4, <2>5, <2>6, <2>7, <2>8 DEF StoreNext, Step
<1> QED
  BY <1>b, <1>c

StoreInv == StoreTypeOK /\ LockInv /\ DocInv

LEMMA StoreInvariant == StoreSpec => []StoreInv
<1>1. StoreInit => DocInv
  BY DEF StoreInit, DocInv, WriterInv, ReleaserInv
<1> QED
  BY <1>1, DocStep, LockInvariant, PTL DEF StoreSpec, StoreInv

\* Every step leaves the file alone but WriteDoc's.
LEMMA FileSteps ==
  ASSUME [StoreNext]_storeVars
  PROVE  UNCHANGED file \/ \E p \in Procs : WriteDoc(p)
BY DEF StoreNext, Step, storeVars, Call, Acquire, Contend, OpenFails, FindStale,
       Break, GiveUp, Poll, Refuse, ReadDoc, WriteFails, Release, CrashStore, Tick

\* The effect on the file of a step that no lapse accompanies.
LEMMA FileGrows ==
  ASSUME StoreInv, [StoreNext]_storeVars, lapse' = "none"
  PROVE  /\ file.version <= file'.version
         /\ Registered(file) \subseteq Registered(file')
         /\ \A r \in Refs : Seen(file, r) => file'.refs[r].first = file.refs[r].first
<1>1. CASE UNCHANGED file
  BY <1>1 DEF StoreInv, StoreTypeOK, Document
<1>2. ASSUME NEW p \in Procs, WriteDoc(p)
      PROVE  /\ file.version <= file'.version
             /\ Registered(file) \subseteq Registered(file')
             /\ \A r \in Refs : Seen(file, r) => file'.refs[r].first = file.refs[r].first
  <2>1. lapse = "none"
    BY <1>2 DEF WriteDoc, lapsing
  <2> QED
    BY <1>2, <2>1, WriteEffect DEF StoreInv, DocInv
<1> QED
  BY <1>1, <1>2, FileSteps

\* Builds of different schema versions, sharing a file, never take it back but
\* while a lapse lasts.
THEOREM OnlyGrows == StoreSpec => RegistryOnlyGrows
<1> DEFINE Grows ==
      \/ lapse' # "none"
      \/ /\ file.version <= file'.version
         /\ Registered(file) \subseteq Registered(file')
         /\ \A r \in Refs : Seen(file, r) => file'.refs[r].first = file.refs[r].first
<1>1. StoreInv /\ [StoreNext]_storeVars => [Grows]_storeVars
  BY FileGrows
<1> HIDE DEF Grows
<1>2. StoreSpec => [][Grows]_storeVars
  BY <1>1, StoreInvariant, PTL DEF StoreSpec
<1> QED
  BY <1>2 DEF RegistryOnlyGrows, Grows

\* Only a success grows the set of acknowledged registrations.
LEMMA AckSteps ==
  ASSUME [StoreNext]_storeVars
  PROVE  \/ UNCHANGED acked
         \/ \E p \in Procs : /\ pc[p] = "release" /\ Release(p)
                             /\ acked' = acked \cup {<<req[p].ref, req[p].consumer>>}
BY DEF StoreNext, Step, storeVars, Call, Acquire, Contend, OpenFails, FindStale,
       Break, GiveUp, Poll, Refuse, ReadDoc, WriteDoc, WriteFails, Release,
       CrashStore, Tick

\* No step outside a lapse loses an acknowledged registration: neither one
\* that was in the file, nor the one it acknowledges.
THEOREM NothingLost == StoreSpec => LostOnlyInLapse
<1> DEFINE Keeps == lapse' # "none" \/ Lost' \subseteq Lost
<1>1. ASSUME StoreInv, [StoreNext]_storeVars, lapse' = "none"
      PROVE  Lost' \subseteq Lost
  <2>1. Registered(file) \subseteq Registered(file')
    BY <1>1, FileGrows
  <2>2. CASE UNCHANGED acked
    BY <2>1, <2>2 DEF Lost
  <2>3. ASSUME NEW p \in Procs, pc[p] = "release", Release(p),
               acked' = acked \cup {<<req[p].ref, req[p].consumer>>}
        PROVE  Lost' \subseteq Lost
    <3>1. lapse = "none" /\ file' = file
      BY <1>1, <2>3 DEF Release
    <3>2. <<req[p].ref, req[p].consumer>> \in Registered(file)
      BY <1>1, <2>3, <3>1 DEF StoreInv, DocInv, ReleaserInv
    <3> QED
      BY <2>3, <3>1, <3>2 DEF Lost
  <2> QED
    BY <1>1, <2>2, <2>3, AckSteps
<1>2. StoreInv /\ [StoreNext]_storeVars => [Keeps]_storeVars
  BY <1>1
<1> HIDE DEF Keeps
<1>3. StoreSpec => [][Keeps]_storeVars
  BY <1>2, StoreInvariant, PTL DEF StoreSpec
<1> QED
  BY <1>3 DEF LostOnlyInLapse, Keeps
-----------------------------------------------------------------------------
(***************************************************************************)
(* Refinement: StateStore implements SourceRegistry.  Acquiring, waiting   *)
(* and reading are stutters; WriteDoc is Apply; Release is Return, or      *)
(* Vanish after a failed fn.                                               *)
(***************************************************************************)
\* The instance's copies of the document operators are the store's.
LEMMA SameOperators ==
  /\ Registry!NoDocument = NoDocument
  /\ Registry!AnyRequest = AnyRequest
  /\ \A doc, q, v : Registry!Registering(doc, q, v) = Registering(doc, q, v)
BY DEF Registry!NoDocument, NoDocument, Registry!Unseen, Unseen,
       Registry!AnyRequest, AnyRequest,
       Registry!Registering, Registering, Registry!Seeing, Seeing

LEMMA StatusOf ==
  ASSUME NEW p \in Procs
  PROVE  /\ pc[p] = "release" => CallStatus[p] = "applied"
         /\ pc[p] \in {"open", "stat", "break", "read", "write", "unwind"} =>
              CallStatus[p] = "pending"
         /\ pc[p] \in {"idle", "timedout", "crashed"} => CallStatus[p] = "idle"
BY DEF CallStatus, Waiting

\* How the status moves when p does: only p's entry changes.
LEMMA StatusMoves ==
  ASSUME StoreTypeOK, NEW p \in Procs, NEW label, Goto(p, label)
  PROVE  /\ label = "release" => CallStatus' = [CallStatus EXCEPT ![p] = "applied"]
         /\ label \in {"open", "stat", "break", "read", "write", "unwind"} =>
              CallStatus' = [CallStatus EXCEPT ![p] = "pending"]
         /\ label \in {"idle", "timedout", "crashed"} =>
              CallStatus' = [CallStatus EXCEPT ![p] = "idle"]
<1>1. pc' = [pc EXCEPT ![p] = label] /\ pc \in [Procs -> {"idle", "timedout", "crashed",
        "open", "stat", "break", "read", "write", "release", "unwind"}]
  BY DEF StoreTypeOK, Goto
<1> QED
  BY <1>1 DEF CallStatus, Waiting

LEMMA RefinementStep ==
  ASSUME StoreInv, [StoreNext]_storeVars
  PROVE  [lapse' # "none" \/ Registry!Next]_(Registry!vars)
<1> USE SameOperators DEF Registry!vars
<1>0. StoreTypeOK /\ CallStatus \in [Procs -> {"idle", "pending", "applied"}]
  BY DEF StoreInv, CallStatus
<1>a. ASSUME NEW p \in Procs, NEW label, Goto(p, label),
             CallStatus[p] = "pending", UNCHANGED <<file, req, acked>>,
             label \in {"open", "stat", "break", "read", "write", "unwind"}
      PROVE  UNCHANGED <<file, CallStatus, req, acked>>
  BY <1>0, <1>a, StatusMoves
<1>b. ASSUME NEW p \in Procs, NEW label, EndCall(p, label),
             CallStatus[p] \in {"pending", "applied"}, UNCHANGED <<file, acked>>,
             label \in {"idle", "timedout", "crashed"}
      PROVE  Registry!Vanish(p)
  <2>1. CallStatus' = [CallStatus EXCEPT ![p] = "idle"]
    BY <1>0, <1>b, StatusMoves DEF EndCall
  <2> QED
    BY <1>b, <2>1 DEF EndCall, Registry!Vanish, Registry!Finish
<1>1. ASSUME NEW p \in Procs, Call(p) PROVE Registry!Invoke(p)
  <2>1. CallStatus[p] = "idle"
    BY <1>0, <1>1 DEF Call, CallStatus, Holding
  <2>2. CallStatus' = [CallStatus EXCEPT ![p] = "pending"]
    BY <1>0, <1>1, StatusMoves DEF Call
  <2> QED
    BY <1>1, <2>1, <2>2 DEF Call, Registry!Invoke
<1>2. ASSUME NEW p \in Procs,
             \/ Acquire(p) \/ Contend(p) \/ FindStale(p) \/ Break(p) \/ Poll(p)
             \/ Refuse(p) \/ ReadDoc(p) \/ WriteFails(p)
      PROVE  UNCHANGED <<file, CallStatus, req, acked>>
  <2>1. CallStatus[p] = "pending"
    BY <1>2, StatusOf
       DEF Acquire, Contend, FindStale, Break, Poll, Refuse, ReadDoc, WriteFails
  <2>2. PICK label \in {"open", "stat", "break", "read", "write", "unwind"} : Goto(p, label)
    BY <1>2 DEF Acquire, Contend, FindStale, Break, Poll, Refuse, ReadDoc, WriteFails
  <2>3. UNCHANGED <<file, req, acked>>
    BY <1>2 DEF Acquire, Contend, FindStale, Break, Poll, Refuse, ReadDoc, WriteFails
  <2> QED
    BY <1>a, <2>1, <2>2, <2>3
<1>3. ASSUME NEW p \in Procs, OpenFails(p) \/ GiveUp(p) PROVE Registry!Vanish(p)
  <2>1. CallStatus[p] = "pending"
    BY <1>3, StatusOf DEF OpenFails, GiveUp
  <2>2. EndCall(p, "idle") \/ EndCall(p, "timedout")
    BY <1>3 DEF OpenFails, GiveUp
  <2>3. UNCHANGED <<file, acked>>
    BY <1>3 DEF OpenFails, GiveUp
  <2> QED
    BY <1>b, <2>1, <2>2, <2>3
<1>4. ASSUME NEW p \in Procs, WriteDoc(p) PROVE Registry!Apply(p) \/ lapse' # "none"
  <2>1. CallStatus[p] = "pending"
    BY <1>4, StatusOf DEF WriteDoc
  <2>2. CallStatus' = [CallStatus EXCEPT ![p] = "applied"]
    BY <1>0, <1>4, StatusMoves DEF WriteDoc
  <2>3. CASE lapse = "none"
    <3>1. file' = Registering(file, req[p], Known[p]) /\ file.version <= Known[p]
      BY <1>4, <2>3, WriteEffect DEF StoreInv, WriteDoc, DocInv, WriterInv
    <3> QED
      BY <1>4, <2>1, <2>2, <3>1 DEF WriteDoc, Registry!Apply
  <2>4. CASE lapse # "none"
    BY <1>4, <2>4 DEF WriteDoc, lapsing
  <2> QED
    BY <2>3, <2>4
<1>5. ASSUME NEW p \in Procs, Release(p) PROVE Registry!Return(p) \/ Registry!Vanish(p)
  <2>1. CASE pc[p] = "release"
    <3>1. CallStatus' = [CallStatus EXCEPT ![p] = "idle"]
      BY <1>0, <1>5, StatusMoves DEF Release, EndCall
    <3> QED
      BY <1>5, <2>1, <3>1, StatusOf
         DEF Release, EndCall, Registry!Return, Registry!Finish
  <2>2. CASE pc[p] = "unwind"
    BY <1>5, <1>b, <2>2, StatusOf DEF Release
  <2> QED
    BY <1>5, <2>1, <2>2 DEF Release
<1>6. ASSUME NEW p \in Procs, CrashStore(p) PROVE Registry!Vanish(p)
  <2>1. CallStatus[p] \in {"pending", "applied"}
    BY <1>6, StatusOf DEF CrashStore, Waiting, Holding
  <2> QED
    BY <1>6, <1>b, <2>1 DEF CrashStore
<1>7. CASE Tick
  BY <1>7 DEF Tick, CallStatus, Waiting
<1>8. CASE UNCHANGED storeVars
  BY <1>8 DEF storeVars, CallStatus, Waiting
<1> QED
  BY <1>1, <1>2, <1>3, <1>4, <1>5, <1>6, <1>7, <1>8 DEF StoreNext, Step, Registry!Next

\* Every behaviour of the locked file, crashes and timeouts included, is one
\* of the registry whose registrations are single steps, but for the changes
\* made while a lapse lasts.
THEOREM Refinement == StoreSpec => RegistrySpec
<1>1. StoreInit => Registry!Init
  BY SameOperators DEF StoreInit, Registry!Init, CallStatus, Waiting
<1>2. StoreInv /\ [StoreNext]_storeVars =>
        [lapse' # "none" \/ Registry!Next]_(Registry!vars)
  BY RefinementStep
<1> QED
  BY <1>1, <1>2, StoreInvariant, PTL DEF StoreSpec, RegistrySpec
=============================================================================
