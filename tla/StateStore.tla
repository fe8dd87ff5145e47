----------------------------- MODULE StateStore -----------------------------
(***************************************************************************)
(* go/state: RegisterSource, a read-modify-write of one registry file by   *)
(* several processes, under WithLock, an exclusively created lock file.    *)
(*                                                                         *)
(* Time passes by Tick.  No clock is kept: the lock file carries its age   *)
(* and each waiter how long it has waited, both up to one past the limit   *)
(* the code compares them with.  A process may crash anywhere in a call;   *)
(* its lock file stays behind.  A holder may take any time, and waiters    *)
(* may race: two history variables record the lapses this leads to.        *)
(***************************************************************************)
EXTENDS RegistryDoc

CONSTANTS
  NoProc,        \* the owner of no lock file
  StaleAge,      \* staleLockAge: a lock file older than this is broken
  LockTimeout,   \* lockTimeout: a waiter gives up past this
  MaxCrashes,    \* bound: crashes in a behaviour
  Removable      \* os.Remove of a stale lock file succeeds

ASSUME LimitsAssumption == StaleAge \in Nat /\ LockTimeout \in Nat /\ MaxCrashes \in Nat
ASSUME NoProcAssumption == NoProc \notin Procs
ASSUME RemovableAssumption == Removable \in BOOLEAN

VARIABLES
  pc,       \* pc[p]: the next step of p's call
  local,    \* local[p]: the document p read under the lock
  waited,   \* waited[p]: time p has waited for the lock
  lock,     \* the lock file: whether it exists, who created it, its age
  crashes,  \* crashes so far
  file,     \* the registry document
  req,      \* req[p]: the arguments of p's call
  acked,    \* history: the (ref, consumer) pairs of the calls that returned nil
  gone,     \* history: the waiters about to remove a stale lock file that
            \* somebody else has removed since they found it
  lapse     \* history: what went wrong with the lock since it was last unused

lapsing == <<gone, lapse>>
storeVars == <<pc, local, waited, lock, crashes, file, req, acked, lapsing>>

Holding(p) == pc[p] \in {"read", "write", "release", "unwind"}
Waiting(p) == pc[p] \in {"open", "stat", "break"}

NoLock == [held |-> FALSE, owner |-> NoProc, age |-> 0]
\* Mutation: the limit itself counts as stale.
StaleAtLimit == lock.held /\ lock.age >= StaleAge
Stale == lock.held /\ lock.age > StaleAge

StoreTypeOK ==
  /\ pc \in [Procs -> {"idle", "timedout", "crashed", "open", "stat", "break",
                       "read", "write", "release", "unwind"}]
  /\ local \in [Procs -> Document]
  /\ waited \in [Procs -> 0 .. LockTimeout + 1]
  /\ lock \in [held : BOOLEAN, owner : Procs \cup {NoProc}, age : 0 .. StaleAge + 1]
  /\ crashes \in 0 .. MaxCrashes
  /\ file \in Document
  /\ req \in [Procs -> Requests]
  /\ acked \subseteq Refs \X Consumers
  /\ gone \subseteq {p \in Procs : pc[p] = "break"}
  /\ lapse \in {"none", "raced", "overrun"}

StoreInit ==
  /\ pc = [p \in Procs |-> "idle"]
  /\ local = [p \in Procs |-> NoDocument]
  /\ waited = [p \in Procs |-> 0]
  /\ lock = NoLock
  /\ crashes = 0
  /\ file = NoDocument
  /\ req = [p \in Procs |-> AnyRequest]
  /\ acked = {}
  /\ gone = {} /\ lapse = "none"

Goto(p, label) == pc' = [pc EXCEPT ![p] = label]
\* The call ends, with or without returning: its variables are gone.
EndCall(p, label) ==
  /\ Goto(p, label)
  /\ local' = [local EXCEPT ![p] = NoDocument]
  /\ waited' = [waited EXCEPT ![p] = 0]
  /\ req' = [req EXCEPT ![p] = AnyRequest]

(***************************************************************************)
(* WithLock: acquiring, breaking, waiting.                                 *)
(***************************************************************************)
\* RegisterSource is called, by a process that runs no call or by a new one in
\* a crashed one's place, and computes its deadline.  A lapse is over if
\* nobody else is in a call.
Call(p) ==
  /\ ~Waiting(p) /\ ~Holding(p)
  /\ Goto(p, "open")
  /\ \E q \in Requests : req' = [req EXCEPT ![p] = q]
  /\ lapse' = IF \E q \in Procs : Waiting(q) \/ Holding(q) THEN lapse ELSE "none"
  /\ UNCHANGED <<local, waited, lock, crashes, file, acked, gone>>

\* Mutation: the lock file is opened without O_EXCL.
AcquireShared(p) ==
  /\ pc[p] = "open"
  /\ lock' = [held |-> TRUE, owner |-> p, age |-> 0]
  /\ Goto(p, "read")
  /\ waited' = [waited EXCEPT ![p] = 0]
  /\ UNCHANGED <<local, crashes, file, req, acked, lapsing>>

\* O_CREATE|O_EXCL makes the lock file: p runs fn.
Acquire(p) ==
  /\ pc[p] = "open"
  /\ ~lock.held
  /\ lock' = [held |-> TRUE, owner |-> p, age |-> 0]
  /\ Goto(p, "read")
  /\ waited' = [waited EXCEPT ![p] = 0]
  /\ UNCHANGED <<local, crashes, file, req, acked, lapsing>>

\* The lock file exists.
Contend(p) ==
  /\ pc[p] = "open"
  /\ lock.held
  /\ Goto(p, "stat")
  /\ UNCHANGED <<local, waited, lock, crashes, file, req, acked, lapsing>>

\* The open fails for any other reason, whatever the lock file's state.
OpenFails(p) ==
  /\ pc[p] = "open"
  /\ EndCall(p, "idle")
  /\ UNCHANGED <<lock, crashes, file, acked, lapsing>>

\* p finds the lock file too old.  Removing it is another system call.
FindStale(p) ==
  /\ pc[p] = "stat"
  /\ Stale
  /\ Goto(p, "break")
  /\ UNCHANGED <<local, waited, lock, crashes, file, req, acked, lapsing>>

\* Mutation: the stale lock file is not removed.
BreakNothing(p) ==
  /\ pc[p] = "break"
  /\ Goto(p, "open")
  /\ gone' = gone \ {p}
  /\ UNCHANGED <<local, waited, lock, crashes, file, req, acked, lapse>>

\* p removes the file at lockPath: to the other waiters about to do so, the one
\* they found stale is gone.
RemoveLock(p) ==
  /\ lock' = NoLock
  /\ gone' = {q \in Procs \ {p} : pc[q] = "break"}

\* os.Remove(lockPath), then back to the open whether or not it removed a
\* file, and whoever's the file is by now: a lapse if it is not the stale one.
Break(p) ==
  /\ pc[p] = "break"
  /\ IF Removable THEN RemoveLock(p) ELSE gone' = gone \ {p} /\ UNCHANGED lock
  /\ lapse' = IF Removable /\ lock.held /\ p \in gone /\ lapse = "none" THEN "raced" ELSE lapse
  /\ Goto(p, "open")
  /\ UNCHANGED <<local, waited, crashes, file, req, acked>>

\* Mutation: the deadline is looked at before the lock file's age.
GiveUpFirst(p) ==
  /\ pc[p] = "stat"
  /\ waited[p] > LockTimeout
  /\ EndCall(p, "timedout")
  /\ UNCHANGED <<lock, crashes, file, acked, lapsing>>

\* The lock file is gone or young: give up past the deadline, else poll again.
GiveUp(p) ==
  /\ pc[p] = "stat"
  /\ ~Stale
  /\ waited[p] > LockTimeout
  /\ EndCall(p, "timedout")
  /\ UNCHANGED <<lock, crashes, file, acked, lapsing>>

Poll(p) ==
  /\ pc[p] = "stat"
  /\ ~Stale
  /\ waited[p] <= LockTimeout
  /\ Goto(p, "open")
  /\ UNCHANGED <<local, waited, lock, crashes, file, req, acked, lapsing>>

(***************************************************************************)
(* fn, RegisterSource's read-modify-write, and the deferred release.       *)
(***************************************************************************)
\* Read: a document newer than p's build is refused.
Refuse(p) ==
  /\ pc[p] = "read"
  /\ file.version > Known[p]
  /\ Goto(p, "unwind")
  /\ UNCHANGED <<local, waited, lock, crashes, file, req, acked, lapsing>>

\* Mutation: any version is read.
ReadAnyVersion(p) ==
  /\ pc[p] = "read"
  /\ local' = [local EXCEPT ![p] = file]
  /\ Goto(p, "write")
  /\ UNCHANGED <<waited, lock, crashes, file, req, acked, lapsing>>

\* Mutation: only the read is under the lock.
ReadAndUnlock(p) ==
  /\ pc[p] = "read"
  /\ file.version <= Known[p]
  /\ RemoveLock(p)
  /\ local' = [local EXCEPT ![p] = file]
  /\ Goto(p, "write")
  /\ UNCHANGED <<waited, crashes, file, req, acked, lapse>>

\* Any other document is read; migration leaves the refs of an older one as
\* they are, the chain of migrations being empty.
ReadDoc(p) ==
  /\ pc[p] = "read"
  /\ file.version <= Known[p]
  /\ local' = [local EXCEPT ![p] = file]
  /\ Goto(p, "write")
  /\ UNCHANGED <<waited, lock, crashes, file, req, acked, lapsing>>

\* The document with p's registration replaces the file in one rename.
WriteDoc(p) ==
  /\ pc[p] = "write"
  /\ file' = Registering(local[p], req[p], Known[p])
  /\ local' = [local EXCEPT ![p] = NoDocument]
  /\ Goto(p, "release")
  /\ UNCHANGED <<waited, lock, crashes, req, acked, lapsing>>

\* The write fails before its rename: the old document stays.
WriteFails(p) ==
  /\ pc[p] = "write"
  /\ local' = [local EXCEPT ![p] = NoDocument]
  /\ Goto(p, "unwind")
  /\ UNCHANGED <<waited, lock, crashes, file, req, acked, lapsing>>

\* defer os.Remove(lockPath), and the call returns.  The removal is
\* unconditional: it takes away whatever lock file is there.
Release(p) ==
  /\ pc[p] \in {"release", "unwind"}
  /\ RemoveLock(p)
  /\ acked' = IF pc[p] = "release"
              THEN acked \cup {<<req[p].ref, req[p].consumer>>}
              ELSE acked
  /\ EndCall(p, "idle")
  /\ UNCHANGED <<crashes, file, lapse>>

(***************************************************************************)
(* The environment: crashes and the passage of time.                       *)
(***************************************************************************)
CrashStore(p) ==
  /\ Waiting(p) \/ Holding(p)
  /\ crashes < MaxCrashes
  /\ crashes' = crashes + 1
  /\ EndCall(p, "crashed")
  /\ gone' = gone \ {p}
  /\ UNCHANGED <<lock, file, acked, lapse>>

Older(t, limit) == IF t > limit THEN t ELSE t + 1

\* A lock file that grows stale while its owner still runs fn is a lapse.
Tick ==
  /\ lock' = [lock EXCEPT !.age = IF lock.held THEN Older(@, StaleAge) ELSE @]
  /\ lapse' = IF \E p \in Procs : Holding(p) /\ lock.held /\ lock.owner = p /\ lock.age >= StaleAge
              THEN "overrun" ELSE lapse
  /\ waited' = [p \in Procs |-> IF Waiting(p) THEN Older(waited[p], LockTimeout)
                                              ELSE waited[p]]
  /\ UNCHANGED <<pc, local, crashes, file, req, acked, gone>>

\* The steps a running call owes: what WithLock and fn do next.
Step(p) ==
  \/ Acquire(p) \/ Contend(p) \/ OpenFails(p)
  \/ FindStale(p) \/ Break(p) \/ GiveUp(p) \/ Poll(p)
  \/ Refuse(p) \/ ReadDoc(p) \/ WriteDoc(p) \/ WriteFails(p)
  \/ Release(p)

StoreNext ==
  \/ \E p \in Procs : Call(p) \/ Step(p) \/ CrashStore(p)
  \/ Tick

StoreSpec == StoreInit /\ [][StoreNext]_storeVars

\* The scheduler runs every process that has a step and time goes by; nothing
\* makes a process call, crash or restart.
FairStoreSpec ==
  /\ StoreSpec
  /\ WF_storeVars(Tick)
  /\ \A p \in Procs : WF_storeVars(Step(p))
-----------------------------------------------------------------------------
\* Whoever runs fn owns the lock file (WithLock "serializes fn against every
\* other caller"), although waiters break stale lock files and every removal is
\* by path, unless since the lock was last unused a holder outlived
\* staleLockAge or a waiter removed a lock file other than the stale one.
HolderOwnsLock ==
  lapse = "none" => \A p \in Procs : Holding(p) => lock.held /\ lock.owner = p

\* Registrations that were acknowledged and are not in the file.
Lost == acked \ Registered(file)

\* Outside such a lapse no step loses an acknowledged registration: what
\* RegisterSource (registry.go:73) told a caller is in the file when it says
\* so, and no concurrent caller's read-modify-write takes it out, also after a
\* lapse that is over.
LostOnlyInLapse == [][lapse' # "none" \/ Lost' \subseteq Lost]_storeVars

\* No write, of whatever build, takes the file back outside a lapse: its
\* version never falls, a ref keeps its first_seen, and no consumer of it is
\* dropped.
RegistryOnlyGrows ==
  [][\/ lapse' # "none"
     \/ /\ file.version <= file'.version
        /\ Registered(file) \subseteq Registered(file')
        /\ \A r \in Refs : Seen(file, r) => file'.refs[r].first = file.refs[r].first
    ]_storeVars

\* What the comments promise without looking at races: no acknowledged
\* registration is lost (registry.go:72), at least while every holder is
\* prompt.
NoLostRegistration == lapse # "overrun" => Lost = {}

\* Where p's call stands, seen from outside: applied from its rename on.
CallStatus ==
  [p \in Procs |->
     CASE pc[p] = "release" -> "applied"
       [] Waiting(p) \/ pc[p] \in {"read", "write", "unwind"} -> "pending"
       [] OTHER -> "idle"]

\* The registry is as if every call took effect in one step or not at all;
\* only while a lapse lasts may it be changed in any other way.
Registry == INSTANCE SourceRegistry WITH call <- CallStatus
RegistrySpec ==
  /\ Registry!Init
  /\ [][lapse' # "none" \/ Registry!Next]_(Registry!vars)

\* p finds the lock file too old although its owner is still running fn.
FindOverrun(p) == FindStale(p) /\ Holding(lock.owner)

\* Every call that does not crash returns: no waiter is kept for ever, save one
\* that whenever it looks finds another holder overrunning, for whoever finds
\* a stale lock file tries again without a look at its deadline
\* (store.go:173-176).
CallReturns ==
  \A p \in Procs :
    \/ []<><<FindOverrun(p)>>_storeVars
    \/ (Waiting(p) \/ Holding(p)) ~> pc[p] \in {"idle", "timedout", "crashed"}

\* A lock file that has become stale does not outlast the next look at it: who
\* waits then breaks it instead of timing out (store.go:173 comes before
\* store.go:177), so a dead process wedges nobody once its file is stale.
\* Only a waiter that crashes, or returns because its open fails, leaves it.
StaleLockBroken ==
  \A p \in Procs : (Stale /\ Waiting(p)) ~> (~Stale \/ pc[p] \in {"idle", "crashed"})

\* What the comment on staleLockAge promises (store.go:148-150): a waiter
\* breaks the lock "rather than waiting out lockTimeout for a holder that no
\* longer exists".
NoTimeoutOnDeadHolder ==
  [][\A p \in Procs : GiveUp(p) => ~lock.held \/ Holding(lock.owner)]_storeVars
=============================================================================
