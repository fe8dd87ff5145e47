---------------------------- MODULE Provisioning ----------------------------
(***************************************************************************)
(* Installing a verified binary into a version-keyed cache: the ladder of  *)
(* tooling/release_transaction (provision) and the shell provisioner of    *)
(* plugin-foundation (download-script.sh), which keep the same pair of     *)
(* files, a binary and the digest it was verified against.  Any number of  *)
(* processes run the one or the other on one cache, may die anywhere, and  *)
(* take no lock.  A digest stands for the bytes it is of.                  *)
(***************************************************************************)
EXTENDS Naturals, FiniteSets

CONSTANTS
  Procs,
  Programs,     \* which of "ladder" and "script" the processes run, all the same
  Contents,     \* whole binaries
  Hosts,        \* what the release host and the verifier may answer
  Copies,       \* what may be frozen into the checkout
  MaxCalls, MaxCrashes, MaxDamage   \* bounds of a history

Absent == "absent"   \* no file there
Empty == "empty"     \* a digest file created and not yet written
Torn == "torn"       \* bytes that are no whole binary

ASSUME ContentsAssumption == Contents \cap {Absent, Empty, Torn} = {}
ASSUME HostsAssumption ==
  \A h \in Hosts :
    /\ {h.reachable, h.key, h.verifier} \subseteq BOOLEAN /\ h.signature \in {"none", "bad", "good"}
    /\ h.manifest \in Contents \cup {"malformed", "other"}
ASSUME CopiesAssumption == \A f \in Copies : f.file \in Contents \cup {Absent, "pointer"}
ASSUME ProgramsAssumption == Programs \subseteq {"ladder", "script"}

VARIABLES
  program, frozen,         \* fixed: what is installed, and the frozen copy
  host,                    \* what the release host answers now
  incoming, bin, side,     \* the staged file, the binary, its digest file
  job,                     \* where each process is in its call
  left,                    \* what remains of the bounds
  vouched,                 \* history: contents a rung has verified
  overlapped               \* history: two processes had the staged file in hand at once,
                           \* since there was last nobody in a call

fixed == <<program, frozen>>
files == <<incoming, bin, side>>
history == <<vouched, overlapped>>
vars == <<fixed, host, files, job, left, history>>

(***************************************************************************)
(* The verdicts on a release and on a frozen copy.  A host is a record of  *)
(* what a call finds there, one field for each thing that is looked at.    *)
(***************************************************************************)
Nothing(outcome) == [outcome |-> outcome, content |-> Absent]
Resolved(c) == [outcome |-> "resolved", content |-> c]

verify_manifest(h) ==
  CASE ~h.key -> "unverifiable"
    [] h.key /\ h.signature = "none" -> "discarded"
    [] h.key /\ h.signature # "none" /\ ~h.verifier -> "unverifiable"
    [] h.key /\ h.signature = "bad" /\ h.verifier -> "discarded"
    [] h.key /\ h.signature = "good" /\ h.verifier ->
         IF h.manifest = "malformed" THEN "discarded" ELSE "verified"

\* The manifest records a content for this arch, or is "malformed", or is of
\* another version or without this arch: "other".
from_release(h) ==
  IF ~h.reachable THEN Nothing("unreachable")
  ELSE IF h.signature = "none" THEN Nothing("discarded")
  ELSE IF verify_manifest(h) # "verified" THEN Nothing(verify_manifest(h))
  ELSE IF h.manifest = "other" \/ h.asset = Absent THEN Nothing("unreachable")
  ELSE IF h.asset # h.manifest THEN Nothing("discarded")
  ELSE Resolved(h.manifest)

\* The script takes a digest from checksums.txt or from the archive's own
\* digest file, and fetches the archive only with one in hand.
download(h) ==
  IF h.reachable /\ h.manifest \in Contents /\ h.asset = h.manifest THEN Resolved(h.manifest)
  ELSE Nothing("unreachable")

\* As a mutation, a file is what its digest file says, an unfetched pointer too.
from_frozen_unsniffed(f) ==
  IF f.file = Absent THEN Nothing("absent") ELSE IF f.side # f.file THEN Nothing("rejected") ELSE Resolved(f.file)
from_frozen(f) ==
  IF f.file \in {Absent, "pointer"} THEN Nothing("absent")
  ELSE IF f.side # f.file THEN Nothing("rejected")
  ELSE Resolved(f.file)

Release(h) == IF program = "ladder" THEN from_release(h) ELSE download(h)

(***************************************************************************)
(* Calls.  A process that is not idle is at a step; want is the content it *)
(* has verified or the digest it read, fd and sfd are where the files it   *)
(* writes are now: under their name, or "gone" once another file took it.  *)
(* rung and got are what its last call ended with; alone tells whether     *)
(* nobody else called during it, and up is the release that was there all  *)
(* through it.                                                             *)
(***************************************************************************)
Slots == {"none", "incoming", "bin", "gone"}
Fresh == [at |-> "idle", want |-> Absent, fd |-> "none", shared |-> FALSE, sfd |-> "none",
          rung |-> "none", got |-> Absent, alone |-> FALSE, up |-> Absent]
Idle(p) == job[p].at = "idle"
Ladder == program = "ladder"

Goto(p, at) == job' = [job EXCEPT ![p].at = at]
\* The call ends.  What it does not hold any more is forgotten.
Ended(p, rung, got) ==
  [Fresh EXCEPT !.rung = rung, !.got = got, !.alone = job[p].alone, !.up = job[p].up]
Return(p, rung, got) == job' = [job EXCEPT ![p] = Ended(p, rung, got)]
\* A file operation fails on a path that another process has taken away; the
\* exception is not caught by provision.
Raise(p) == Return(p, "raised", Absent)

\* An overlap is over once nobody is in a call.
Call(p) ==
  /\ Idle(p) /\ left.calls > 0
  /\ left' = [left EXCEPT !.calls = @ - 1]
  /\ job' = [q \in Procs |->
       IF q = p THEN [Fresh EXCEPT !.at = "look", !.alone = \A r \in Procs : Idle(r), !.up = Release(host).content]
       ELSE [job[q] EXCEPT !.alone = @ /\ Idle(q)]]
  /\ overlapped' = (overlapped /\ \E q \in Procs : ~Idle(q))
  /\ UNCHANGED <<fixed, host, files, vouched>>

At(p, at) == job[p].at = at /\ UNCHANGED <<fixed, host, left>>

(***************************************************************************)
(* The cache rung: _reverify_cache, and the script's fast path.  What does *)
(* not match is evicted by the ladder and only passed over by the script.  *)
(***************************************************************************)
Miss == IF Ladder THEN "evict" ELSE "release"

Look(p) ==
  /\ At(p, "look")
  /\ Goto(p, IF bin = Absent \/ (~Ladder /\ side = Absent) THEN "release" ELSE "sidecar")
  /\ UNCHANGED <<files, left, history>>

ReadSidecar(p) ==
  /\ At(p, "sidecar")
  /\ IF side \in {Absent, Empty} THEN Goto(p, Miss)
     ELSE job' = [job EXCEPT ![p].at = "hash", ![p].want = side]
  /\ UNCHANGED <<files, left, history>>

\* As a mutation, what has a digest file is taken for what it was.
HashTrusting(p) ==
  /\ At(p, "hash")
  /\ IF Ladder /\ bin = Absent THEN Raise(p)
     ELSE job' = [job EXCEPT ![p].at = "digest", ![p].rung = "cache"]
  /\ UNCHANGED <<files, left, history>>
Hash(p) ==
  /\ At(p, "hash")
  /\ CASE bin = job[p].want -> job' = [job EXCEPT ![p].at = "digest", ![p].rung = "cache"]
       [] bin # job[p].want /\ Ladder /\ bin = Absent -> Raise(p)
       [] bin # job[p].want /\ ~(Ladder /\ bin = Absent) -> Goto(p, Miss)
  /\ UNCHANGED <<files, left, history>>

\* An unlinked or replaced file lives on for whoever has it open.
Closing(field, slot, q) == IF job[q][field] = slot THEN "gone" ELSE job[q][field]

Evict(p) ==
  /\ At(p, "evict")
  /\ bin' = Absent
  /\ job' = [q \in Procs |-> [job[q] EXCEPT !.fd = Closing("fd", "bin", q), !.at = IF q = p THEN "evictSide" ELSE @]]
  /\ UNCHANGED <<incoming, side, left, history>>
EvictSide(p) ==
  /\ At(p, "evictSide")
  /\ side' = Absent
  /\ job' = [q \in Procs |-> [job[q] EXCEPT !.sfd = Closing("sfd", "side", q), !.at = IF q = p THEN "release" ELSE @]]
  /\ UNCHANGED <<incoming, bin, left, history>>

(***************************************************************************)
(* The release rung and the frozen rung.  What is fetched is checked in a  *)
(* directory of the process's own, so a rung is one step.                  *)
(***************************************************************************)
Take(p, c, rung) ==
  /\ job' = [job EXCEPT ![p].at = IF Ladder THEN "open" ELSE "move", ![p].want = c, ![p].rung = rung]
  /\ vouched' = vouched \cup {c}

Fetch(p) ==
  /\ At(p, "release")
  /\ LET r == Release(host) IN
     CASE r.outcome = "resolved" -> Take(p, r.content, "release")
       [] r.outcome \in {"unreachable", "unverifiable"} /\ Ladder -> Goto(p, "frozen") /\ UNCHANGED vouched
       [] r.outcome = "discarded" \/ (r.outcome # "resolved" /\ ~Ladder) ->
            Return(p, "unavailable", Absent) /\ UNCHANGED vouched
  /\ UNCHANGED <<files, left, overlapped>>

Frozen(p) ==
  /\ At(p, "frozen")
  /\ LET r == from_frozen(frozen) IN
     IF r.outcome = "resolved" THEN Take(p, r.content, "frozen")
     ELSE Return(p, "unavailable", Absent) /\ UNCHANGED vouched
  /\ UNCHANGED <<files, left, overlapped>>

(***************************************************************************)
(* _install: a copy under one name for all, renamed over the binary, then  *)
(* the digest.  A copy opens the staged file that is there, cutting it to  *)
(* nothing, and goes on writing where it opened wherever it is moved.  Of  *)
(* two copies into one file at once each may leave it torn.                *)
(***************************************************************************)
\* Mutation: a staged file that is there already is somebody else's.
OpenExclusive(p) ==
  /\ At(p, "open")
  /\ IF incoming # Absent THEN Raise(p) /\ UNCHANGED incoming
     ELSE job' = [job EXCEPT ![p].at = "copy", ![p].fd = "incoming"] /\ incoming' = Torn
  /\ UNCHANGED <<bin, side, left, vouched, overlapped>>
Open(p) ==
  /\ At(p, "open")
  /\ incoming' = Torn
  /\ job' = [q \in Procs |->
       IF q = p THEN [job[p] EXCEPT !.at = "copy", !.fd = "incoming", !.shared = \E r \in Procs : job[r].fd = "incoming"]
       ELSE [job[q] EXCEPT !.shared = @ \/ job[q].fd = "incoming"]]
  /\ overlapped' = (overlapped \/ \E q \in Procs \ {p} : job[q].at \in {"copy", "replace"})
  /\ UNCHANGED <<bin, side, left, vouched>>
Copy(p) ==
  /\ At(p, "copy")
  /\ \E c \in {job[p].want} \cup (IF job[p].shared THEN {Torn} ELSE {}) :
       /\ incoming' = IF job[p].fd = "incoming" THEN c ELSE incoming
       /\ bin' = IF job[p].fd = "bin" THEN c ELSE bin
  /\ job' = [job EXCEPT ![p].at = "replace", ![p].fd = "none", ![p].shared = FALSE]
  /\ UNCHANGED <<side, left, history>>

\* chmod and os.replace, by path; whoever has the old binary open keeps it.
Moved(q) == IF job[q].fd = "incoming" THEN "bin" ELSE Closing("fd", "bin", q)
Replace(p) ==
  /\ At(p, "replace")
  /\ IF incoming = Absent THEN Raise(p) /\ UNCHANGED files
     ELSE /\ bin' = incoming /\ incoming' = Absent /\ UNCHANGED side
          /\ job' = [q \in Procs |-> [job[q] EXCEPT !.fd = Moved(q), !.at = IF q = p THEN "sideOpen" ELSE @]]
  /\ UNCHANGED <<left, history>>

\* The script moves a file it extracted into a directory of its own.
Move(p) ==
  /\ At(p, "move")
  /\ bin' = job[p].want
  /\ Goto(p, "sideOpen")
  /\ UNCHANGED <<incoming, side, left, history>>

SideOpen(p) ==
  /\ At(p, "sideOpen")
  /\ side' = Empty
  /\ job' = [job EXCEPT ![p].at = IF Ladder THEN "sideWrite" ELSE "sideHash", ![p].sfd = "side"]
  /\ UNCHANGED <<incoming, bin, left, history>>

\* The ladder has the digest it verified, the script takes that of the file it
\* finds under the binary's name, with its digest file already open.
SideHash(p) ==
  /\ At(p, "sideHash")
  /\ job' = [job EXCEPT ![p].at = "sideWrite", ![p].want = bin]
  /\ UNCHANGED <<files, left, history>>

\* Mutation: the ladder writes the digest of what it finds, too.
SideWriteFound(p) ==
  /\ At(p, "sideWrite")
  /\ side' = IF job[p].sfd = "side" THEN bin ELSE side
  /\ job' = [job EXCEPT ![p].at = "digest", ![p].sfd = "none"]
  /\ UNCHANGED <<incoming, bin, left, history>>
SideWrite(p) ==
  /\ At(p, "sideWrite")
  /\ side' = IF job[p].sfd = "side" THEN job[p].want ELSE side
  /\ job' = [job EXCEPT ![p].at = "digest", ![p].sfd = "none"]
  /\ UNCHANGED <<incoming, bin, left, history>>

\* provision hashes the installed file once more for its result; the script
\* prints its path.
Digest(p) ==
  /\ At(p, "digest")
  /\ IF bin = Absent THEN Raise(p) ELSE Return(p, job[p].rung, bin)
  /\ UNCHANGED <<files, left, history>>

(***************************************************************************)
(* What happens around the calls: a process dies, the host changes, and    *)
(* the binary rots while nobody runs.                                      *)
(***************************************************************************)
Crash(p) ==
  /\ ~Idle(p) /\ left.crashes > 0
  /\ left' = [left EXCEPT !.crashes = @ - 1]
  /\ Return(p, "crashed", Absent)
  /\ UNCHANGED <<fixed, host, files, history>>

HostChanges(h) ==
  /\ h # host /\ host' = h
  /\ job' = [q \in Procs |-> [job[q] EXCEPT !.up = IF Idle(q) \/ @ = Release(h).content THEN @ ELSE Absent]]
  /\ UNCHANGED <<fixed, files, left, history>>

Rot ==
  /\ \A p \in Procs : Idle(p)
  /\ left.damage > 0 /\ bin # Absent
  /\ left' = [left EXCEPT !.damage = @ - 1]
  /\ bin' = Torn
  /\ UNCHANGED <<fixed, host, incoming, side, job, history>>

Reverify(p) == Look(p) \/ ReadSidecar(p) \/ Hash(p) \/ Evict(p) \/ EvictSide(p)
Resolve(p) == Fetch(p) \/ Frozen(p)
Install(p) == Open(p) \/ Copy(p) \/ Replace(p) \/ Move(p) \/ SideOpen(p) \/ SideHash(p) \/ SideWrite(p)
Step(p) == Reverify(p) \/ Resolve(p) \/ Install(p) \/ Digest(p)

Init ==
  /\ program \in Programs /\ frozen \in Copies /\ host \in Hosts
  /\ incoming = Absent /\ bin = Absent /\ side = Absent
  /\ job = [p \in Procs |-> Fresh]
  /\ left = [calls |-> MaxCalls, crashes |-> MaxCrashes, damage |-> MaxDamage]
  /\ vouched = {} /\ overlapped = FALSE
Next ==
  \/ \E p \in Procs : Call(p) \/ Step(p) \/ Crash(p)
  \/ \E h \in Hosts : HostChanges(h)
  \/ Rot
Spec == Init /\ [][Next]_vars

(***************************************************************************)
(* Properties.                                                             *)
(***************************************************************************)
Steps == {"idle", "look", "sidecar", "hash", "evict", "evictSide", "release", "frozen",
          "open", "copy", "replace", "move", "sideOpen", "sideHash", "sideWrite", "digest"}
Rungs == {"none", "cache", "release", "frozen", "unavailable", "raised", "crashed"}
Resolving == {"cache", "release", "frozen"}

Jobs == [at : Steps, want : Contents \cup {Absent}, fd : Slots, shared : BOOLEAN, sfd : {"none", "side", "gone"},
         rung : Rungs, got : Contents \cup {Absent, Torn}, alone : BOOLEAN, up : Contents \cup {Absent}]

\* Every variable has its type; a process has a file open only while it writes it.
ProvisioningTypeOK ==
  /\ incoming \in Contents \cup {Absent, Torn}
  /\ bin \in Contents \cup {Absent, Torn}
  /\ side \in Contents \cup {Absent, Empty}
  /\ vouched \subseteq Contents /\ overlapped \in BOOLEAN
  /\ job \in [Procs -> Jobs] /\ host \in Hosts
  /\ \A p \in Procs : (job[p].fd # "none" <=> job[p].at = "copy") /\ (job[p].sfd # "none" <=> job[p].at \in {"sideHash", "sideWrite"})
                     /\ (job[p].shared => job[p].at = "copy")

\* An entry that would pass re-verification holds bytes some rung verified,
\* whatever the other processes did meanwhile, wherever they died, and however
\* the file was damaged: the digest file never vouches for anything else.
EntryIsVouched == bin # Absent /\ bin = side => bin \in vouched

\* "path: The verified artifact" (provisioning.py:151): what a call hands out
\* some rung has verified, although others evict, replace and rename meanwhile.
\* The one exception is a torn copy, while calls last of which two had the one
\* staged file in hand at once.
HandsOutVerified ==
  [][\A p \in Procs : ~Idle(p) /\ Idle(p)' /\ job'[p].rung \in Resolving =>
       job'[p].got \in vouched' \/ (overlapped' /\ job'[p].got = Torn)]_vars

\* Whatever crashes, overlapping calls and damage left in the cache, a call
\* that runs alone while the release is there ends with what the cache vouches
\* for or with that release, and never with the frozen copy itself.
SelfHeals ==
  \A p \in Procs :
    Idle(p) /\ job[p].alone /\ job[p].up # Absent =>
      \/ job[p].rung \in {"cache", "crashed"}
      \/ job[p].rung = "release" /\ job[p].got = job[p].up
=============================================================================
