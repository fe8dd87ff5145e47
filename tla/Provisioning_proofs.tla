------------------------ MODULE Provisioning_proofs ------------------------
(***************************************************************************)
(* For any number of processes, calls, crashes, hosts and frozen copies:   *)
(* an entry that would pass re-verification was verified, and so was every *)
(* binary handed out, but for a torn copy of calls that overlapped.        *)
(***************************************************************************)
EXTENDS Provisioning, TLAPS

(***************************************************************************)
(* The invariant.  A process past its cache hit or its rename has looked   *)
(* at a binary that was verified; since nothing rots while it runs, what   *)
(* is there now is verified too, or gone.                                  *)
(***************************************************************************)
Looked == {"sideOpen", "sideHash", "sideWrite", "digest"}
Holding == {"open", "copy", "replace", "move"}
Staging == {"copy", "replace"}

\* What a process holds was verified, and only what was verified is written.
WantVouched ==
  \A p \in Procs : /\ job[p].at \in Holding \cup {"hash", "sideOpen", "sideHash"} => job[p].want \in vouched
                   /\ job[p].at = "sideWrite" => job[p].want \in vouched \cup {Absent}
SideVouched == side \in vouched \cup {Absent, Empty}
\* Bytes that no rung verified are torn ones.
BytesKnown == {incoming, bin} \subseteq vouched \cup {Absent, Torn}
\* The script has nothing staged, and never leaves bytes that were not verified.
ScriptSteps == ~Ladder => incoming = Absent /\ \A p \in Procs : job[p].at \notin {"evict", "evictSide", "frozen", "open", "copy", "replace"}
LadderSteps == Ladder => \A p \in Procs : job[p].at \notin {"move", "sideHash"}
OneStages == ~overlapped => \A p, q \in Procs : {job[p].at, job[q].at} \subseteq Staging => p = q
CopyKnown == ~overlapped => \A p \in Procs : job[p].fd \in {"none", "incoming"} /\ ~job[p].shared
StagedWhole == ~overlapped => \A p \in Procs : job[p].at = "replace" => incoming \in vouched \cup {Absent}
BinVouched == ~overlapped => ((\E p \in Procs : job[p].at \in Looked) => bin \in vouched \cup {Absent})
Fixed == program \in {"ladder", "script"} /\ frozen \in Copies /\ (~Ladder => ~overlapped)
IInv ==
  /\ ProvisioningTypeOK /\ WantVouched /\ SideVouched /\ ScriptSteps /\ LadderSteps
  /\ OneStages /\ CopyKnown /\ StagedWhole /\ BinVouched /\ BytesKnown
  /\ Fixed

(***************************************************************************)
(* The verdicts.                                                           *)
(***************************************************************************)
LEMMA ReleaseVerdict ==
  ASSUME NEW h \in Hosts
  PROVE  /\ Release(h).outcome \in {"resolved", "unreachable", "unverifiable", "discarded"}
         /\ Release(h).content \in Contents \cup {Absent}
         /\ Release(h).outcome = "resolved" => Release(h).content \in Contents
PROOF
<1>1. /\ {h.reachable, h.key, h.verifier} \subseteq BOOLEAN /\ h.signature \in {"none", "bad", "good"}
      /\ h.manifest \in Contents \cup {"malformed", "other"}
  BY HostsAssumption
<1>2. verify_manifest(h) \in {"verified", "discarded", "unverifiable"}
  BY <1>1 DEF verify_manifest
<1>3. verify_manifest(h) = "verified" => h.manifest # "malformed"
  BY <1>1 DEF verify_manifest
<1> QED  BY <1>1, <1>2, <1>3 DEF Release, from_release, download, Nothing, Resolved

LEMMA FrozenVerdict ==
  ASSUME NEW f \in Copies, from_frozen(f).outcome = "resolved" PROVE from_frozen(f).content \in Contents
PROOF BY CopiesAssumption DEF from_frozen, Nothing, Resolved

(***************************************************************************)
(* Changes of one process's job.                                           *)
(***************************************************************************)
LEMMA OneJob ==
  ASSUME job \in [Procs -> Jobs], NEW p \in Procs, NEW r \in Jobs, job' = [job EXCEPT ![p] = r]
  PROVE  job' \in [Procs -> Jobs] /\ job'[p] = r /\ \A q \in Procs \ {p} : job'[q] = job[q]
PROOF OBVIOUS

LEMMA EndedJob ==
  ASSUME job \in [Procs -> Jobs], NEW p \in Procs, NEW rung \in Rungs, NEW got \in Contents \cup {Absent, Torn}
  PROVE  LET r == Ended(p, rung, got) IN
         r \in Jobs /\ r.at = "idle" /\ r.fd = "none" /\ r.sfd = "none" /\ ~r.shared /\ r.rung = rung /\ r.got = got
PROOF
<1>1. job[p] \in Jobs
  OBVIOUS
<1> QED  BY <1>1 DEF Ended, Fresh, Jobs, Steps, Slots

OthersStay(p) == \A q \in Procs \ {p} :
  job'[q].at = job[q].at /\ job'[q].want = job[q].want /\ job'[q].rung = job[q].rung /\ job'[q].got = job[q].got
OthersFiles(p) == \A q \in Procs \ {p} :
  job'[q].fd = job[q].fd /\ job'[q].sfd = job[q].sfd /\ job'[q].shared = job[q].shared

\* A step of p that leaves the files alone and has none of them open after it.
LEMMA QuietStep ==
  ASSUME IInv, NEW p \in Procs, job' \in [Procs -> Jobs], OthersStay(p), OthersFiles(p),
         UNCHANGED <<fixed, files>>, host' \in Hosts, vouched \subseteq vouched', vouched' \subseteq Contents,
         overlapped' = overlapped \/ (overlapped' = FALSE /\ \A q \in Procs : Idle(q)),
         job'[p].fd = "none", job'[p].sfd = "none", ~job'[p].shared,
         job'[p].at \notin {"copy", "replace", "sideOpen", "sideHash", "sideWrite"},
         job'[p].at \in {"open", "move", "hash"} => job'[p].want \in vouched',
         job'[p].at = "digest" => bin \in vouched',
         IF Ladder THEN job'[p].at # "move" ELSE job'[p].at \notin {"evict", "evictSide", "frozen", "open"}
  PROVE  IInv'
PROOF
<1>1. UNCHANGED <<program, frozen, incoming, bin, side>>
  BY DEF fixed, files
<1>2. ProvisioningTypeOK'
  <2>1. overlapped' \in BOOLEAN
    BY DEF IInv, ProvisioningTypeOK
  <2> QED  BY <1>1, <2>1 DEF IInv, ProvisioningTypeOK, OthersStay, OthersFiles
<1>3. WantVouched'
  BY DEF IInv, WantVouched, OthersStay, Holding
<1>4. SideVouched' /\ BytesKnown' /\ Fixed'
  BY <1>1 DEF IInv, SideVouched, BytesKnown, Fixed, Ladder
<1>5. ScriptSteps' /\ LadderSteps'
  BY <1>1 DEF IInv, ScriptSteps, LadderSteps, OthersStay, Ladder
<1>6. CASE overlapped' = overlapped
  <2>1. OneStages'
    BY <1>6 DEF IInv, OneStages, OthersStay, Staging
  <2>2. CopyKnown'
    BY <1>6 DEF IInv, CopyKnown, OthersFiles
  <2>3. StagedWhole'
    BY <1>1, <1>6 DEF IInv, StagedWhole, OthersStay
  <2>4. BinVouched'
    <3> SUFFICES ASSUME ~overlapped, NEW q \in Procs, job'[q].at \in Looked PROVE bin \in vouched' \cup {Absent}
      BY <1>1, <1>6 DEF BinVouched
    <3>1. CASE q = p
      BY <3>1 DEF Looked
    <3>2. CASE q # p
      BY <3>2 DEF IInv, BinVouched, OthersStay
    <3> QED  BY <3>1, <3>2
  <2> QED  BY <1>2, <1>3, <1>4, <1>5, <2>1, <2>2, <2>3, <2>4 DEF IInv
<1>7. CASE \A q \in Procs : Idle(q)
  <2>1. /\ \A q \in Procs \ {p} : job'[q].at = "idle" /\ job'[q].fd = "none" /\ ~job'[q].shared
        /\ job'[p].at \notin Staging
    BY <1>7 DEF IInv, ProvisioningTypeOK, OthersStay, OthersFiles, Idle, Staging
  <2>2. \A q \in Procs : job'[q].at \notin Staging
    BY <2>1 DEF Staging
  <2>3. OneStages' /\ StagedWhole'
    BY <2>2 DEF OneStages, StagedWhole, Staging
  <2>4. CopyKnown'
    BY <2>1 DEF CopyKnown
  <2>5. BinVouched'
    <3> SUFFICES ASSUME NEW q \in Procs, job'[q].at \in Looked PROVE bin \in vouched' \cup {Absent}
      BY <1>1 DEF BinVouched
    <3>1. q = p
      BY <2>1 DEF Looked
    <3> QED  BY <3>1 DEF Looked
  <2> QED  BY <1>2, <1>3, <1>4, <1>5, <2>3, <2>4, <2>5 DEF IInv
<1> QED  BY <1>6, <1>7

\* A call that ends in these ways hands nothing out.
LEMMA EndingInv ==
  ASSUME IInv, NEW p \in Procs, NEW rung \in Rungs \ Resolving, Return(p, rung, Absent),
         UNCHANGED <<fixed, host, files, overlapped, vouched>>
  PROVE  IInv'
PROOF
<1>1. job \in [Procs -> Jobs] /\ host \in Hosts /\ vouched \subseteq Contents
  BY DEF IInv, ProvisioningTypeOK
<1> DEFINE r == Ended(p, rung, Absent)
<1>2. r \in Jobs /\ r.at = "idle" /\ r.fd = "none" /\ r.sfd = "none" /\ ~r.shared /\ r.rung = rung
  BY <1>1, EndedJob
<1>3. job' \in [Procs -> Jobs] /\ job'[p] = r /\ \A q \in Procs \ {p} : job'[q] = job[q]
  BY <1>1, <1>2, OneJob DEF Return
<1> HIDE DEF r
<1>4. OthersStay(p) /\ OthersFiles(p)
  BY <1>3 DEF OthersStay, OthersFiles
<1> QED  BY <1>1, <1>2, <1>3, <1>4, QuietStep

\* p goes on to another step, with what it wants and how it came there.
LEMMA GoingInv ==
  ASSUME IInv, NEW p \in Procs, NEW at \in Steps, NEW want \in Contents \cup {Absent}, NEW rung \in Rungs,
         job' = [job EXCEPT ![p].at = at, ![p].want = want, ![p].rung = rung],
         UNCHANGED <<fixed, host, files, overlapped>>, vouched \subseteq vouched', vouched' \subseteq Contents,
         job[p].at \notin {"copy", "sideHash", "sideWrite"}, at \notin {"idle", "copy", "replace", "sideOpen", "sideHash", "sideWrite"},
         at \in {"open", "move", "hash"} => want \in vouched',
         at = "digest" => bin \in vouched',
         IF Ladder THEN at # "move" ELSE at \notin {"evict", "evictSide", "frozen", "open"}
  PROVE  IInv'
PROOF
<1>1. job \in [Procs -> Jobs] /\ job[p] \in Jobs /\ host \in Hosts
  BY DEF IInv, ProvisioningTypeOK
<1> DEFINE r == [job[p] EXCEPT !.at = at, !.want = want, !.rung = rung]
<1>2. r \in Jobs /\ r.at = at /\ r.want = want /\ r.fd = job[p].fd /\ r.sfd = job[p].sfd /\ r.shared = job[p].shared
  BY <1>1 DEF Jobs
<1>3. job' = [job EXCEPT ![p] = r]
  BY <1>1
<1>4. job' \in [Procs -> Jobs] /\ job'[p] = r /\ \A q \in Procs \ {p} : job'[q] = job[q]
  BY <1>1, <1>2, <1>3, OneJob
<1>5. r.fd = "none" /\ r.sfd = "none" /\ ~r.shared
  BY <1>2 DEF IInv, ProvisioningTypeOK
<1> HIDE DEF r
<1>6. OthersStay(p) /\ OthersFiles(p)
  BY <1>4 DEF OthersStay, OthersFiles
<1> QED  BY <1>1, <1>2, <1>4, <1>5, <1>6, QuietStep
(***************************************************************************)
(* Every step keeps the invariant.  First those that write no file.        *)
(***************************************************************************)
LEMMA CallInv == ASSUME IInv, NEW p \in Procs, Call(p) PROVE IInv'
PROOF
<1>1. job \in [Procs -> Jobs] /\ host \in Hosts /\ vouched \subseteq Contents
  BY DEF IInv, ProvisioningTypeOK
<1>2. /\ UNCHANGED <<fixed, host, files, vouched>>
      /\ overlapped' = overlapped \/ (overlapped' = FALSE /\ \A q \in Procs : Idle(q))
  <2>1. overlapped \in BOOLEAN
    BY DEF IInv, ProvisioningTypeOK
  <2>2. overlapped' = (overlapped /\ \E q \in Procs : ~Idle(q))
    BY DEF Call
  <2>3. CASE \E q \in Procs : ~Idle(q)
    BY <2>1, <2>2, <2>3 DEF Call
  <2>4. CASE \A q \in Procs : Idle(q)
    BY <2>2, <2>4 DEF Call
  <2> QED  BY <2>3, <2>4
<1> DEFINE solo == \A r \in Procs : Idle(r)
           own == [Fresh EXCEPT !.at = "look", !.alone = solo, !.up = Release(host).content]
           other(q) == [job[q] EXCEPT !.alone = @ /\ Idle(q)]
<1>3. own \in Jobs /\ own.at = "look" /\ own.fd = "none" /\ own.sfd = "none" /\ ~own.shared
  <2>1. solo \in BOOLEAN /\ Release(host).content \in Contents \cup {Absent}
    BY <1>1, ReleaseVerdict
  <2> HIDE DEF solo
  <2> QED  BY <2>1 DEF Fresh, Jobs, Steps, Slots, Rungs
<1>4. ASSUME NEW q \in Procs
      PROVE  /\ other(q) \in Jobs /\ other(q).at = job[q].at /\ other(q).want = job[q].want /\ other(q).rung = job[q].rung
             /\ other(q).got = job[q].got /\ other(q).fd = job[q].fd /\ other(q).sfd = job[q].sfd /\ other(q).shared = job[q].shared
  <2>1. job[q] \in Jobs
    BY <1>1
  <2> QED  BY <2>1 DEF Jobs, Idle
<1> HIDE DEF own, other
<1>5. job' = [q \in Procs |-> IF q = p THEN own ELSE other(q)]
  BY DEF Call, own, other
<1>6. job' \in [Procs -> Jobs] /\ job'[p] = own /\ \A q \in Procs \ {p} : job'[q] = other(q)
  BY <1>3, <1>4, <1>5
<1>7. OthersStay(p) /\ OthersFiles(p)
  BY <1>4, <1>6 DEF OthersStay, OthersFiles
<1> QED  BY <1>1, <1>2, <1>3, <1>6, <1>7, QuietStep

LEMMA LookInv == ASSUME IInv, NEW p \in Procs, Look(p) PROVE IInv'
PROOF
<1> DEFINE next == IF bin = Absent \/ (~Ladder /\ side = Absent) THEN "release" ELSE "sidecar"
<1>1. job \in [Procs -> Jobs] /\ job[p] \in Jobs /\ vouched \subseteq Contents /\ job[p].at = "look"
  BY DEF IInv, ProvisioningTypeOK, Look, At
<1>2. job' = [job EXCEPT ![p].at = next, ![p].want = job[p].want, ![p].rung = job[p].rung]
  BY <1>1 DEF Look, Goto, Jobs
<1>3. next \in {"release", "sidecar"} /\ job[p].want \in Contents \cup {Absent} /\ job[p].rung \in Rungs
  BY <1>1 DEF Jobs
<1>4. UNCHANGED <<fixed, host, files, vouched, overlapped>>
  BY DEF Look, At, history
<1> HIDE DEF next
<1>5. /\ next \in Steps /\ next \notin {"idle", "copy", "replace", "sideOpen", "sideHash", "sideWrite"}
      /\ next \notin {"open", "move", "hash"} /\ next # "digest"
      /\ IF Ladder THEN next # "move" ELSE next \notin {"evict", "evictSide", "frozen", "open"}
  BY <1>3 DEF Steps
<1>6. job[p].at \notin {"copy", "sideHash", "sideWrite"} /\ vouched \subseteq vouched' /\ vouched' \subseteq Contents
  BY <1>1, <1>4
<1> QED  BY <1>2, <1>3, <1>4, <1>5, <1>6, GoingInv

\* What does not match is passed over, or about to be evicted.
LEMMA MissInv ==
  ASSUME IInv, NEW p \in Procs, job[p].at \in {"sidecar", "hash"}, Goto(p, Miss),
         UNCHANGED <<fixed, host, files, vouched, overlapped>>
  PROVE  IInv'
PROOF
<1>1. /\ job \in [Procs -> Jobs] /\ job[p] \in Jobs /\ vouched \subseteq Contents
      /\ job[p].want \in Contents \cup {Absent} /\ job[p].rung \in Rungs
  BY DEF IInv, ProvisioningTypeOK, Jobs
<1>2. job' = [job EXCEPT ![p].at = Miss, ![p].want = job[p].want, ![p].rung = job[p].rung]
  BY <1>1 DEF Goto, Jobs
<1>3. /\ Miss \in Steps /\ Miss \notin {"idle", "copy", "replace", "sideOpen", "sideHash", "sideWrite"}
      /\ Miss \notin {"open", "move", "hash"} /\ Miss # "digest"
      /\ IF Ladder THEN Miss # "move" ELSE Miss \notin {"evict", "evictSide", "frozen", "open"}
  BY DEF Miss, Steps
<1>4. job[p].at \notin {"copy", "sideHash", "sideWrite"} /\ vouched \subseteq vouched' /\ vouched' \subseteq Contents
  BY <1>1
<1> HIDE DEF Miss
<1> QED  BY <1>1, <1>2, <1>3, <1>4, GoingInv

\* p has a verified content in hand: it read it, or found the binary to be it.
LEMMA InHandInv ==
  ASSUME IInv, NEW p \in Procs, NEW at \in {"hash", "digest"}, NEW want \in vouched, NEW rung \in Rungs,
         job' = [job EXCEPT ![p].at = at, ![p].want = want, ![p].rung = rung],
         job[p].at \in {"sidecar", "hash"}, at = "digest" => bin \in vouched,
         UNCHANGED <<fixed, host, files, vouched, overlapped>>
  PROVE  IInv'
PROOF
<1>1. vouched' = vouched /\ vouched \subseteq Contents
  BY DEF IInv, ProvisioningTypeOK
<1>2. /\ at \in Steps /\ at \notin {"idle", "copy", "replace", "sideOpen", "sideHash", "sideWrite"} /\ at # "move"
      /\ at \notin {"evict", "evictSide", "frozen", "open"}
  BY DEF Steps
<1>3. want \in Contents \cup {Absent} /\ job[p].at \notin {"copy", "sideHash", "sideWrite"}
  BY <1>1
<1> QED  BY <1>1, <1>2, <1>3, GoingInv

LEMMA ReadSidecarInv == ASSUME IInv, NEW p \in Procs, ReadSidecar(p) PROVE IInv'
PROOF
<1>1. /\ job[p] \in Jobs /\ job[p].at = "sidecar" /\ job[p].rung \in Rungs /\ side \in vouched \cup {Absent, Empty}
  BY DEF IInv, ProvisioningTypeOK, SideVouched, ReadSidecar, At, Jobs
<1>2. UNCHANGED <<fixed, host, files, vouched, overlapped>>
  BY DEF ReadSidecar, At, history
<1>3. CASE side \in {Absent, Empty}
  BY <1>1, <1>2, <1>3, MissInv DEF ReadSidecar
<1>4. CASE side \notin {Absent, Empty}
  <2>1. job' = [job EXCEPT ![p].at = "hash", ![p].want = side, ![p].rung = job[p].rung]
    BY <1>1, <1>4 DEF ReadSidecar, Jobs
  <2>2. side \in vouched
    BY <1>1, <1>4
  <2> QED  BY <1>1, <1>2, <2>1, <2>2, InHandInv
<1> QED  BY <1>3, <1>4

LEMMA HashInv == ASSUME IInv, NEW p \in Procs, Hash(p) PROVE IInv'
PROOF
<1>1. job[p] \in Jobs /\ job[p].at = "hash" /\ job[p].want \in vouched
  BY DEF IInv, ProvisioningTypeOK, WantVouched, Hash, At, Jobs
<1>2. UNCHANGED <<fixed, host, files, vouched, overlapped>>
  BY DEF Hash, At, history
<1>3. CASE bin = job[p].want
  <2>1. job' = [job EXCEPT ![p].at = "digest", ![p].want = job[p].want, ![p].rung = "cache"]
    BY <1>1, <1>3 DEF Hash, Jobs
  <2>2. bin \in vouched /\ "cache" \in Rungs
    BY <1>1, <1>3 DEF Rungs
  <2> QED  BY <1>1, <1>2, <2>1, <2>2, InHandInv
<1>4. CASE bin # job[p].want /\ Ladder /\ bin = Absent
  <2>1. Raise(p)
    BY <1>4 DEF Hash
  <2> QED  BY <1>2, <2>1, EndingInv DEF Raise, Rungs, Resolving
<1>5. CASE bin # job[p].want /\ ~(Ladder /\ bin = Absent)
  <2>1. Goto(p, Miss)
    BY <1>5 DEF Hash
  <2> QED  BY <1>1, <1>2, <2>1, MissInv
<1> QED  BY <1>3, <1>4, <1>5

\* What a rung resolves is added to what was verified and to what p wants.
LEMMA TakeInv ==
  ASSUME IInv, NEW p \in Procs, NEW c \in Contents, NEW rung \in Rungs, Take(p, c, rung),
         job[p].at \in {"release", "frozen"}, UNCHANGED <<fixed, host, files, overlapped>>
  PROVE  IInv'
PROOF
<1> DEFINE next == IF Ladder THEN "open" ELSE "move"
<1>1. vouched \subseteq Contents /\ vouched \subseteq vouched' /\ vouched' \subseteq Contents /\ c \in vouched'
  BY DEF IInv, ProvisioningTypeOK, Take
<1>2. job' = [job EXCEPT ![p].at = next, ![p].want = c, ![p].rung = rung]
  BY DEF Take
<1>3. /\ next \in Steps /\ next \notin {"idle", "copy", "replace", "sideOpen", "sideHash", "sideWrite"} /\ next # "digest"
      /\ IF Ladder THEN next # "move" ELSE next \notin {"evict", "evictSide", "frozen", "open"}
  BY DEF Steps
<1>4. job[p].at \notin {"copy", "sideHash", "sideWrite"} /\ c \in Contents \cup {Absent}
  OBVIOUS
<1> HIDE DEF next
<1> QED  BY <1>1, <1>2, <1>3, <1>4, GoingInv

LEMMA FetchInv == ASSUME IInv, NEW p \in Procs, Fetch(p) PROVE IInv'
PROOF
<1> DEFINE r == Release(host)
<1>1. /\ job \in [Procs -> Jobs] /\ job[p] \in Jobs /\ vouched \subseteq Contents /\ job[p].at = "release" /\ host \in Hosts
      /\ job[p].want \in Contents \cup {Absent} /\ job[p].rung \in Rungs
  BY DEF IInv, ProvisioningTypeOK, Fetch, At, Jobs
<1>2. UNCHANGED <<fixed, host, files, overlapped>>
  BY DEF Fetch, At
<1>3. /\ r.outcome \in {"resolved", "unreachable", "unverifiable", "discarded"}
      /\ r.outcome = "resolved" => r.content \in Contents
  BY <1>1, ReleaseVerdict
<1>4. CASE r.outcome = "resolved"
  <2>1. Take(p, r.content, "release")
    BY <1>4 DEF Fetch
  <2>2. r.content \in Contents /\ "release" \in Rungs
    BY <1>3, <1>4 DEF Rungs
  <2> HIDE DEF r
  <2> QED  BY <1>1, <1>2, <2>1, <2>2, TakeInv
<1>5. CASE r.outcome \in {"unreachable", "unverifiable"} /\ Ladder
  <2>1. Goto(p, "frozen") /\ UNCHANGED vouched
    BY <1>5 DEF Fetch
  <2>2. job' = [job EXCEPT ![p].at = "frozen", ![p].want = job[p].want, ![p].rung = job[p].rung]
    BY <1>1, <2>1 DEF Goto, Jobs
  <2>3. "frozen" \in Steps /\ vouched \subseteq vouched' /\ vouched' \subseteq Contents
    BY <1>1, <2>1 DEF Steps
  <2>4. PICK at, want, rung : at = "frozen" /\ want = job[p].want /\ rung = job[p].rung
    OBVIOUS
  <2>5. /\ at \in Steps /\ want \in Contents \cup {Absent} /\ rung \in Rungs
        /\ job' = [job EXCEPT ![p].at = at, ![p].want = want, ![p].rung = rung]
        /\ job[p].at \notin {"copy", "sideHash", "sideWrite"} /\ at \notin {"idle", "copy", "replace", "sideOpen", "sideHash", "sideWrite"}
        /\ at \notin {"open", "move", "hash", "digest"}
    BY <1>1, <2>2, <2>3, <2>4
  <2> HIDE DEF r
  <2> QED  BY <1>2, <1>5, <2>3, <2>5, GoingInv
<1>6. CASE r.outcome = "discarded" \/ (r.outcome # "resolved" /\ ~Ladder)
  <2>1. Return(p, "unavailable", Absent) /\ UNCHANGED vouched
    BY <1>6 DEF Fetch
  <2> QED  BY <1>2, <2>1, EndingInv DEF Rungs, Resolving
<1> QED  BY <1>3, <1>4, <1>5, <1>6

LEMMA FrozenInv == ASSUME IInv, NEW p \in Procs, Frozen(p) PROVE IInv'
PROOF
<1>1. UNCHANGED <<fixed, host, files, overlapped>> /\ job[p].at = "frozen" /\ frozen \in Copies
  BY DEF IInv, Fixed, Frozen, At
<1>2. CASE from_frozen(frozen).outcome = "resolved"
  <2>1. Take(p, from_frozen(frozen).content, "frozen") /\ from_frozen(frozen).content \in Contents
    BY <1>1, <1>2, FrozenVerdict DEF Frozen
  <2> QED  BY <1>1, <2>1, TakeInv DEF Rungs
<1>3. CASE from_frozen(frozen).outcome # "resolved"
  <2>1. Return(p, "unavailable", Absent) /\ UNCHANGED vouched
    BY <1>3 DEF Frozen
  <2> QED  BY <1>1, <2>1, EndingInv DEF Rungs, Resolving
<1> QED  BY <1>2, <1>3

\* The binary that is hashed last is still what was verified, or gone.
LEMMA DigestInv == ASSUME IInv, NEW p \in Procs, Digest(p) PROVE IInv'
PROOF
<1>1. /\ job \in [Procs -> Jobs] /\ job[p] \in Jobs /\ host \in Hosts /\ vouched \subseteq Contents
      /\ bin \in Contents \cup {Absent, Torn} /\ job[p].at = "digest" /\ job[p].rung \in Rungs
  BY DEF IInv, ProvisioningTypeOK, Digest, At, Jobs
<1>2. UNCHANGED <<fixed, host, files, vouched, overlapped>>
  BY DEF Digest, At, history
<1>3. CASE bin = Absent
  BY <1>2, <1>3, EndingInv DEF Digest, Raise, Rungs, Resolving
<1>4. CASE bin # Absent
  <2> DEFINE r == Ended(p, job[p].rung, bin)
  <2>2. r \in Jobs /\ r.at = "idle" /\ r.fd = "none" /\ r.sfd = "none" /\ ~r.shared /\ r.got = bin
    BY <1>1, EndedJob
  <2>3. job' \in [Procs -> Jobs] /\ job'[p] = r /\ \A q \in Procs \ {p} : job'[q] = job[q]
    BY <1>1, <1>4, <2>2, OneJob DEF Digest, Return
  <2> HIDE DEF r
  <2>4. OthersStay(p) /\ OthersFiles(p)
    BY <2>3 DEF OthersStay, OthersFiles
  <2> QED  BY <1>1, <1>2, <2>2, <2>3, <2>4, QuietStep
<1> QED  BY <1>3, <1>4

LEMMA CrashInv == ASSUME IInv, NEW p \in Procs, Crash(p) PROVE IInv'
PROOF BY EndingInv DEF Crash, history, Rungs, Resolving

(***************************************************************************)
(* Then those that do.                                                     *)
(***************************************************************************)
\* A step of p that writes files and does not end its call.
LEMMA WritingStep ==
  ASSUME IInv, NEW p \in Procs, ProvisioningTypeOK', SideVouched', BytesKnown', CopyKnown', StagedWhole', BinVouched',
         OthersStay(p),
         UNCHANGED <<fixed, vouched>>, overlapped => overlapped',
         job'[p].at # "idle",
         job'[p].at \in Holding \cup {"hash", "sideOpen", "sideHash"} => job'[p].want \in vouched,
         job'[p].at = "sideWrite" => job'[p].want \in vouched \cup {Absent},
         IF Ladder THEN job'[p].at \notin {"move", "sideHash"}
         ELSE incoming' = Absent /\ ~overlapped' /\ job'[p].at \in {"sideOpen", "sideHash", "sideWrite", "digest"},
         ~overlapped' /\ job'[p].at \in Staging => job[p].at \in Staging \/ \A q \in Procs \ {p} : job[q].at \notin Staging
  PROVE  IInv'
PROOF
<1>1. program' = program /\ frozen' = frozen /\ vouched' = vouched
  BY DEF fixed
<1>2. WantVouched'
  BY <1>1 DEF IInv, WantVouched, OthersStay, Holding
<1>3. Fixed'
  BY <1>1 DEF IInv, Fixed, Ladder
<1>4. ScriptSteps' /\ LadderSteps'
  BY <1>1 DEF IInv, ScriptSteps, LadderSteps, OthersStay, Ladder
<1>5. OneStages'
  BY DEF IInv, OneStages, OthersStay, Staging
<1> QED  BY <1>2, <1>3, <1>4, <1>5 DEF IInv

LEMMA EvictInv == ASSUME IInv, NEW p \in Procs, Evict(p) PROVE IInv'
PROOF
<1>1. /\ job \in [Procs -> Jobs] /\ ProvisioningTypeOK /\ job[p].at = "evict"
      /\ UNCHANGED <<program, frozen, host, incoming, side, vouched, overlapped>> /\ bin' = Absent
  BY DEF IInv, ProvisioningTypeOK, Evict, At, fixed, history
<1>2. job' = [q \in Procs |-> [job[q] EXCEPT !.fd = Closing("fd", "bin", q), !.at = IF q = p THEN "evictSide" ELSE @]]
  BY DEF Evict
<1>3. ASSUME NEW q \in Procs
      PROVE  /\ job'[q] \in Jobs /\ job'[q].at = IF q = p THEN "evictSide" ELSE job[q].at
             /\ job'[q].want = job[q].want /\ job'[q].rung = job[q].rung /\ job'[q].got = job[q].got
             /\ job'[q].sfd = job[q].sfd /\ job'[q].shared = job[q].shared
             /\ job'[q].fd = IF job[q].fd = "bin" THEN "gone" ELSE job[q].fd
  <2>1. job[q] \in Jobs
    BY <1>1
  <2> QED  BY <1>2, <2>1 DEF Closing, Jobs, Steps, Slots
<1>4. job' \in [Procs -> Jobs]
  BY <1>2, <1>3
<1>5. ProvisioningTypeOK'
  BY <1>1, <1>3, <1>4 DEF ProvisioningTypeOK
<1>6. Ladder
  BY <1>1 DEF IInv, ScriptSteps
<1>7. CopyKnown' /\ StagedWhole'
  BY <1>1, <1>3 DEF IInv, CopyKnown, StagedWhole
<1>8. BinVouched' /\ SideVouched' /\ BytesKnown'
  BY <1>1 DEF IInv, BinVouched, SideVouched, BytesKnown
<1>9. OthersStay(p)
  BY <1>3 DEF OthersStay
<1> QED  BY <1>1, <1>3, <1>5, <1>6, <1>7, <1>8, <1>9, WritingStep DEF fixed, Holding, Staging

LEMMA EvictSideInv == ASSUME IInv, NEW p \in Procs, EvictSide(p) PROVE IInv'
PROOF
<1>1. /\ job \in [Procs -> Jobs] /\ ProvisioningTypeOK /\ job[p].at = "evictSide"
      /\ UNCHANGED <<program, frozen, host, incoming, bin, vouched, overlapped>> /\ side' = Absent
  BY DEF IInv, ProvisioningTypeOK, EvictSide, At, fixed, history
<1>2. job' = [q \in Procs |-> [job[q] EXCEPT !.sfd = Closing("sfd", "side", q), !.at = IF q = p THEN "release" ELSE @]]
  BY DEF EvictSide
<1>3. ASSUME NEW q \in Procs
      PROVE  /\ job'[q] \in Jobs /\ job'[q].at = IF q = p THEN "release" ELSE job[q].at
             /\ job'[q].want = job[q].want /\ job'[q].rung = job[q].rung /\ job'[q].got = job[q].got
             /\ job'[q].fd = job[q].fd /\ job'[q].shared = job[q].shared
             /\ job'[q].sfd = IF job[q].sfd = "side" THEN "gone" ELSE job[q].sfd
  <2>1. job[q] \in Jobs
    BY <1>1
  <2> QED  BY <1>2, <2>1 DEF Closing, Jobs, Steps, Slots
<1>4. job' \in [Procs -> Jobs]
  BY <1>2, <1>3
<1>5. ProvisioningTypeOK'
  BY <1>1, <1>3, <1>4 DEF ProvisioningTypeOK
<1>6. Ladder
  BY <1>1 DEF IInv, ScriptSteps
<1>7. CopyKnown' /\ StagedWhole' /\ BinVouched' /\ SideVouched' /\ BytesKnown'
  BY <1>1, <1>3 DEF IInv, CopyKnown, StagedWhole, BinVouched, SideVouched, BytesKnown, Looked
<1>8. OthersStay(p)
  BY <1>3 DEF OthersStay
<1> QED  BY <1>1, <1>3, <1>5, <1>6, <1>7, <1>8, WritingStep DEF fixed, Holding, Staging

\* Where a copy is not alone, overlapped says so from here on.
LEMMA OpenInv == ASSUME IInv, NEW p \in Procs, Open(p) PROVE IInv'
PROOF
<1>1. /\ job \in [Procs -> Jobs] /\ ProvisioningTypeOK /\ job[p].at = "open" /\ job[p].want \in vouched
      /\ UNCHANGED <<program, frozen, host, bin, side, vouched>> /\ incoming' = Torn
      /\ overlapped' = (overlapped \/ \E q \in Procs \ {p} : job[q].at \in {"copy", "replace"})
  BY DEF IInv, ProvisioningTypeOK, WantVouched, Holding, Open, At, fixed
<1>2. job' = [q \in Procs |->
        IF q = p THEN [job[p] EXCEPT !.at = "copy", !.fd = "incoming", !.shared = \E r \in Procs : job[r].fd = "incoming"]
        ELSE [job[q] EXCEPT !.shared = @ \/ job[q].fd = "incoming"]]
  BY DEF Open
<1>3. /\ job'[p] \in Jobs /\ job'[p].at = "copy" /\ job'[p].fd = "incoming" /\ job'[p].want = job[p].want
      /\ job'[p].sfd = job[p].sfd /\ job'[p].shared = \E r \in Procs : job[r].fd = "incoming"
  <2>1. job[p] \in Jobs /\ (\E r \in Procs : job[r].fd = "incoming") \in BOOLEAN
    BY <1>1
  <2> QED  BY <1>2, <2>1 DEF Jobs, Steps, Slots
<1>4. ASSUME NEW q \in Procs, q # p
      PROVE  /\ job'[q] \in Jobs /\ job'[q].at = job[q].at /\ job'[q].want = job[q].want /\ job'[q].rung = job[q].rung
             /\ job'[q].got = job[q].got /\ job'[q].fd = job[q].fd /\ job'[q].sfd = job[q].sfd
             /\ job'[q].shared = (job[q].shared \/ job[q].fd = "incoming")
  <2>1. job[q] \in Jobs
    BY <1>1
  <2> QED  BY <1>2, <1>4, <2>1 DEF Jobs
<1>5. job' \in [Procs -> Jobs]
  BY <1>2, <1>3, <1>4
<1>6. overlapped' \in BOOLEAN
  BY <1>1 DEF ProvisioningTypeOK
<1>7. ProvisioningTypeOK'
  <2>1. /\ incoming' \in Contents \cup {Absent, Torn} /\ bin' \in Contents \cup {Absent, Torn}
        /\ side' \in Contents \cup {Absent, Empty} /\ vouched' \subseteq Contents /\ host' \in Hosts
    BY <1>1 DEF ProvisioningTypeOK
  <2>2. ASSUME NEW q \in Procs
        PROVE  /\ job'[q].fd # "none" <=> job'[q].at = "copy"
               /\ job'[q].sfd # "none" <=> job'[q].at \in {"sideHash", "sideWrite"}
               /\ job'[q].shared => job'[q].at = "copy"
    <3>1. /\ job[q].fd # "none" <=> job[q].at = "copy"
          /\ job[q].sfd # "none" <=> job[q].at \in {"sideHash", "sideWrite"}
          /\ job[q].shared => job[q].at = "copy"
      BY <1>1 DEF ProvisioningTypeOK
    <3>2. CASE q = p
      BY <1>1, <1>3, <3>1, <3>2
    <3>3. CASE q # p
      BY <1>4, <3>1, <3>3
    <3> QED  BY <3>2, <3>3
  <2> QED  BY <1>5, <1>6, <2>1, <2>2 DEF ProvisioningTypeOK
<1>8. Ladder
  BY <1>1 DEF IInv, ScriptSteps
<1>9. CopyKnown'
  <2> SUFFICES ASSUME ~overlapped', NEW q \in Procs PROVE job'[q].fd \in {"none", "incoming"} /\ ~job'[q].shared
    BY DEF CopyKnown
  <2>1. /\ \A r \in Procs : job[r].fd \in {"none", "incoming"} /\ ~job[r].shared
        /\ \A r \in Procs \ {p} : job[r].at \notin {"copy", "replace"}
    BY <1>1 DEF IInv, CopyKnown
  <2>2. \A r \in Procs : job[r].fd = "none"
    BY <1>1, <2>1 DEF ProvisioningTypeOK
  <2>3. CASE q = p
    BY <1>3, <2>2, <2>3
  <2>4. CASE q # p
    BY <1>4, <2>1, <2>2, <2>4
  <2> QED  BY <2>3, <2>4
<1>10. StagedWhole'
  <2> SUFFICES ASSUME ~overlapped' PROVE \A q \in Procs : job'[q].at # "replace"
    BY DEF StagedWhole
  <2>1. \A q \in Procs \ {p} : job[q].at \notin {"copy", "replace"}
    BY <1>1
  <2> QED  BY <1>3, <1>4, <2>1
<1>11. BinVouched' /\ SideVouched' /\ BytesKnown'
  BY <1>1, <1>3, <1>4 DEF IInv, BinVouched, SideVouched, BytesKnown, Looked
<1>12. OthersStay(p)
  BY <1>4 DEF OthersStay
<1> QED  BY <1>1, <1>3, <1>7, <1>8, <1>9, <1>10, <1>11, <1>12, WritingStep DEF fixed, Holding, Staging

LEMMA CopyInv == ASSUME IInv, NEW p \in Procs, Copy(p) PROVE IInv'
PROOF
<1>1. /\ job \in [Procs -> Jobs] /\ job[p] \in Jobs /\ ProvisioningTypeOK /\ job[p].at = "copy"
      /\ job[p].want \in vouched /\ vouched \subseteq Contents
      /\ UNCHANGED <<program, frozen, host, side, vouched, overlapped>>
  BY DEF IInv, ProvisioningTypeOK, WantVouched, Holding, Copy, At, fixed, history
<1>2. PICK c \in {job[p].want} \cup (IF job[p].shared THEN {Torn} ELSE {}) :
        /\ incoming' = IF job[p].fd = "incoming" THEN c ELSE incoming
        /\ bin' = IF job[p].fd = "bin" THEN c ELSE bin
  BY DEF Copy
<1> DEFINE r == [job[p] EXCEPT !.at = "replace", !.fd = "none", !.shared = FALSE]
<1>3. /\ r \in Jobs /\ r.at = "replace" /\ r.fd = "none" /\ ~r.shared /\ r.want = job[p].want /\ r.sfd = job[p].sfd
  BY <1>1 DEF Jobs, Steps, Slots
<1>4. job' = [job EXCEPT ![p] = r]
  BY DEF Copy
<1>5. job' \in [Procs -> Jobs] /\ job'[p] = r /\ \A q \in Procs \ {p} : job'[q] = job[q]
  BY <1>1, <1>3, <1>4, OneJob
<1> HIDE DEF r
<1>6. c \in Contents \cup {Torn}
  BY <1>1, <1>2
<1>7. ProvisioningTypeOK'
  BY <1>1, <1>2, <1>3, <1>5, <1>6 DEF ProvisioningTypeOK
<1>8. Ladder
  BY <1>1 DEF IInv, ScriptSteps
<1>9. ~overlapped => incoming' \in vouched /\ bin' = bin
  <2>1. job[p].fd # "none"
    BY <1>1 DEF ProvisioningTypeOK
  <2> QED  BY <1>1, <1>2, <2>1 DEF IInv, CopyKnown
<1>10. CopyKnown' /\ StagedWhole'
  BY <1>1, <1>3, <1>5, <1>9 DEF IInv, CopyKnown, StagedWhole
<1>11. BinVouched' /\ SideVouched'
  BY <1>1, <1>3, <1>5, <1>9 DEF IInv, BinVouched, SideVouched, Looked
<1>12. BytesKnown'
  <2>1. c \in vouched \cup {Torn}
    BY <1>1, <1>2
  <2> QED  BY <1>1, <1>2, <2>1 DEF IInv, BytesKnown
<1>13. OthersStay(p)
  BY <1>5 DEF OthersStay
<1> QED  BY <1>1, <1>3, <1>5, <1>7, <1>8, <1>10, <1>11, <1>12, <1>13, WritingStep DEF fixed, Holding, Staging

LEMMA ReplaceInv == ASSUME IInv, NEW p \in Procs, Replace(p) PROVE IInv'
PROOF
<1>1. /\ job \in [Procs -> Jobs] /\ ProvisioningTypeOK /\ job[p].at = "replace" /\ job[p].want \in vouched
      /\ UNCHANGED <<program, frozen, host, vouched, overlapped>>
  BY DEF IInv, ProvisioningTypeOK, WantVouched, Holding, Replace, At, fixed, history
<1>2. CASE incoming = Absent
  <2>1. Return(p, "raised", Absent) /\ UNCHANGED files
    BY <1>2 DEF Replace, Raise
  <2> QED  BY <1>1, <2>1, EndingInv DEF fixed, Rungs, Resolving
<1>3. CASE incoming # Absent
  <2>1. bin' = incoming /\ incoming' = Absent /\ side' = side
    BY <1>3 DEF Replace
  <2>2. job' = [q \in Procs |-> [job[q] EXCEPT !.fd = Moved(q), !.at = IF q = p THEN "sideOpen" ELSE @]]
    BY <1>3 DEF Replace
  <2>3. ASSUME NEW q \in Procs
        PROVE  /\ job'[q] \in Jobs /\ job'[q].at = IF q = p THEN "sideOpen" ELSE job[q].at
               /\ job'[q].want = job[q].want /\ job'[q].rung = job[q].rung /\ job'[q].got = job[q].got
               /\ job'[q].sfd = job[q].sfd /\ job'[q].shared = job[q].shared
               /\ job'[q].fd = Moved(q) /\ (Moved(q) = "none" <=> job[q].fd = "none")
    <3>1. job[q] \in Jobs
      BY <1>1
    <3>2. job'[q] = [job[q] EXCEPT !.fd = Moved(q), !.at = IF q = p THEN "sideOpen" ELSE @]
      BY <2>2
    <3>3. Moved(q) \in Slots /\ (Moved(q) = "none" <=> job[q].fd = "none")
      BY <3>1 DEF Moved, Closing, Jobs, Slots
    <3> HIDE DEF Moved
    <3> QED  BY <3>1, <3>2, <3>3 DEF Jobs, Steps
  <2>4. job' \in [Procs -> Jobs]
    BY <2>2, <2>3
  <2>5. ProvisioningTypeOK'
    BY <1>1, <2>1, <2>3, <2>4 DEF ProvisioningTypeOK
  <2>6. Ladder
    BY <1>1 DEF IInv, ScriptSteps
  <2>7. ~overlapped => bin' \in vouched
    BY <1>1, <1>3, <2>1 DEF IInv, StagedWhole
  <2>8. CopyKnown'
    <3> SUFFICES ASSUME ~overlapped, NEW q \in Procs PROVE job'[q].fd = "none" /\ ~job'[q].shared
      BY <1>1 DEF CopyKnown
    <3>1. job[q].at # "copy" /\ ~job[q].shared
      BY <1>1 DEF IInv, OneStages, Staging, CopyKnown
    <3> QED  BY <1>1, <2>3, <3>1 DEF ProvisioningTypeOK
  <2>9. StagedWhole' /\ BinVouched' /\ SideVouched' /\ BytesKnown'
    BY <1>1, <2>1, <2>7 DEF IInv, StagedWhole, BinVouched, SideVouched, BytesKnown
  <2>10. OthersStay(p)
    BY <2>3 DEF OthersStay
  <2> QED  BY <1>1, <2>3, <2>5, <2>6, <2>8, <2>9, <2>10, WritingStep DEF fixed, Staging
<1> QED  BY <1>2, <1>3

\* p goes on within its call, having written the binary or the digest file.
LEMMA OwnStep ==
  ASSUME IInv, NEW p \in Procs, NEW at \in {"sideOpen", "sideHash", "sideWrite", "digest"}, NEW sfd \in {"none", "side", "gone"},
         Ladder => at # "sideHash", NEW want \in vouched \cup {Absent}, at \in {"sideOpen", "sideHash"} => want \in vouched,
         sfd # "none" <=> at \in {"sideHash", "sideWrite"}, job[p].at \in {"move", "sideOpen", "sideHash", "sideWrite"},
         job' = [job EXCEPT ![p].at = at, ![p].want = want, ![p].sfd = sfd],
         UNCHANGED <<fixed, host, incoming, vouched, overlapped>>,
         side' \in vouched \cup {Absent, Empty}, bin' \in vouched \cup {Absent, Torn},
         ~overlapped => bin' \in vouched \cup {Absent}
  PROVE  IInv'
PROOF
<1>1. /\ job \in [Procs -> Jobs] /\ job[p] \in Jobs /\ ProvisioningTypeOK /\ vouched \subseteq Contents
      /\ UNCHANGED <<program, frozen>>
  BY DEF IInv, ProvisioningTypeOK, fixed
<1> DEFINE r == [job[p] EXCEPT !.at = at, !.want = want, !.sfd = sfd]
<1>2. /\ r \in Jobs /\ r.at = at /\ r.sfd = sfd /\ r.fd = job[p].fd /\ r.shared = job[p].shared /\ r.want = want
  BY <1>1 DEF Jobs, Steps
<1>3. job' = [job EXCEPT ![p] = r]
  BY <1>1 DEF Jobs
<1>4. job' \in [Procs -> Jobs] /\ job'[p] = r /\ \A q \in Procs \ {p} : job'[q] = job[q]
  BY <1>1, <1>2, <1>3, OneJob
<1> HIDE DEF r
<1>5. ProvisioningTypeOK'
  <2>1. /\ side' \in Contents \cup {Absent, Empty} /\ bin' \in Contents \cup {Absent, Torn}
        /\ job[p].fd = "none" /\ ~job[p].shared
    BY <1>1 DEF ProvisioningTypeOK
  <2> QED  BY <1>1, <1>2, <1>4, <2>1 DEF ProvisioningTypeOK
<1>6. SideVouched' /\ BinVouched' /\ BytesKnown' /\ OthersStay(p)
  BY <1>1, <1>4 DEF IInv, SideVouched, BinVouched, BytesKnown, OthersStay
<1>7. CopyKnown' /\ StagedWhole'
  BY <1>1, <1>2, <1>4 DEF IInv, CopyKnown, StagedWhole
<1>8. ~Ladder => incoming' = Absent /\ ~overlapped'
  BY DEF IInv, ScriptSteps, Fixed
<1> QED  BY <1>1, <1>2, <1>4, <1>5, <1>6, <1>7, <1>8, WritingStep DEF Staging, Holding

LEMMA MoveInv == ASSUME IInv, NEW p \in Procs, Move(p) PROVE IInv'
PROOF
<1>1. /\ job \in [Procs -> Jobs] /\ job[p] \in Jobs /\ job[p].at = "move" /\ job[p].sfd = "none"
      /\ job[p].want \in vouched /\ vouched \subseteq Contents
      /\ side \in vouched \cup {Absent, Empty}
  BY DEF IInv, ProvisioningTypeOK, WantVouched, SideVouched, Holding, Move, At
<1>2. UNCHANGED <<fixed, host, incoming, side, vouched, overlapped>> /\ bin' = job[p].want
  BY DEF Move, At, history
<1>3. job' = [job EXCEPT ![p].at = "sideOpen", ![p].want = job[p].want, ![p].sfd = "none"]
  BY <1>1 DEF Move, Goto, Jobs
<1> QED  BY <1>1, <1>2, <1>3, OwnStep

\* What p finds under the binary's name once it has put a file there.
LEMMA Found ==
  ASSUME IInv, NEW p \in Procs, job[p].at \in {"sideOpen", "sideHash", "sideWrite"}
  PROVE  /\ bin \in vouched \cup {Absent, Torn} /\ (~overlapped => bin \in vouched \cup {Absent})
         /\ side \in vouched \cup {Absent, Empty} /\ (~Ladder => ~overlapped)
         /\ job \in [Procs -> Jobs] /\ job[p] \in Jobs
PROOF BY DEF IInv, ProvisioningTypeOK, BytesKnown, SideVouched, BinVouched, Fixed, Looked

LEMMA SideOpenInv == ASSUME IInv, NEW p \in Procs, SideOpen(p) PROVE IInv'
PROOF
<1> DEFINE next == IF Ladder THEN "sideWrite" ELSE "sideHash"
<1>1. job[p].at = "sideOpen" /\ job[p].want \in vouched
  BY DEF IInv, WantVouched, SideOpen, At
<1>2. UNCHANGED <<fixed, host, incoming, bin, vouched, overlapped>> /\ side' = Empty
  BY DEF SideOpen, At, history
<1>3. job[p] \in Jobs /\ bin \in vouched \cup {Absent, Torn} /\ (~overlapped => bin \in vouched \cup {Absent})
  BY <1>1, Found
<1>4. job' = [job EXCEPT ![p].at = next, ![p].want = job[p].want, ![p].sfd = "side"]
  BY <1>3 DEF SideOpen, Jobs
<1>5. next \in {"sideHash", "sideWrite"} /\ (Ladder => next # "sideHash")
  OBVIOUS
<1> HIDE DEF next
<1> QED  BY <1>1, <1>2, <1>3, <1>4, <1>5, OwnStep

\* The script's digest is of the file it finds: no rung of it was overlapped.
LEMMA SideHashInv == ASSUME IInv, NEW p \in Procs, SideHash(p) PROVE IInv'
PROOF
<1>1. job[p].at = "sideHash"
  BY DEF SideHash, At
<1>2. UNCHANGED <<fixed, host, incoming, bin, side, vouched, overlapped>>
  BY DEF SideHash, At, files, history
<1>3. /\ job \in [Procs -> Jobs] /\ job[p] \in Jobs /\ side \in vouched \cup {Absent, Empty}
      /\ bin \in vouched \cup {Absent, Torn} /\ (~overlapped => bin \in vouched \cup {Absent})
      /\ (~Ladder => ~overlapped)
  BY <1>1, Found
<1>4. ~Ladder /\ job[p].sfd \in {"side", "gone"}
  BY <1>1, <1>3 DEF IInv, ProvisioningTypeOK, LadderSteps, Jobs
<1>5. job' = [job EXCEPT ![p].at = "sideWrite", ![p].want = bin, ![p].sfd = job[p].sfd]
  BY <1>3, <1>4 DEF SideHash, Jobs
<1>6. bin \in vouched \cup {Absent}
  BY <1>3, <1>4
<1> QED  BY <1>1, <1>2, <1>3, <1>4, <1>5, <1>6, OwnStep

LEMMA SideWriteInv == ASSUME IInv, NEW p \in Procs, SideWrite(p) PROVE IInv'
PROOF
<1>1. job[p].at = "sideWrite" /\ job[p].want \in vouched \cup {Absent}
  BY DEF IInv, WantVouched, SideWrite, At
<1>2. /\ UNCHANGED <<fixed, host, incoming, bin, vouched, overlapped>>
      /\ side' = IF job[p].sfd = "side" THEN job[p].want ELSE side
  BY DEF SideWrite, At, history
<1>3. /\ job[p] \in Jobs /\ side \in vouched \cup {Absent, Empty}
      /\ bin \in vouched \cup {Absent, Torn} /\ (~overlapped => bin \in vouched \cup {Absent})
  BY <1>1, Found
<1>4. job' = [job EXCEPT ![p].at = "digest", ![p].want = job[p].want, ![p].sfd = "none"]
  BY <1>3 DEF SideWrite, Jobs
<1>5. side' \in vouched \cup {Absent, Empty}
  BY <1>1, <1>2, <1>3
<1> QED  BY <1>1, <1>2, <1>3, <1>4, <1>5, OwnStep

(***************************************************************************)
(* What happens around the calls.                                          *)
(***************************************************************************)
LEMMA HostChangesInv == ASSUME IInv, NEW h \in Hosts, HostChanges(h) PROVE IInv'
PROOF
<1>1. job \in [Procs -> Jobs] /\ ProvisioningTypeOK
  BY DEF IInv, ProvisioningTypeOK
<1>2. UNCHANGED <<program, frozen, incoming, bin, side, vouched, overlapped>> /\ host' = h
  BY DEF HostChanges, fixed, files, history
<1> DEFINE other(q) == [job[q] EXCEPT !.up = IF Idle(q) \/ @ = Release(h).content THEN @ ELSE Absent]
<1>3. ASSUME NEW q \in Procs
      PROVE  /\ other(q) \in Jobs /\ other(q).at = job[q].at /\ other(q).want = job[q].want /\ other(q).rung = job[q].rung
             /\ other(q).got = job[q].got /\ other(q).fd = job[q].fd /\ other(q).sfd = job[q].sfd /\ other(q).shared = job[q].shared
  <2>1. job[q] \in Jobs
    BY <1>1
  <2> QED  BY <2>1 DEF Jobs
<1> HIDE DEF other
<1>4. job' = [q \in Procs |-> other(q)]
  BY DEF HostChanges, other
<1>5. job' \in [Procs -> Jobs] /\ \A q \in Procs : job'[q] = other(q)
  BY <1>3, <1>4
<1>6. ProvisioningTypeOK'
  BY <1>1, <1>2, <1>3, <1>5 DEF ProvisioningTypeOK
<1>7. WantVouched' /\ SideVouched' /\ ScriptSteps' /\ LadderSteps' /\ Fixed'
  BY <1>2, <1>3, <1>5 DEF IInv, WantVouched, SideVouched, ScriptSteps, LadderSteps, Fixed, Ladder
<1>8. OneStages' /\ CopyKnown' /\ StagedWhole' /\ BinVouched' /\ BytesKnown'
  BY <1>2, <1>3, <1>5 DEF IInv, OneStages, CopyKnown, StagedWhole, BinVouched, BytesKnown
<1> QED  BY <1>6, <1>7, <1>8 DEF IInv

LEMMA RotInv == ASSUME IInv, Rot PROVE IInv'
PROOF
<1>1. UNCHANGED <<program, frozen, host, incoming, side, job, vouched, overlapped>> /\ bin' = Torn
  BY DEF Rot, fixed, history
<1>2. ProvisioningTypeOK'
  BY <1>1 DEF IInv, ProvisioningTypeOK
<1>3. BinVouched'
  BY <1>1 DEF Rot, BinVouched, Idle, Looked
<1>4. WantVouched' /\ SideVouched' /\ ScriptSteps' /\ LadderSteps' /\ Fixed'
  BY <1>1 DEF IInv, WantVouched, SideVouched, ScriptSteps, LadderSteps, Fixed, Ladder
<1>5. OneStages' /\ CopyKnown' /\ StagedWhole' /\ BytesKnown'
  BY <1>1 DEF IInv, OneStages, CopyKnown, StagedWhole, BytesKnown
<1> QED  BY <1>2, <1>3, <1>4, <1>5 DEF IInv

LEMMA StutterInv == ASSUME IInv, UNCHANGED vars PROVE IInv'
PROOF
<1>1. UNCHANGED <<program, frozen, host, incoming, bin, side, job, vouched, overlapped>>
  BY DEF vars, fixed, files, history
<1>2. ProvisioningTypeOK' /\ WantVouched' /\ SideVouched' /\ ScriptSteps' /\ LadderSteps' /\ Fixed'
  BY <1>1 DEF IInv, ProvisioningTypeOK, WantVouched, SideVouched, ScriptSteps, LadderSteps, Fixed, Ladder
<1>3. OneStages' /\ CopyKnown' /\ StagedWhole' /\ BinVouched' /\ BytesKnown'
  BY <1>1 DEF IInv, OneStages, CopyKnown, StagedWhole, BinVouched, BytesKnown
<1> QED  BY <1>2, <1>3 DEF IInv

LEMMA InitInv == Init => IInv
PROOF
<1> SUFFICES ASSUME Init PROVE IInv
  OBVIOUS
<1>1. Fresh \in Jobs /\ Fresh.at = "idle" /\ Fresh.fd = "none" /\ Fresh.sfd = "none" /\ ~Fresh.shared /\ Fresh.rung = "none"
  BY DEF Fresh, Jobs, Steps, Slots, Rungs
<1>2. job \in [Procs -> Jobs] /\ \A p \in Procs : job[p] = Fresh
  BY <1>1 DEF Init
<1>3. ProvisioningTypeOK
  BY <1>1, <1>2 DEF Init, ProvisioningTypeOK
<1>4. WantVouched /\ SideVouched /\ ScriptSteps /\ LadderSteps
  BY <1>1, <1>2 DEF Init, WantVouched, SideVouched, ScriptSteps, LadderSteps, Holding
<1>5. OneStages /\ CopyKnown /\ StagedWhole /\ BinVouched /\ BytesKnown
  BY <1>1, <1>2 DEF Init, OneStages, CopyKnown, StagedWhole, BinVouched, BytesKnown, Staging, Looked
<1>6. Fixed
  BY ProgramsAssumption DEF Init, Fixed
<1> QED  BY <1>3, <1>4, <1>5, <1>6 DEF IInv

LEMMA NextInv == IInv /\ [Next]_vars => IInv'
PROOF
<1> SUFFICES ASSUME IInv, [Next]_vars PROVE IInv'
  OBVIOUS
<1>1. ASSUME NEW p \in Procs, Call(p) \/ Crash(p) PROVE IInv'
  BY <1>1, CallInv, CrashInv
<1>2. ASSUME NEW p \in Procs, Reverify(p) PROVE IInv'
  BY <1>2, LookInv, ReadSidecarInv, HashInv, EvictInv, EvictSideInv DEF Reverify
<1>3. ASSUME NEW p \in Procs, Resolve(p) \/ Digest(p) PROVE IInv'
  BY <1>3, FetchInv, FrozenInv, DigestInv DEF Resolve
<1>4. ASSUME NEW p \in Procs, Install(p) PROVE IInv'
  BY <1>4, OpenInv, CopyInv, ReplaceInv, MoveInv, SideOpenInv, SideHashInv, SideWriteInv DEF Install
<1>5. ASSUME NEW h \in Hosts, HostChanges(h) PROVE IInv'
  BY <1>5, HostChangesInv
<1> QED  BY <1>1, <1>2, <1>3, <1>4, <1>5, RotInv, StutterInv DEF Next, Step

LEMMA Inductive == Spec => []IInv
PROOF BY InitInv, NextInv, PTL DEF Spec

\* Every variable keeps its type, and no process has a file open that it is
\* not writing.
THEOREM TypeCorrect == Spec => []ProvisioningTypeOK
PROOF
<1>1. IInv => ProvisioningTypeOK
  BY DEF IInv
<1> QED  BY <1>1, Inductive, PTL

\* An entry that would pass _reverify_cache, or the script's fast path, holds
\* bytes some rung verified, whatever overlapped, crashed or rotted before.
THEOREM EntryVouched == Spec => []EntryIsVouched
PROOF
<1>1. IInv => EntryIsVouched
  <2> SUFFICES ASSUME IInv, bin # Absent, bin = side PROVE bin \in vouched
    BY DEF EntryIsVouched
  <2>1. bin # Empty
    BY ContentsAssumption DEF IInv, ProvisioningTypeOK, Absent, Empty, Torn
  <2> QED  BY <2>1 DEF IInv, SideVouched
<1> QED  BY <1>1, Inductive, PTL

\* Only a digest taken of the binary that is there ends a call with a rung that
\* hands out; it is of what was verified, or of torn bytes after an overlap.
HandsOut(p) ==
  ~Idle(p) /\ Idle(p)' /\ job'[p].rung \in Resolving =>
    job'[p].got \in vouched' \/ (overlapped' /\ job'[p].got = Torn)

LEMMA EndsEmpty ==
  ASSUME IInv, NEW q \in Procs, NEW rung \in Rungs \ Resolving, Return(q, rung, Absent), NEW p \in Procs
  PROVE  HandsOut(p)
PROOF
<1>1. job \in [Procs -> Jobs] /\ "raised" \in Rungs
  BY DEF IInv, ProvisioningTypeOK, Rungs
<1>2. Ended(q, rung, Absent).rung = rung
  BY <1>1, EndedJob
<1> QED  BY <1>1, <1>2 DEF HandsOut, Return, Idle

\* A step that leaves who is in a call as it is.
LEMMA GoesOn ==
  ASSUME NEW p \in Procs, Idle(p)' => Idle(p)
  PROVE  HandsOut(p)
PROOF BY DEF HandsOut

LEMMA DigestHandsOut ==
  ASSUME IInv, NEW q \in Procs, Digest(q), NEW p \in Procs
  PROVE  HandsOut(p)
PROOF
<1>1. /\ job \in [Procs -> Jobs] /\ job[q].at = "digest" /\ job[q].rung \in Rungs /\ bin \in Contents \cup {Absent, Torn}
      /\ UNCHANGED <<vouched, overlapped>>
  BY DEF IInv, ProvisioningTypeOK, Jobs, Digest, At, history
<1>2. CASE bin = Absent
  BY <1>2, EndsEmpty DEF Digest, Raise, Rungs, Resolving
<1>3. CASE bin # Absent
  <2>1. Return(q, job[q].rung, bin)
    BY <1>3 DEF Digest
  <2>2. Ended(q, job[q].rung, bin).got = bin
    BY <1>1, EndedJob
  <2>3. bin \in vouched \/ (overlapped /\ bin = Torn)
    BY <1>1, <1>3 DEF IInv, BytesKnown, BinVouched, Looked
  <2> QED  BY <1>1, <2>1, <2>2, <2>3 DEF HandsOut, Return, Idle
<1> QED  BY <1>2, <1>3

LEMMA RungHandsOut ==
  ASSUME IInv, NEW q \in Procs, Fetch(q) \/ Frozen(q) \/ Hash(q) \/ Replace(q) \/ Crash(q), NEW p \in Procs
  PROVE  HandsOut(p)
PROOF
<1>1. job \in [Procs -> Jobs] /\ ~Idle(q) /\ host \in Hosts
  BY DEF IInv, ProvisioningTypeOK, Fetch, Frozen, Hash, Replace, Crash, At, Idle
<1>2. ASSUME NEW rung \in {"raised", "unavailable", "crashed"}, Return(q, rung, Absent) PROVE HandsOut(p)
  BY <1>2, EndsEmpty DEF Rungs, Resolving
<1>3. ASSUME NEW at, NEW want, NEW rung, at # "idle",
             job' = [job EXCEPT ![q] = [job[q] EXCEPT !.at = at, !.want = want, !.rung = rung]]
      PROVE  HandsOut(p)
  <2>1. job'[p].at = IF p = q THEN at ELSE job[p].at
    BY <1>1, <1>3 DEF Jobs
  <2> QED  BY <1>3, <2>1, GoesOn DEF Idle
<1>10. ASSUME NEW at, at # "idle", Goto(q, at) PROVE HandsOut(p)
  <2>1. job'[p].at = IF p = q THEN at ELSE job[p].at
    BY <1>1, <1>10 DEF Goto, Jobs
  <2> QED  BY <1>10, <2>1, GoesOn DEF Idle
<1>4. ASSUME NEW c, NEW rung, Take(q, c, rung) PROVE HandsOut(p)
  <2>1. PICK at \in {"open", "move"} : job' = [job EXCEPT ![q].at = at, ![q].want = c, ![q].rung = rung]
    BY <1>4 DEF Take
  <2>2. job'[p].at = IF p = q THEN at ELSE job[p].at
    BY <1>1, <2>1 DEF Jobs
  <2> QED  BY <2>1, <2>2, GoesOn DEF Idle
<1>5. CASE Fetch(q)
  <2> DEFINE r == Release(host)
  <2>1. r.outcome \in {"resolved", "unreachable", "unverifiable", "discarded"}
    BY <1>1, ReleaseVerdict
  <2>2. Take(q, r.content, "release") \/ Goto(q, "frozen") \/ Return(q, "unavailable", Absent)
    BY <1>5, <2>1 DEF Fetch
  <2> HIDE DEF r
  <2> QED  BY <1>2, <1>4, <1>10, <2>2
<1>6. CASE Frozen(q)
  <2>1. Take(q, from_frozen(frozen).content, "frozen") \/ Return(q, "unavailable", Absent)
    BY <1>6 DEF Frozen
  <2> QED  BY <1>2, <1>4, <2>1
<1>7. CASE Hash(q)
  <2>1. \/ job' = [job EXCEPT ![q].at = "digest", ![q].rung = "cache"]
        \/ Return(q, "raised", Absent) \/ Goto(q, "evict") \/ Goto(q, "release")
    BY <1>7 DEF Hash, Raise, Miss
  <2>2. CASE job' = [job EXCEPT ![q].at = "digest", ![q].rung = "cache"]
    <3>1. job' = [job EXCEPT ![q] = [job[q] EXCEPT !.at = "digest", !.want = job[q].want, !.rung = "cache"]]
      BY <1>1, <2>2 DEF Jobs
    <3> QED  BY <1>3, <3>1
  <2> QED  BY <1>2, <1>10, <2>1, <2>2
<1>8. CASE Replace(q)
  <2>1. CASE incoming = Absent
    BY <1>2, <1>8, <2>1 DEF Replace, Raise
  <2>2. CASE incoming # Absent
    <3>1. job' = [r \in Procs |-> [job[r] EXCEPT !.fd = Moved(r), !.at = IF r = q THEN "sideOpen" ELSE @]]
      BY <1>8, <2>2 DEF Replace
    <3>2. job'[p].at = IF p = q THEN "sideOpen" ELSE job[p].at
      BY <1>1, <3>1 DEF Jobs
    <3> QED  BY <3>2, GoesOn DEF Idle
  <2> QED  BY <2>1, <2>2
<1>9. CASE Crash(q)
  BY <1>2, <1>9 DEF Crash
<1> QED  BY <1>5, <1>6, <1>7, <1>8, <1>9

\* The other steps end no call.
LEMMA StepHandsOut ==
  ASSUME IInv, NEW q \in Procs, NEW p \in Procs,
         \/ Look(q) \/ ReadSidecar(q) \/ Evict(q) \/ EvictSide(q) \/ Open(q) \/ Copy(q) \/ Move(q)
         \/ SideOpen(q) \/ SideHash(q) \/ SideWrite(q) \/ Call(q)
  PROVE  HandsOut(p)
PROOF
<1>1. job \in [Procs -> Jobs] /\ job[p] \in Jobs /\ job[q] \in Jobs
  BY DEF IInv, ProvisioningTypeOK
<1> DEFINE OnAt == \E at : at # "idle" /\ job'[p].at = IF p = q THEN at ELSE job[p].at
<1>2. OnAt
  <2>1. ASSUME Look(q) \/ Move(q) PROVE OnAt
    BY <1>1, <2>1 DEF Look, Move, Goto, Jobs
  <2>2. ASSUME ReadSidecar(q) PROVE OnAt
    BY <1>1, <2>2 DEF ReadSidecar, Goto, Miss, Jobs
  <2>3. ASSUME Evict(q) \/ EvictSide(q) PROVE OnAt
    <3>1. CASE Evict(q)
      <4>1. PICK fd : fd = [r \in Procs |-> Closing("fd", "bin", r)]
        OBVIOUS
      <4>2. job' = [r \in Procs |-> [job[r] EXCEPT !.fd = fd[r], !.at = IF r = q THEN "evictSide" ELSE @]]
        BY <3>1, <4>1 DEF Evict
      <4> QED  BY <1>1, <4>2 DEF Jobs
    <3>2. CASE EvictSide(q)
      <4>1. PICK sfd : sfd = [r \in Procs |-> Closing("sfd", "side", r)]
        OBVIOUS
      <4>2. job' = [r \in Procs |-> [job[r] EXCEPT !.sfd = sfd[r], !.at = IF r = q THEN "release" ELSE @]]
        BY <3>2, <4>1 DEF EvictSide
      <4> QED  BY <1>1, <4>2 DEF Jobs
    <3> QED  BY <2>3, <3>1, <3>2
  <2>4. ASSUME Open(q) PROVE OnAt
    BY <1>1, <2>4 DEF Open, Jobs
  <2>5. ASSUME Copy(q) \/ SideOpen(q) \/ SideHash(q) \/ SideWrite(q)
        PROVE OnAt
    <3>1. CASE Copy(q)
      BY <1>1, <3>1 DEF Copy, Jobs
    <3>2. CASE SideOpen(q)
      <4>1. PICK at \in {"sideHash", "sideWrite"} : job' = [job EXCEPT ![q].at = at, ![q].sfd = "side"]
        BY <3>2 DEF SideOpen
      <4> QED  BY <1>1, <4>1 DEF Jobs
    <3>3. CASE SideHash(q)
      BY <1>1, <3>3 DEF SideHash, Jobs
    <3>4. CASE SideWrite(q)
      BY <1>1, <3>4 DEF SideWrite, Jobs
    <3> QED  BY <2>5, <3>1, <3>2, <3>3, <3>4
  <2>6. ASSUME Call(q) PROVE OnAt
    <3>1. PICK solo, up : solo = (\A r \in Procs : Idle(r)) /\ up = Release(host).content
      OBVIOUS
    <3>2. job' = [r \in Procs |->
            IF r = q THEN [Fresh EXCEPT !.at = "look", !.alone = solo, !.up = up]
            ELSE [job[r] EXCEPT !.alone = @ /\ Idle(r)]]
      BY <2>6, <3>1 DEF Call
    <3> QED  BY <1>1, <3>2 DEF Fresh, Jobs
  <2> QED  BY <2>1, <2>2, <2>3, <2>4, <2>5, <2>6
<1> QED  BY <1>2, GoesOn DEF Idle

LEMMA NextHandsOut ==
  ASSUME IInv, [Next]_vars, NEW p \in Procs
  PROVE  HandsOut(p)
PROOF
<1>1. ASSUME NEW q \in Procs, Call(q) \/ Step(q) \/ Crash(q) PROVE HandsOut(p)
  BY <1>1, DigestHandsOut, RungHandsOut, StepHandsOut DEF Step, Reverify, Resolve, Install
<1>2. ASSUME NEW h \in Hosts, HostChanges(h) PROVE HandsOut(p)
  <2>1. PICK new : new = Release(h).content
    OBVIOUS
  <2>2. job' = [q \in Procs |-> [job[q] EXCEPT !.up = IF Idle(q) \/ @ = new THEN @ ELSE Absent]]
    BY <1>2, <2>1 DEF HostChanges
  <2>3. job'[p].at = job[p].at
    BY <2>2 DEF IInv, ProvisioningTypeOK, Jobs
  <2> QED  BY <2>3, GoesOn DEF Idle
<1>3. CASE Rot \/ UNCHANGED vars
  BY <1>3, GoesOn DEF Rot, vars, Idle
<1> QED  BY <1>1, <1>2, <1>3 DEF Next

\* What provision and the script hand out some rung has verified; the one
\* exception is a torn copy, while calls last of which two had the one staged
\* file in hand at once.
THEOREM HandsOutCorrect == Spec => HandsOutVerified
PROOF
<1>1. IInv /\ [Next]_vars => [\A p \in Procs : ~Idle(p) /\ Idle(p)' /\ job'[p].rung \in Resolving =>
        job'[p].got \in vouched' \/ (overlapped' /\ job'[p].got = Torn)]_vars
  BY NextHandsOut DEF HandsOut
<1> QED  BY <1>1, Inductive, PTL DEF Spec, HandsOutVerified

(***************************************************************************)
(* A call that runs alone.  Nobody else has a file in hand, so each step   *)
(* finds what the one before it left; and a release that was there all     *)
(* through the call is the one that Fetch finds.                           *)
(***************************************************************************)
Solitary == \A p \in Procs : ~Idle(p) /\ job[p].alone => \A q \in Procs \ {p} : Idle(q)
Steady == \A p \in Procs : ~Idle(p) /\ job[p].up # Absent => Release(host).content = job[p].up
Healed(p) ==
  job[p].up # Absent =>
    job[p].rung \in {"cache", "crashed"} \/ (job[p].rung = "release" /\ job[p].got = job[p].up)
Healing(p) ==
  job[p].up # Absent =>
    /\ job[p].at # "frozen"
    /\ job[p].at \in {"sidecar", "hash"} => bin # Absent
    /\ job[p].at \in Holding \cup {"sideOpen", "sideHash", "sideWrite"} => job[p].rung = "release" /\ job[p].want = job[p].up
    /\ job[p].at = "copy" => job[p].fd = "incoming" /\ ~job[p].shared
    /\ job[p].at = "replace" => incoming = job[p].up
    /\ job[p].at \in {"sideOpen", "sideHash", "sideWrite"} => bin = job[p].up
    /\ job[p].at = "digest" => (job[p].rung = "cache" /\ bin # Absent) \/ (job[p].rung = "release" /\ bin = job[p].up)
Heals(p) == job[p].alone => IF Idle(p) THEN Healed(p) ELSE Healing(p)
HealInv == Solitary /\ Steady /\ \A p \in Procs : Heals(p)

\* What a call's step leaves to the other calls, and of what its own began with.
Kept(p) ==
  /\ job'[p].alone = job[p].alone /\ job'[p].up = job[p].up
  /\ \A q \in Procs \ {p} : /\ job'[q].at = job[q].at /\ job'[q].rung = job[q].rung /\ job'[q].got = job[q].got
                            /\ job'[q].alone = job[q].alone /\ job'[q].up = job[q].up

LEMMA EndsKept ==
  ASSUME ProvisioningTypeOK, NEW p \in Procs, NEW rung, NEW got, Return(p, rung, got)
  PROVE  Kept(p) /\ job'[p].at = "idle" /\ job'[p].rung = rung /\ job'[p].got = got
PROOF BY DEF ProvisioningTypeOK, Return, Ended, Fresh, Kept

LEMMA GoesKept ==
  ASSUME ProvisioningTypeOK, NEW p \in Procs, NEW r, job' = [job EXCEPT ![p] = r],
         r.alone = job[p].alone, r.up = job[p].up
  PROVE  Kept(p) /\ job'[p] = r
PROOF BY DEF ProvisioningTypeOK, Kept

\* It is enough to look at the call that takes the step, while it is alone.
LEMMA AloneStep ==
  ASSUME ProvisioningTypeOK, HealInv, NEW p \in Procs, ~Idle(p), Kept(p), UNCHANGED <<program, host>>,
         job[p].alone /\ Healing(p) /\ (\A q \in Procs \ {p} : Idle(q)) =>
           IF job'[p].at = "idle" THEN Healed(p)' ELSE Healing(p)'
  PROVE  HealInv'
PROOF
<1>1. ASSUME NEW q \in Procs, q # p PROVE ~Idle(q) => ~job[q].alone
  BY <1>1 DEF HealInv, Solitary
<1>2. Solitary'
  BY <1>1 DEF HealInv, Solitary, Idle, Kept
<1>3. Steady'
  <2>1. Release(host)' = Release(host)
    BY DEF Release, from_release, verify_manifest, download, Nothing, Resolved
  <2> QED  BY <2>1 DEF HealInv, Steady, Idle, Kept
<1>4. ASSUME NEW q \in Procs PROVE Heals(q)'
  <2>1. CASE q = p
    BY <2>1 DEF HealInv, Heals, Solitary, Idle, Kept
  <2>2. CASE q # p
    BY <1>1, <2>2 DEF HealInv, Heals, Healed, Idle, Kept
  <2> QED  BY <2>1, <2>2
<1> QED  BY <1>2, <1>3, <1>4 DEF HealInv

LEMMA EndHeals ==
  ASSUME ProvisioningTypeOK, HealInv, NEW p \in Procs, NEW rung, NEW got, Return(p, rung, got), ~Idle(p),
         UNCHANGED <<program, host>>,
         job[p].alone /\ Healing(p) /\ job[p].up # Absent => rung \in {"cache", "crashed"} \/ (rung = "release" /\ got = job[p].up)
  PROVE  HealInv'
PROOF
<1>1. Kept(p) /\ job'[p].at = "idle" /\ job'[p].rung = rung /\ job'[p].got = got
  BY EndsKept
<1> QED  BY <1>1, AloneStep DEF Healed, Kept

\* p goes on, from a step at which it has no file open to another.
Onward(p, at, want, rung) ==
  job[p].alone /\ Healing(p) /\ job[p].up # Absent =>
    /\ at # "frozen"
    /\ at \in {"sidecar", "hash"} => bin' # Absent
    /\ at \in {"open", "move", "sideOpen", "sideHash", "sideWrite"} => rung = "release" /\ want = job[p].up
    /\ at \in {"sideOpen", "sideHash", "sideWrite"} => bin' = job[p].up
    /\ at = "digest" => (rung = "cache" /\ bin' # Absent) \/ (rung = "release" /\ bin' = job[p].up)
LEMMA GoHeals ==
  ASSUME ProvisioningTypeOK, HealInv, NEW p \in Procs, NEW at, NEW want, NEW rung, NEW sfd, at # "idle", ~Idle(p),
         job' = [job EXCEPT ![p] = [job[p] EXCEPT !.at = at, !.want = want, !.rung = rung, !.sfd = sfd]],
         UNCHANGED <<program, host>>, at \notin {"copy", "replace"},
         Onward(p, at, want, rung)
  PROVE  HealInv'
PROOF
<1>1. job[p] \in Jobs
  BY DEF ProvisioningTypeOK
<1>2. PICK r : /\ r = [job[p] EXCEPT !.at = at, !.want = want, !.rung = rung, !.sfd = sfd]
               /\ job' = [job EXCEPT ![p] = r]
  OBVIOUS
<1>3. /\ r.at = at /\ r.want = want /\ r.rung = rung /\ r.alone = job[p].alone /\ r.up = job[p].up
  BY <1>1, <1>2 DEF Jobs
<1>4. Kept(p) /\ job'[p] = r
  BY <1>2, <1>3, GoesKept
<1>5. job[p].alone /\ Healing(p) => Healing(p)'
  BY <1>3, <1>4 DEF Healing, Holding, Onward
<1> QED  BY <1>3, <1>4, <1>5, AloneStep

LEMMA ReverifyHeals ==
  ASSUME IInv, HealInv, NEW p \in Procs, Look(p) \/ ReadSidecar(p) \/ Hash(p)
  PROVE  HealInv'
PROOF
<1>1. /\ ProvisioningTypeOK /\ job[p] \in Jobs /\ ~Idle(p) /\ UNCHANGED <<program, host, incoming, bin, side>>
      /\ job[p].at \in {"look", "sidecar", "hash"}
  BY DEF IInv, ProvisioningTypeOK, Look, ReadSidecar, Hash, At, Idle, fixed, files
<1>2. ASSUME NEW at \in {"release", "evict", "sidecar"}, Goto(p, at), at = "sidecar" => bin # Absent
      PROVE  HealInv'
  <2>1. job' = [job EXCEPT ![p] = [job[p] EXCEPT !.at = at, !.want = job[p].want, !.rung = job[p].rung, !.sfd = job[p].sfd]]
    BY <1>1, <1>2 DEF Goto, Jobs
  <2>2. Onward(p, at, job[p].want, job[p].rung)
    BY <1>1, <1>2 DEF Onward
  <2> QED  BY <1>1, <1>2, <2>1, <2>2, GoHeals
<1>4. Miss \in {"evict", "release"}
  BY DEF Miss
<1>5. CASE Look(p)
  <2>1. Goto(p, "release") \/ (bin # Absent /\ Goto(p, "sidecar"))
    BY <1>5 DEF Look
  <2> QED  BY <1>2, <2>1
<1>6. CASE ReadSidecar(p)
  <2>1. CASE side \in {Absent, Empty}
    <3>1. Goto(p, Miss)
      BY <1>6, <2>1 DEF ReadSidecar
    <3> QED  BY <1>2, <1>4, <3>1
  <2>2. CASE side \notin {Absent, Empty}
    <3>1. job' = [job EXCEPT ![p] = [job[p] EXCEPT !.at = "hash", !.want = side, !.rung = job[p].rung, !.sfd = job[p].sfd]]
      BY <1>1, <1>6, <2>2 DEF ReadSidecar, Jobs
    <3>2. job[p].at = "sidecar"
      BY <1>6 DEF ReadSidecar, At
    <3>3. Onward(p, "hash", side, job[p].rung)
      BY <1>1, <3>2 DEF Onward, Healing
    <3> QED  BY <1>1, <3>1, <3>3, GoHeals
  <2> QED  BY <2>1, <2>2
<1>7. CASE Hash(p)
  <2>1. job[p].at = "hash"
    BY <1>7 DEF Hash, At
  <2>2. CASE bin = job[p].want
    <3>1. job' = [job EXCEPT ![p] = [job[p] EXCEPT !.at = "digest", !.want = job[p].want, !.rung = "cache", !.sfd = job[p].sfd]]
      BY <1>1, <1>7, <2>2 DEF Hash, Jobs
    <3>2. Onward(p, "digest", job[p].want, "cache")
      BY <1>1, <2>1 DEF Onward, Healing
    <3> QED  BY <1>1, <3>1, <3>2, GoHeals
  <2>3. CASE bin # job[p].want /\ Ladder /\ bin = Absent
    <3>1. Return(p, "raised", Absent)
      BY <1>7, <2>3 DEF Hash, Raise
    <3>2. ~(Healing(p) /\ job[p].up # Absent)
      BY <2>1, <2>3 DEF Healing
    <3> QED  BY <1>1, <3>1, <3>2, EndHeals
  <2>4. CASE bin # job[p].want /\ ~(Ladder /\ bin = Absent)
    <3>1. Goto(p, Miss)
      BY <1>7, <2>4 DEF Hash
    <3> QED  BY <1>2, <1>4, <3>1
  <2> QED  BY <2>2, <2>3, <2>4
<1> QED  BY <1>5, <1>6, <1>7

LEMMA EvictHeals ==
  ASSUME IInv, HealInv, NEW p \in Procs, Evict(p) \/ EvictSide(p)
  PROVE  HealInv'
PROOF
<1>1. ProvisioningTypeOK /\ ~Idle(p) /\ UNCHANGED <<program, host>> /\ \A q \in Procs : job[q] \in Jobs
  BY DEF IInv, ProvisioningTypeOK, Evict, EvictSide, At, Idle, fixed
<1>2. ASSUME Evict(p) PROVE Kept(p) /\ job'[p].at = "evictSide"
  <2>1. job' = [q \in Procs |-> [job[q] EXCEPT !.fd = Closing("fd", "bin", q), !.at = IF q = p THEN "evictSide" ELSE @]]
    BY <1>2 DEF Evict
  <2>2. ASSUME NEW q \in Procs
        PROVE  /\ job'[q].at = (IF q = p THEN "evictSide" ELSE job[q].at) /\ job'[q].rung = job[q].rung
               /\ job'[q].got = job[q].got /\ job'[q].alone = job[q].alone /\ job'[q].up = job[q].up
    BY <1>1, <2>1 DEF Jobs
  <2> QED  BY <2>2 DEF Kept
<1>3. ASSUME EvictSide(p) PROVE Kept(p) /\ job'[p].at = "release"
  <2>1. job' = [q \in Procs |-> [job[q] EXCEPT !.sfd = Closing("sfd", "side", q), !.at = IF q = p THEN "release" ELSE @]]
    BY <1>3 DEF EvictSide
  <2>2. ASSUME NEW q \in Procs
        PROVE  /\ job'[q].at = (IF q = p THEN "release" ELSE job[q].at) /\ job'[q].rung = job[q].rung
               /\ job'[q].got = job[q].got /\ job'[q].alone = job[q].alone /\ job'[q].up = job[q].up
    BY <1>1, <2>1 DEF Jobs
  <2> QED  BY <2>2 DEF Kept
<1>4. PICK at \in {"evictSide", "release"} : Kept(p) /\ job'[p].at = at
  BY <1>2, <1>3
<1>5. Healing(p)'
  BY <1>4 DEF Healing, Holding
<1> QED  BY <1>1, <1>4, <1>5, AloneStep

\* A release that was there all through the call is the one Fetch finds.
LEMMA ResolveHeals ==
  ASSUME IInv, HealInv, NEW p \in Procs, Fetch(p) \/ Frozen(p)
  PROVE  HealInv'
PROOF
<1>1. /\ ProvisioningTypeOK /\ job[p] \in Jobs /\ ~Idle(p) /\ UNCHANGED <<program, host, incoming, bin, side>>
      /\ job[p].at \in {"release", "frozen"} /\ host \in Hosts
  BY DEF IInv, ProvisioningTypeOK, Fetch, Frozen, At, Idle, fixed, files
<1>2. job[p].up # Absent => Release(host).content = job[p].up
  BY <1>1 DEF HealInv, Steady
<1>3. ASSUME NEW c, NEW rung, Take(p, c, rung), job[p].alone /\ Healing(p) /\ job[p].up # Absent => rung = "release" /\ c = job[p].up
      PROVE  HealInv'
  <2>1. PICK at \in {"open", "move"} : job' = [job EXCEPT ![p].at = at, ![p].want = c, ![p].rung = rung]
    BY <1>3 DEF Take
  <2>2. job' = [job EXCEPT ![p] = [job[p] EXCEPT !.at = at, !.want = c, !.rung = rung, !.sfd = job[p].sfd]]
    BY <1>1, <2>1 DEF Jobs
  <2>3. Onward(p, at, c, rung)
    BY <1>3 DEF Onward
  <2> QED  BY <1>1, <2>2, <2>3, GoHeals
<1>4. ASSUME Return(p, "unavailable", Absent), job[p].alone /\ Healing(p) => job[p].up = Absent
      PROVE  HealInv'
  BY <1>1, <1>4, EndHeals
<1>5. Release(host).content # Absent => Release(host).outcome = "resolved"
  BY DEF Release, from_release, download, Nothing, Resolved
<1>6. CASE Fetch(p)
  <2>1. CASE Release(host).outcome = "resolved"
    <3>1. Take(p, Release(host).content, "release")
      BY <1>6, <2>1 DEF Fetch
    <3> QED  BY <1>2, <1>3, <3>1
  <2>2. CASE Release(host).outcome # "resolved"
    <3>1. job[p].up = Absent
      BY <1>2, <1>5, <2>2
    <3>2. Goto(p, "frozen") \/ Return(p, "unavailable", Absent)
      <4>1. Release(host).outcome \in {"unreachable", "unverifiable", "discarded"}
        BY <1>1, <2>2, ReleaseVerdict
      <4> QED  BY <1>6, <2>2, <4>1 DEF Fetch
    <3>3. CASE Goto(p, "frozen")
      <4>1. job' = [job EXCEPT ![p] = [job[p] EXCEPT !.at = "frozen", !.want = job[p].want, !.rung = job[p].rung, !.sfd = job[p].sfd]]
        BY <1>1, <3>3 DEF Goto, Jobs
      <4>2. Onward(p, "frozen", job[p].want, job[p].rung)
        BY <3>1 DEF Onward
      <4> QED  BY <1>1, <4>1, <4>2, GoHeals
    <3> QED  BY <1>4, <3>1, <3>2, <3>3
  <2> QED  BY <2>1, <2>2
<1>7. CASE Frozen(p)
  <2>1. job[p].alone /\ Healing(p) => job[p].up = Absent
    BY <1>7 DEF Healing, Frozen, At
  <2>2. (\E c : Take(p, c, "frozen")) \/ Return(p, "unavailable", Absent)
    BY <1>7 DEF Frozen
  <2> QED  BY <1>3, <1>4, <2>1, <2>2
<1> QED  BY <1>6, <1>7

LEMMA OpenHeals ==
  ASSUME IInv, HealInv, NEW p \in Procs, Open(p)
  PROVE  HealInv'
PROOF
<1>1. /\ ProvisioningTypeOK /\ job[p].at = "open" /\ UNCHANGED <<program, host>> /\ \A q \in Procs : job[q] \in Jobs
  BY DEF IInv, ProvisioningTypeOK, Open, At, fixed
<1>2. PICK any : any = \E r \in Procs : job[r].fd = "incoming"
  OBVIOUS
<1>3. job' = [q \in Procs |->
        IF q = p THEN [job[p] EXCEPT !.at = "copy", !.fd = "incoming", !.shared = any]
        ELSE [job[q] EXCEPT !.shared = @ \/ job[q].fd = "incoming"]]
  BY <1>2 DEF Open
<1>4. /\ Kept(p) /\ job'[p].at = "copy" /\ job'[p].fd = "incoming" /\ job'[p].shared = any
      /\ job'[p].want = job[p].want /\ job'[p].rung = job[p].rung
  BY <1>1, <1>3 DEF Kept, Jobs
<1>5. (\A q \in Procs \ {p} : Idle(q)) => ~any
  BY <1>1, <1>2 DEF ProvisioningTypeOK, Idle
<1>6. job[p].alone /\ Healing(p) /\ (\A q \in Procs \ {p} : Idle(q)) => Healing(p)'
  BY <1>1, <1>4, <1>5 DEF Healing, Holding, Kept
<1> QED  BY <1>1, <1>4, <1>6, AloneStep DEF Idle

LEMMA CopyHeals ==
  ASSUME IInv, HealInv, NEW p \in Procs, Copy(p)
  PROVE  HealInv'
PROOF
<1>1. ProvisioningTypeOK /\ job[p] \in Jobs /\ job[p].at = "copy" /\ UNCHANGED <<program, host>>
  BY DEF IInv, ProvisioningTypeOK, Copy, At, fixed
<1>2. PICK r : r = [job[p] EXCEPT !.at = "replace", !.fd = "none", !.shared = FALSE] /\ job' = [job EXCEPT ![p] = r]
  BY DEF Copy
<1>3. /\ r.at = "replace" /\ r.want = job[p].want /\ r.rung = job[p].rung /\ r.alone = job[p].alone /\ r.up = job[p].up
  BY <1>1, <1>2 DEF Jobs
<1>4. Kept(p) /\ job'[p] = r
  BY <1>1, <1>2, <1>3, GoesKept
<1>5. job[p].fd = "incoming" /\ ~job[p].shared => incoming' = job[p].want
  BY DEF Copy
<1>6. job[p].alone /\ Healing(p) => Healing(p)'
  BY <1>1, <1>3, <1>4, <1>5 DEF Healing, Holding
<1> QED  BY <1>1, <1>3, <1>4, <1>6, AloneStep DEF Idle

LEMMA ReplaceHeals ==
  ASSUME IInv, HealInv, NEW p \in Procs, Replace(p)
  PROVE  HealInv'
PROOF
<1>1. /\ ProvisioningTypeOK /\ job[p].at = "replace" /\ UNCHANGED <<program, host>> /\ \A q \in Procs : job[q] \in Jobs
  BY DEF IInv, ProvisioningTypeOK, Replace, At, fixed
<1>2. CASE incoming = Absent
  <2>1. Return(p, "raised", Absent)
    BY <1>2 DEF Replace, Raise
  <2>2. Healing(p) => job[p].up = Absent
    BY <1>1, <1>2 DEF Healing
  <2> QED  BY <1>1, <2>1, <2>2, EndHeals DEF Idle
<1>3. CASE incoming # Absent
  <2>1. PICK fd : fd = [q \in Procs |-> Moved(q)]
    OBVIOUS
  <2>2. job' = [q \in Procs |-> [job[q] EXCEPT !.fd = fd[q], !.at = IF q = p THEN "sideOpen" ELSE @]] /\ bin' = incoming
    BY <1>3, <2>1 DEF Replace
  <2>3. Kept(p) /\ job'[p].at = "sideOpen" /\ job'[p].want = job[p].want /\ job'[p].rung = job[p].rung
    BY <1>1, <2>2 DEF Kept, Jobs
  <2>4. Healing(p) => Healing(p)'
    BY <1>1, <2>2, <2>3 DEF Healing, Holding, Kept
  <2> QED  BY <1>1, <2>3, <2>4, AloneStep DEF Idle
<1> QED  BY <1>2, <1>3

LEMMA SideHeals ==
  ASSUME IInv, HealInv, NEW p \in Procs, Move(p) \/ SideOpen(p) \/ SideHash(p) \/ SideWrite(p)
  PROVE  HealInv'
PROOF
<1>1. /\ ProvisioningTypeOK /\ job[p] \in Jobs /\ job[p].at \in {"move", "sideOpen", "sideHash", "sideWrite"} /\ ~Idle(p)
      /\ UNCHANGED <<program, host>>
  BY DEF IInv, ProvisioningTypeOK, Move, SideOpen, SideHash, SideWrite, At, Idle, fixed
<1>2. PICK at, want, sfd :
        /\ at \in {"sideOpen", "sideHash", "sideWrite", "digest"} /\ want = IF SideHash(p) THEN bin ELSE job[p].want
        /\ job' = [job EXCEPT ![p] = [job[p] EXCEPT !.at = at, !.want = want, !.rung = job[p].rung, !.sfd = sfd]]
  <2>1. ASSUME Move(p) PROVE job' = [job EXCEPT ![p] = [job[p] EXCEPT !.at = "sideOpen", !.want = job[p].want, !.rung = job[p].rung, !.sfd = job[p].sfd]]
    BY <1>1, <2>1 DEF Move, Goto, Jobs
  <2>2. ASSUME SideHash(p) PROVE job' = [job EXCEPT ![p] = [job[p] EXCEPT !.at = "sideWrite", !.want = bin, !.rung = job[p].rung, !.sfd = job[p].sfd]]
    BY <1>1, <2>2 DEF SideHash, Jobs
  <2>3. ASSUME SideWrite(p) PROVE job' = [job EXCEPT ![p] = [job[p] EXCEPT !.at = "digest", !.want = job[p].want, !.rung = job[p].rung, !.sfd = "none"]]
    BY <1>1, <2>3 DEF SideWrite, Jobs
  <2>4. ASSUME SideOpen(p)
        PROVE  \E at \in {"sideHash", "sideWrite"} :
                 job' = [job EXCEPT ![p] = [job[p] EXCEPT !.at = at, !.want = job[p].want, !.rung = job[p].rung, !.sfd = "side"]]
    BY <1>1, <2>4 DEF SideOpen, Jobs
  <2>5. SideHash(p) => ~Move(p) /\ ~SideOpen(p) /\ ~SideWrite(p)
    BY DEF SideHash, Move, SideOpen, SideWrite, At
  <2>6. CASE SideHash(p)
    BY <2>2, <2>6
  <2>7. CASE SideOpen(p) /\ ~SideHash(p)
    <3>1. PICK at \in {"sideHash", "sideWrite"} :
            job' = [job EXCEPT ![p] = [job[p] EXCEPT !.at = at, !.want = job[p].want, !.rung = job[p].rung, !.sfd = "side"]]
      BY <2>4, <2>7
    <3> QED  BY <2>7, <3>1
  <2>8. CASE Move(p) /\ ~SideHash(p)
    BY <2>1, <2>8
  <2>9. CASE SideWrite(p) /\ ~SideHash(p)
    BY <2>3, <2>9
  <2> QED  BY <2>6, <2>7, <2>8, <2>9
<1>3. Healing(p) /\ job[p].up # Absent => job[p].rung = "release" /\ bin' = job[p].up /\ want = job[p].up
  BY <1>1, <1>2 DEF Healing, Holding, Move, SideOpen, SideHash, SideWrite, At, files
<1>4. Onward(p, at, want, job[p].rung)
  BY <1>2, <1>3 DEF Onward
<1> QED  BY <1>1, <1>2, <1>4, GoHeals

LEMMA DigestHeals ==
  ASSUME IInv, HealInv, NEW p \in Procs, Digest(p) \/ Crash(p)
  PROVE  HealInv'
PROOF
<1>1. ProvisioningTypeOK /\ ~Idle(p) /\ UNCHANGED <<program, host>>
  BY DEF IInv, Digest, Crash, At, Idle, fixed
<1>2. CASE Crash(p)
  BY <1>1, <1>2, EndHeals DEF Crash
<1>3. CASE Digest(p) /\ bin = Absent
  <2>1. Return(p, "raised", Absent) /\ job[p].at = "digest"
    BY <1>3 DEF Digest, Raise, At
  <2>2. ~(Healing(p) /\ job[p].up # Absent)
    BY <1>3, <2>1 DEF Healing
  <2> QED  BY <1>1, <2>1, <2>2, EndHeals
<1>4. CASE Digest(p) /\ bin # Absent
  <2>1. Return(p, job[p].rung, bin) /\ job[p].at = "digest"
    BY <1>4 DEF Digest, At
  <2>2. Healing(p) /\ job[p].up # Absent => job[p].rung = "cache" \/ (job[p].rung = "release" /\ bin = job[p].up)
    BY <2>1 DEF Healing
  <2> QED  BY <1>1, <2>1, <2>2, EndHeals
<1> QED  BY <1>2, <1>3, <1>4

\* A call is alone if nobody else is in one, and ends the solitude of those that are.
LEMMA CallHeals ==
  ASSUME IInv, HealInv, NEW p \in Procs, Call(p)
  PROVE  HealInv'
PROOF
<1>1. /\ ProvisioningTypeOK /\ Idle(p) /\ UNCHANGED <<program, host, incoming, bin, side>>
      /\ \A q \in Procs : job[q] \in Jobs
  BY DEF IInv, ProvisioningTypeOK, Call, fixed, files
<1>2. PICK solo : solo = \A r \in Procs : Idle(r)
  OBVIOUS
<1>3. job' = [q \in Procs |->
        IF q = p THEN [Fresh EXCEPT !.at = "look", !.alone = solo, !.up = Release(host).content]
        ELSE [job[q] EXCEPT !.alone = @ /\ Idle(q)]]
  BY <1>2 DEF Call
<1>4. job'[p].at = "look" /\ job'[p].alone = solo /\ job'[p].up = Release(host).content
  BY <1>3 DEF Fresh
<1>5. ASSUME NEW q \in Procs, q # p
      PROVE  /\ job'[q].at = job[q].at /\ job'[q].rung = job[q].rung /\ job'[q].got = job[q].got /\ job'[q].up = job[q].up
             /\ job'[q].alone = (job[q].alone /\ Idle(q))
  BY <1>1, <1>3, <1>5 DEF Jobs
<1>6. Solitary'
  BY <1>2, <1>4, <1>5 DEF Solitary, Idle
<1>7. Steady'
  <2>1. Release(host)' = Release(host)
    BY <1>1 DEF Release, from_release, verify_manifest, download, Nothing, Resolved
  <2> QED  BY <1>4, <1>5, <2>1 DEF HealInv, Steady, Idle
<1>8. ASSUME NEW q \in Procs PROVE Heals(q)'
  <2>1. CASE q = p
    BY <1>4, <2>1 DEF Heals, Healing, Holding, Idle
  <2>2. CASE q # p
    BY <1>5, <2>2 DEF HealInv, Heals, Healed, Idle
  <2> QED  BY <2>1, <2>2
<1> QED  BY <1>6, <1>7, <1>8 DEF HealInv

LEMMA HostHeals ==
  ASSUME IInv, HealInv, NEW h \in Hosts, HostChanges(h)
  PROVE  HealInv'
PROOF
<1>1. ProvisioningTypeOK /\ UNCHANGED <<program, incoming, bin, side>> /\ host' = h /\ \A q \in Procs : job[q] \in Jobs
  BY DEF IInv, ProvisioningTypeOK, HostChanges, fixed, files
<1>2. PICK new : new = Release(h).content
  OBVIOUS
<1>3. job' = [q \in Procs |-> [job[q] EXCEPT !.up = IF Idle(q) \/ @ = new THEN @ ELSE Absent]]
  BY <1>2 DEF HostChanges
<1>4. ASSUME NEW q \in Procs
      PROVE  /\ job'[q].at = job[q].at /\ job'[q].rung = job[q].rung /\ job'[q].got = job[q].got /\ job'[q].want = job[q].want
             /\ job'[q].alone = job[q].alone /\ job'[q].fd = job[q].fd /\ job'[q].shared = job[q].shared
             /\ job'[q].up = IF Idle(q) \/ job[q].up = new THEN job[q].up ELSE Absent
  BY <1>1, <1>3 DEF Jobs
<1>5. Solitary'
  BY <1>4 DEF HealInv, Solitary, Idle
<1>6. Steady'
  <2>1. Release(host)'.content = new
    BY <1>1, <1>2 DEF Release, from_release, verify_manifest, download, Nothing, Resolved
  <2> QED  BY <1>4, <2>1 DEF Steady, Idle
<1>7. ASSUME NEW q \in Procs PROVE Heals(q)'
  <2>1. Heals(q)
    BY DEF HealInv
  <2>2. CASE Idle(q)
    BY <1>4, <2>1, <2>2 DEF Heals, Healed, Idle
  <2>3. CASE ~Idle(q)
    BY <1>1, <1>4, <2>1, <2>3 DEF Heals, Healing, Idle
  <2> QED  BY <2>2, <2>3
<1> QED  BY <1>5, <1>6, <1>7 DEF HealInv

LEMMA HealInit == Init => HealInv
PROOF BY DEF Init, HealInv, Solitary, Steady, Heals, Idle, Fresh

LEMMA HealNext == IInv /\ HealInv /\ [Next]_vars => HealInv'
PROOF
<1> SUFFICES ASSUME IInv, HealInv, [Next]_vars PROVE HealInv'
  OBVIOUS
<1>1. ASSUME NEW p \in Procs, Call(p) \/ Crash(p) \/ Digest(p) PROVE HealInv'
  BY <1>1, CallHeals, DigestHeals
<1>2. ASSUME NEW p \in Procs, Reverify(p) PROVE HealInv'
  BY <1>2, ReverifyHeals, EvictHeals DEF Reverify
<1>3. ASSUME NEW p \in Procs, Resolve(p) PROVE HealInv'
  BY <1>3, ResolveHeals DEF Resolve
<1>4. ASSUME NEW p \in Procs, Install(p) PROVE HealInv'
  BY <1>4, OpenHeals, CopyHeals, ReplaceHeals, SideHeals DEF Install
<1>5. ASSUME NEW h \in Hosts, HostChanges(h) PROVE HealInv'
  BY <1>5, HostHeals
<1>6. CASE Rot \/ UNCHANGED vars
  <2>1. UNCHANGED <<program, host, job>> /\ ((\A p \in Procs : Idle(p)) \/ UNCHANGED <<incoming, bin>>)
    BY <1>6 DEF Rot, vars, fixed, files
  <2>2. Solitary' /\ Steady'
    BY <2>1 DEF HealInv, Solitary, Steady, Idle, Release, from_release, verify_manifest, download, Nothing, Resolved
  <2>3. ASSUME NEW p \in Procs PROVE Heals(p)'
    BY <2>1 DEF HealInv, Heals, Healed, Healing, Idle
  <2> QED  BY <2>2, <2>3 DEF HealInv
<1> QED  BY <1>1, <1>2, <1>3, <1>4, <1>5, <1>6 DEF Next, Step

\* provisioning.py (provision) and download-script.sh: whatever crashes, overlapping
\* calls and damage left in the cache, a call that runs alone while the release is
\* there ends with what the cache vouches for or with that release.
THEOREM CacheHeals == Spec => []SelfHeals
PROOF
<1>1. HealInv => SelfHeals
  BY DEF HealInv, Heals, Healed, SelfHeals
<1> QED  BY <1>1, HealInit, HealNext, Inductive, PTL DEF Spec

=============================================================================
