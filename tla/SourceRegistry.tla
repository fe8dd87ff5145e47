--------------------------- MODULE SourceRegistry ---------------------------
(***************************************************************************)
(* What go/state promises the callers of RegisterSource: a registry file   *)
(* that several processes share as if each registration were one step.     *)
(*                                                                         *)
(* A call is invoked, is applied to the file as it then stands or is       *)
(* abandoned without a trace, and returns.  A process may crash during its *)
(* call: the registration has then either happened or not, never half.     *)
(* There is no lock here, no temporary file and no clock; StateStore is    *)
(* shown to implement this module.                                         *)
(***************************************************************************)
EXTENDS RegistryDoc

VARIABLES
  file,   \* the registry document: its schema version and its refs
  call,   \* call[p]: where p's current call stands
  req,    \* req[p]: the arguments of p's call
  acked   \* history: the (ref, consumer) pairs of the calls that returned nil

vars == <<file, call, req, acked>>

TypeOK ==
  /\ file \in Document
  /\ call \in [Procs -> {"idle", "pending", "applied"}]
  /\ req \in [Procs -> Requests]
  /\ acked \subseteq Refs \X Consumers

Init ==
  /\ file = NoDocument
  /\ call = [p \in Procs |-> "idle"]
  /\ req = [p \in Procs |-> AnyRequest]
  /\ acked = {}

Finish(p) ==
  /\ call' = [call EXCEPT ![p] = "idle"]
  /\ req' = [req EXCEPT ![p] = AnyRequest]

Invoke(p) ==
  /\ call[p] = "idle"
  /\ call' = [call EXCEPT ![p] = "pending"]
  /\ \E q \in Requests : req' = [req EXCEPT ![p] = q]
  /\ UNCHANGED <<file, acked>>

\* The registration happens, unless a newer build has rewritten the file.
Apply(p) ==
  /\ call[p] = "pending"
  /\ file.version <= Known[p]
  /\ file' = Registering(file, req[p], Known[p])
  /\ call' = [call EXCEPT ![p] = "applied"]
  /\ UNCHANGED <<req, acked>>

\* The call returns nil.
Return(p) ==
  /\ call[p] = "applied"
  /\ acked' = acked \cup {<<req[p].ref, req[p].consumer>>}
  /\ Finish(p)
  /\ UNCHANGED file

\* The call returns an error, or its process crashes.
Vanish(p) ==
  /\ call[p] \in {"pending", "applied"}
  /\ Finish(p)
  /\ UNCHANGED <<file, acked>>

Next == \E p \in Procs : Invoke(p) \/ Apply(p) \/ Return(p) \/ Vanish(p)

Spec == Init /\ [][Next]_vars
=============================================================================
