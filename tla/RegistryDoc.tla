---------------------------- MODULE RegistryDoc ----------------------------
(***************************************************************************)
(* The source-registry document of go/state: its refs, what one            *)
(* registration does to it, and who registers what.  SourceRegistry and    *)
(* StateStore share these definitions.                                     *)
(***************************************************************************)
EXTENDS Naturals

CONSTANTS
  Procs,      \* callers of RegisterSource
  Refs,       \* the source refs a registry file can hold
  Consumers,  \* the consumer names
  Requests,   \* the (ref, consumer, at) arguments callers pass
  Known       \* Known[p]: RegistrySchemaVersion of the build p runs

ASSUME RequestsAssumption ==
  Requests # {} /\ Requests \subseteq [ref : Refs, consumer : Consumers, at : Nat]
ASSUME KnownAssumption == Known \in [Procs -> Nat]

Entry == [first : Nat, consumers : SUBSET Consumers, last : Nat]
Document == [version : Nat, refs : [Refs -> Entry]]

\* A ref no consumer has registered: it has no key in the document.
Unseen == [first |-> 0, consumers |-> {}, last |-> 0]
Seen(doc, r) == doc.refs[r].consumers # {}

\* The arguments of a process that has called nothing yet.
AnyRequest == CHOOSE q \in Requests : TRUE

\* An absent file, and what Read makes of one: no version and no refs.
NoDocument == [version |-> 0, refs |-> [r \in Refs |-> Unseen]]

\* The (ref, consumer) pairs a document records.
Registered(doc) ==
  {rc \in Refs \X Consumers : rc[2] \in doc.refs[rc[1]].consumers}

\* A ref's entry after q: the consumer joins the others, first_seen is that of
\* the ref's first registration, last_seen is q's.
Seeing(e, q) ==
  [first     |-> IF e.consumers = {} THEN q.at ELSE e.first,
   consumers |-> e.consumers \cup {q.consumer},
   last      |-> q.at]

\* Mutation: the version is not stamped.
UnstampedRegistering(doc, q, v) ==
  [refs |-> [doc.refs EXCEPT ![q.ref] = Seeing(@, q)]]

\* The document after q is registered by a build that knows version v.
Registering(doc, q, v) ==
  [version |-> v,
   refs    |-> [doc.refs EXCEPT ![q.ref] = Seeing(@, q)]]
=============================================================================
