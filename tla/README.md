# Specifications of claude-shared-tooling

TLA+ models of the stateful parts of this repository, the TLC runs that check
them on small instances, and TLAPS proofs of what matters most for instances of
any size. The code is the reference: each definition is translated from the
lines `PROJECT.json` gives for it under `map`.

Contents: [inventory](#inventory) - [modules](#modules-and-how-they-correspond-to-the-code) -
[runs](#runs-and-bounds) - [fairness](#fairness) - [proofs](#proofs) -
[what the checks found](#what-the-checks-found) -
[not modelled](#what-is-not-modelled) - [plan](#plan)

## Inventory

The repository is a set of libraries and small tools. Most of them compute a
result from their arguments and keep nothing. The ones with state that outlives
a call, or that several processes share, are these.

### go/state - versioned documents and their lock

* State: a JSON document per path with a schema version; a lock file beside it,
  made with `O_CREATE|O_EXCL`, whose age is its modification time.
* Operations: `Read` (a missing or broken file is an empty document; a newer one
  is refused), `Write` (temporary file, fsync, rename), `WithLock`,
  `RegisterSource`, `SeenSource`, and the telemetry counters.
* Interaction: any number of processes, possibly of different builds, call
  `RegisterSource` on one file; `go/toolchain` keeps its result cache in such a
  document, under the same lock.
* Hard: a holder that dies leaves its lock file; waiters break one that is older
  than `staleLockAge`, and all removals are by path; two limits (30 s and 10 s)
  race; a build may be replaced by a newer one while another waits.
* Correct when: outside the two lapses a lock of this kind has (a holder slower
  than `staleLockAge`, a second removal of a stale file) callers exclude each
  other, an acknowledged registration stays, no build takes a newer document back
  and a call looks like one step; and always every call returns, and a lock file
  that has become stale is broken.

### go/ledger over go/docmirror - the findings register

* State: entries in memory, in a canonical JSON file and in a Markdown mirror.
* Operations: `Open`; `Add`, `Resolve`, `Retract`, `Recur`, each of which
  replaces both files; `List`, `Partition`, `Rollup`.
* Interaction: `persist` calls `docmirror.WritePair`, which writes the JSON,
  then the mirror, and removes the JSON if the mirror cannot be written; both
  writes go through `fsx.WriteAtomic`.
* Hard: a failure or crash between the two writes, a handle and two files that
  may all differ, ids derived from the number of entries, and sequences of legal
  calls.
* Correct when: a failed call does not change the handle's copy, what was
  acknowledged stays through failures and restarts, the two files agree unless a
  pair of writes was broken off, and the counts of `Rollup` and `Partition` agree.

### go/cost over go/transcript and go/roster - the cost index

* State: a SQLite database with a watermark per transcript, one row per billed
  turn and the dated rates seen; the transcripts themselves, which sessions
  append to all the time.
* Operations: `Ingest`; `Query`, `RateHistory`, `Reprice`, `Identity`.
* Interaction: `Ingest` reads the transcript twice, once with its own scanner for
  tool names and once through `transcript.Turns`; it prices a turn with the
  roster compiled into its build.
* Hard: the watermark is read before the write lock is taken, two ingests of one
  transcript may overlap, the last line may be half written, midnight may pass
  while a call waits, and two builds may carry different rates.
* Correct when: a turn is billed at most once and none is skipped, a call's rows
  appear together or not at all, stored rows do not change, the price of a past
  day is final, and an event carries its own turn's tool.

### go/toolchain - build, test and lint runs with a result cache

* State: a cache document (`go/state`) from target to content hash, policy and
  result; logs; the target directory itself, which runs write reports into.
* Operation: `Run`: hash the target, look the result up, run the tools, parse what
  they printed, write the log, save the result. Which tools, and how they are
  parsed, is each language adapter's own affair; the dispatch table declares what
  there is. The workflow adapter runs two rules of its own besides `actionlint`,
  one of them over a catalog of releases it fetches.
* Interaction: the tools run through `go/sysops`, whose capture keeps the first
  MiB of what they print; the cache is saved under `state.WithLock`.
* Hard: the target changes while the tools run; some inputs of a verdict are not
  in the hash; a tool may fail without a finding, find something and exit 0, or
  print more than is kept; a cache that cannot be written fails the run.
* Correct when: a success was earned by every tool of the check, by what was kept of
  its output, and is replayed only over the sources and policy it was earned under;
  entries of other targets survive a save; a verdict on a reference only gets worse
  by itself.

### go/git - merging, rebasing, re-signing

* State: the refs, backup refs and worktrees of a repository others write to.
* Operations: `Merge`, `Rebase`, `Resign`, `MoveRef`, `DeleteBranch`,
  `CreateBranch`, `WorktreeAdd`, `WorktreeRemove`, most of them with a dry run.
* Interaction: every operation is a sequence of git commands through `go/sysops`;
  several callers, each in a worktree of its own, share one set of refs.
* Hard: a ref moves between being read, backed up and moved; a command fails or
  the process dies in between; an abort discards a merge the caller had begun.
* Correct when: a head a branch is taken off is in its backup refs, a re-signed
  history is the old one commit by commit, and a call leaves a worktree that had
  nothing in progress with nothing in progress.

### tooling/release_transaction and plugin-foundation - releases and binaries

* State: a per-user cache of binaries, each with a digest sidecar; git tags and
  manifests.
* Operations: `provision` (cache, then the signed release, then a copy frozen
  into a commit), the judgement whether a change ships with a new version, the
  evidence of a transaction; `download-script.sh` installs the same way in shell.
* Interaction: any number of processes, without a lock, over one cache directory
  and a release host that may be away, wrong or not verifiable.
* Hard: binary and sidecar are two writes, processes share one `.incoming` file,
  an eviction may hit what another process has just installed, and a process may
  die anywhere.
* Correct when: an entry that passes re-verification holds bytes that were
  verified, a call hands out nothing else, and the cache heals itself.

### go/graph - dependency graphs and batching

* State: nodes in insertion order and two maps of edges, in memory.
* Operations: `AddNode`, `RemoveNode`, `AddDep`, `RemoveDep`; closures, layers,
  `TopoSort`, `DetectCycles`, trees, references by short form; `Batch`, which groups
  the nodes that may run at the same time; `PathDomain`, `NamespaceDomain` and the
  `Prover`, which decide whether two declared surfaces are disjoint.
* Hard: the two maps must agree after any history of edits; a pair of claims
  wrongly called disjoint gives two runs that collide; a round must admit someone.
* Correct when: every node is in one group after its dependencies' groups, the
  members of a group are independent and share no resource, no group leaves out
  a node it could hold, and `Batch` ends.

### go/compliance - floors, pauses and feedback

* State: two registers in files, release pauses and defects.
* Operations: `ApplyBelowFloor`, `ApplyUnmeasured`, `ResolveIfOpen`, load, save.
* Hard: sequences of measurements, and two registers saved one after the other.

### Parts without state of their own

`go/gate`, `go/bandcheck`, `go/adoption`, `go/agentcontract`, `go/githooks`,
`go/jsondoc`, `go/retrieve`, `go/schema`, `go/plugin-conform`,
`go/characterize`, `go/plugin-behavioral`, `go/webfetch`,
`go/clikit`, `go/logkit`, the Rust crates `bm25`, `facetquery`, `frontmatter`,
`clikit` and `logkit`, the guards and generators under `tooling/`,
`claude_tooling`, `scripts`, `shell`, `conformance`, `schemas` and the
workflows. They parse, scan, compare or render once per call;
`PROJECT.json` gives each its reason.

## Modules and how they correspond to the code

| Module | Models |
| --- | --- |
| `RegistryDoc` | the registry document and what one registration makes of it |
| `SourceRegistry` | the abstract registry: a registration is one step |
| `StateStore` | `WithLock` and `RegisterSource`, system call by system call |
| `StateStore_MC`, `StateStore_proofs` | its instances and its proofs |
| `LedgerEntries` | the entries, the accepted calls, `List`, `Partition`, `Rollup` |
| `FindingsRegister` | the abstract register: an accepted call is one step |
| `Ledger` | the handle, the two files, failures and crashes |
| `Ledger_MC`, `Ledger_proofs` | its instances and its proofs |
| `CostRows` | the database's rows, the rate history and what `Reprice` reads of it |
| `CostLedger` | the abstract index: a batch of lines is billed in one step |
| `CostStore` | `Ingest` against other ingests and growing transcripts |
| `CostStore_MC`, `CostStore_proofs` | its instances and its proofs |
| `Dispatch` | the dispatch table, its regeneration, and each adapter's own dispatch |
| `ToolOutput` | tools' exit statuses and findings, the bounded capture, every parser, `classifyStatus` |
| `WorkflowRules` | the workflow adapter's rules and the release catalog |
| `Toolchain` | `Run` and its cache, against edits, other runs, newer builds and the days |
| `Toolchain_MC`, `Toolchain_proofs` | its instance and its proofs |
| `GitObjects` | commits as trees of changes; ancestry, ranges, merges, rebases, re-signing |
| `Git` | the operations of `Repo`, git command by git command |
| `Git_MC`, `Git_proofs` | its instance; its theorems |
| `Surfaces`, `Surfaces_proofs` | claims, domains, the `Prover`, and their soundness |
| `Schedule` | the abstract schedule: what a sequence of batches promises |
| `Graph` | the graph's edits and `Batch`, candidate by candidate |
| `GraphOrder` | the graph's queries, as the code's loops compute them, and what they should be |
| `Graph_MC`, `Graph_proofs` | its instance and its proofs |
| `Provisioning` | `provision` and `download-script.sh` on one shared cache |
| `Provisioning_MC`, `Provisioning_proofs` | its instance and its proofs |

**StateStore.** `pc[p]` is where process `p` stands: `open`, `stat` and `break`
are the loop of `WithLock` before the open, before the staleness and deadline
tests, and before `os.Remove`; `read` and `write` are the function under the lock;
`release` and `unwind` are the deferred removal after a nil and an error.
Every system call is a step of its own, and so is the gap between `os.Stat` and
`os.Remove`. `lock` is the file with its creator and its age. No clock is kept:
`Tick` ages the lock file and the waiters, and both ages stop one past the limit
they are compared with, since the code asks only whether they are past it.
`file` is the document; a rename is one step because `fsx.WriteAtomic` makes it
one. A crash may come anywhere and leaves the lock file. A holder may take any time
and any number of waiters may race to break one file, so the lock does fail. Two history
variables say when: `gone` holds the waiters that are about to remove a stale file which
somebody else has removed since they found it, and `lapse` says that such a waiter took
another lock file (`"raced"`), or that a lock file grew stale while its owner ran `fn`
(`"overrun"`). A lapse lasts until a call begins while nobody else is in one. The
properties say what holds whenever no lapse lasts; that nothing else breaks the
lock is what they claim.

**Ledger.** `phase` is the handle's state and the next step of its call. `json`
and `mirror` hold the entries each file shows, `mem` the handle's document,
`next` the entries being written. `acked`, `torn` and `lost` are history: the entries
last reported to a caller, whether the last pair of writes was broken off between its two
files, and whether a process ended while its handle held the only copy of `acked`. Either
write may fail: `JSONFails` leaves both files, `MirrorFails` removes the JSON file as
`WritePair` does, or does not manage to. `faults` counts the broken pairs.
`RecurAgain` is `Recur` in a cycle already seen, which reports success and writes
nothing. `Exit` ends the process at any point; `Open` starts another. One handle is modelled because the
type is documented as not safe for concurrent use. Statements, citations and
timestamps do not influence any other state and are left out; a call they make
invalid is `Refuse`.

**CostStore.** `Ingest`, `ScanTools`, `Begin`, `Walk`, `Commit` are the points of
one call between which others run. The walk is one step: whole lines do not
change, and the rows it inserts are private to its transaction until the commit, so
reading the transcript piecemeal amounts to reading it when the walk meets its
end. `writer` is the write lock SQLite takes at `BEGIN IMMEDIATE`. `Fail` covers
every way a call ends without its commit, its process's death included. A turn
is its model and its tool; a line is a turn, blank, garbled (whole, but it never parses)
or torn (the half-written last one); a rate stands for a
price table and `NoRate` for a model the roster does not price; each process may
carry any roster. SQLite and the sessions that write transcripts are external:
they are modelled by how the code uses them.

**Toolchain.** `job[p].pc` is where a call of `Run` stands: `lookup` after the
hash, `run` before the tools, `lock`, `save` and `unlock` around `saveCache`'s read and
write. A directory is the contents of its sources and of the reports a unit test
leaves among them, because `ContentHash` covers both. A tool's result is its exit
status, what it found, and the part of it the capture kept; a finding is the level
its parser looks at, and the diagnostics of a run are the set of their severities,
since nothing compares their number with anything but 0: a parser that drops repeats
makes the same set. The order of a report's lines is kept where a parser depends on
it, in the text output of the Python tools (`pythonParse`). `Execute` takes any result its tools can give and runs it through the same parsers and
`fallbackDiagnostic`s the adapter does. The capture may cut any report that has a
finding: the parser then sees its beginning, or nothing of a report that is one JSON
document. `Clean`, which gives a verdict's history field `clean`, is written from the
exit statuses and what the kept findings mean, and not from the parsers; `edited` is the
other history field, that the sources were edited after the run had hashed them and before
its tools were done. Of `state.WithLock` the model keeps that the one lock file stays where
its owner dies, that whoever finds it stale removes it by its path (`BreakLock`), and that
whoever is done removes the one that is there by then; its ages are left to `StateStore`,
so any lock file may be found stale. `lapse` records that a running holder's file was
removed. A catalog is one page of at most `PageSize` releases and tags. `Dispatch` keeps three things apart that the code keeps apart: the table, the
grid it is regenerated from (`MatrixParity` is assumed as the code asserts it), and
the switches of the adapters, which `Run` follows.

**Git.** A commit is named by what it holds: a set of changes, its parents and its
signature; `past` is the set of its ancestors, which its parents determine. Each
caller has a `Repo` rooted at a worktree of its own, which nobody removes
(`CallsAssumption`). A branch that is checked out in a worktree is where that worktree's
`HEAD` is; a stopped rebase detaches it. `commitRange` is any list of the range with
parents first; `remap` is the pass over it, which needs that order. Every git command is one step that may
fail (`GitFails`, or the failing disjunct of `rebase` and `merge`), and `Die` may
come anywhere. `CommitByOthers` only adds commits: other people's rewrites would
only repeat what other calls of the package do; one of the instance's workloads puts
a branch back on a head it had before. Git is external: a rebase is one step that gives
one commit, or it stops, and the abort of a stopped one sets its branch back to where the
rebase began, as git does, wherever the branch is by then. An abort may not run at all,
because the context was cancelled; the history field `aborted` of `last` says so of a
call. A list of commits comes whole or is cut to its beginning (`Captured`), and a
`Resign` remembers in `head` and `cut` what it listed.
`CreateBranch` with `-f` takes a branch off its head without a backup; that is
what its caller asks for, and `RewritesAreBackedUp` says so. `DeleteBranch` goes
through `update-ref`, so it may delete a branch that is checked out elsewhere.

**Graph.** `order`, `deps` and `rdeps` are the fields of `Graph`, edges in the order
of their insertion. `Batch` takes one step for each candidate (`Skip`, `GroupFull`,
`Refused`, `Admit`) and one for the end of a round, with its locals `scheduled`,
`members`, `deferred` and `groups` as variables. The caller's surfaces and cap are
chosen when it begins. Nothing edits a graph while `Batch` runs over it: the type
is documented as safe for concurrent readers but not for mutation. A segment of a path claim is its text,
whether it holds a metacharacter, and the set of names it matches, so a pattern is
modelled by what it matches; `Reaches` says what a claim means and is the reference
`Relate` is compared with. Roots are compared as text, as the code does.
`GraphOrder` holds the queries as the code computes them. Each of its loops is a function
from the number of turns taken to the loop's locals (`pop`, `pass`, `walk` are one turn), over
`MaxTurns` turns, which is proved to be enough. The calls of `visit` that have not returned are
the `path`, with the dependency each looks at next.

**Provisioning.** `job[p].at` is where a call stands; the three steps `look`,
`sidecar`, `hash` are `_reverify_cache`, `evict` and `evictSide` the two unlinks,
`release` and `frozen` the rungs, `open` to `sideWrite` the system calls of
`_install`; `sideHash` is the script's, which digests the binary it finds before it
writes the sidecar. `fd` and `sfd` say where the file a process is writing is by now: a
staged file that another process renames goes on being written where it
was moved. What is fetched lands in a directory of the process's own, so a rung is one
step, and a verdict on a host is a function of what the call finds there (`from_release`,
`download`, `from_frozen`). A digest stands for the bytes it is of. Two copies into
one file may leave it torn. The script takes the same steps without staging and
without evicting.
`vouched` and `overlapped` are history; an overlap (two copies staged at once) is over
when nobody is in a call. Not modelled: a checkout whose frozen copy
changes, and I/O errors inside `_install`, which leave the files as a crash there
does. `Rot` damages the binary only while nobody runs.

## Runs and bounds

| Run | Instance | States | Shows |
| --- | --- | --- | --- |
| `StateStore_safety` | 3 processes, 2 builds, 1 ref, 2 consumers, 1 crash | 2.9 M | `HolderOwnsLock`, `LostOnlyInLapse`, `RegistryOnlyGrows`, and `RegistrySpec`: outside a lapse the abstract registry is implemented |
| `StateStore_live` | 3 processes of one build, 1 crash | 96 k | `CallReturns`, `StaleLockBroken` |
| `StateStore_race` | 3 processes of one build, 1 crash | - | `NoLostRegistration` fails |
| `StateStore_timeout` | as before, the lock file stale later than a waiter's deadline | - | `NoTimeoutOnDeadHolder` fails |
| `Ledger_safety` | 2 entries, 2 scores, 2 outcomes, 2 cycles, 2 broken pairs | 1.6 M | `AckedEntriesKept`, `MirrorAgrees`, `RollupAccountsForAll`, `HandleFollowsAcks`, `RegisterSpec` |
| `Ledger_mirror_failure` | as `Ledger_safety` | - | `AckedEntriesSurvive` fails |
| `CostStore_safety` | 2 processes, 2 transcripts, 2 lines, 2 days, 3 rosters | 2.6 M | `EveryTurnAccounted`, `PastRepriceStable`, `LedgerSpec` |
| `CostStore_tools` | 1 process, resting transcripts with blank lines | - | `ToolIsTheTurns` fails |
| `Toolchain_safety` | every request by one process, and pairs of requests by two; 2 sources, 2 reports, 2 days, 1 call each, a page of 2 tags | 816 k | `SuccessWasEarned`, `ReplayOfSource`, `EntriesSurvive`, `VerdictOnlyAges` |
| `Git_safety` | 2 callers, 3 branches, 3 worktree paths, 2 calls, 1 commit by others | 558 k | `RewritesAreBackedUp`, `ResignOnlySigns`, `CleanStaysClean` |
| `Graph_safety` | 3 nodes, up to 3 edges (2 when batched), 16 path claims and 4 name claims in pairs | 391 k | `EdgesMirror`, `OrderIsSound`, `CyclesNamed`, `TreesAreTrees`, `RefsHold`, `NoSharedResource`, `ImplementsSchedule`, `BatchEnds` |
| `Provisioning_safety` | 3 processes, 3 calls, 1 crash, 1 damage, 10 hosts, 3 frozen copies | 1.9 M | `EntryIsVouched`, `HandsOutVerified`, `SelfHeals` |

Why the bounds are enough for what the properties distinguish:

* Locks. A lost update needs a dead holder, a first and a second breaker: three
  processes and one crash. `StaleAge` and `LockTimeout` 0 in the safety run keep the
  ages the code tells apart, at the limit and past it, so that every file may be
  overrun or broken. In `StateStore_live` and `StateStore_race` `StaleAge` is 1: a file can be fresh too, and it
  is stale later than a waiter's deadline, as 30 s is later than 10 s; the timeout run
  keeps that distance in the proportion of the code. One ref suffices: registrations of
  different refs do not disturb each other except through the whole-document write, which two
  consumers of one ref show as well.
* Register. Two broken pairs are one to lose the file or tear it, and one to do so
  again on the way back. With two entries one can be changed while another is there to be
  lost, and the id of the second depends on the first. Two cycles let a cycle be
  revisited after another; two scores lie on both sides of a threshold, and
  `RollupAccountsForAll` tries every threshold that can tell two entries apart.
* Index. The two lines (`MaxLines` counts those of all transcripts) may be in one
  transcript, which gives two ingests of it overlapping ranges, or one in each, which
  lets two ingests proceed without a conflict while midnight passes.
* Toolchain. A replay needs two calls, here one of each process; a lost entry needs two
  processes, one of which breaks the other's lock. The two sources can be edited back
  and forth, and the reports change the hash without an edit. A tool prints up to two findings,
  which is the least that distinguishes an order and a cut in between; `SuccessEarned` is
  proved for any number.
* Git. One call against another, or against a commit, at every point between its
  git commands. The starting histories hold a merge commit with a parent outside
  the range, a signed range, and branches that conflict; one workload puts a branch back
  on the head it had before somebody's commit while the other caller re-signs or moves it.
* Graph. Three edges on three nodes make every cycle, a self-edge and two cycles through one
  node. Every pair of claims is compared by two of the nodes, in either order of
  insertion; the third gives a group somebody to leave out. The paths the claims
  are tried on are three names deep, one deeper than the claims themselves.
* Provisioning. Two copies overlap while a third process finds what they left; with three
  calls, one process may also see the cache twice. The hosts are one for each way an
  answer can fail.

The cost run has no tool names, which none of its properties look at. Deadlock is
checked in every run but two: in `Git_safety` and `Graph_safety` a history ends,
where the calls are used up and where `Batch`, the last call, has returned. Symmetry
is used over processes of the same build and over those of `Provisioning`
only (and not in the runs with liveness).

## Fairness

`FairStoreSpec` is used by `StateStore_live`: weak fairness of each
process's `Step` and of `Tick`. The operating system schedules a process that
has an instruction to run, and time passes; no process is obliged to call, crash
or be restarted, so `Call` and `CrashStore` have none. Strong fairness is not
assumed: a waiter that meets a held lock at every poll may never acquire it, and
then returns by its deadline. `CallReturns` excepts one waiter: one that whenever it looks
finds the file of a holder that is overrunning, breaks it, and loses the race for the
next one, since the code does not look at the deadline on that path (store.go:173-176).

`Graph`'s specification has weak fairness of `BatchStep`: a function that was called
runs to its end. No edit and no call is obliged to happen. The other specifications have no
fairness.

## Proofs

The modules whose names end in `_proofs` prove their theorems for every value of
the constants: any number of processes, refs, consumers, builds, scores, cycles,
nodes, edges, claims, hosts and contents, and all limits. The named assumptions on
the constants are all they use, and none of them restricts what the code may do: where
it allows a case in which a promise fails, the property names that case as its
exception. TLC checks the same assumptions in each instance.

**Lock and registry.** `HolderOwnsLock` is not inductive: a removal by path must be shown to
miss a holder. `LockInv` adds what keeps it so outside a lapse: a holder's lock file is not
past the limit (`HolderInv`), and a waiter about to remove one either has a file that is
past it, or is in `gone` and finds none unless it starts a lapse (`BreakerInv`). A lapse
ends only where nobody is in a call (`LapseLasts`), which is why the invariant holds
again afterwards (`LockExclusive`). On top of it, `DocInv` says, again outside a lapse, that
what a process read is what the file still holds when it writes (`WriterInv`), and that a
written but unacknowledged registration is in the file (`ReleaserInv`); `NothingLost`
and `OnlyGrows` follow from what one write then does (`WriteEffect`, `FileGrows`).
`Refinement` maps the rename to the abstract `Apply`, the release to `Return` or `Vanish`,
and every step of the lock protocol to a stutter.

**Register.** Nothing is assumed about which writes fail. `ChangesEffect` is the core lemma:
an accepted call leaves a well-formed register in which every earlier entry survives.
`AckedEntriesKept` is not inductive, because a broken pair may leave a JSON file that is
ahead of what was acknowledged; `AheadInv` adds that the file, while it is there, holds
what the handle does or is one accepted call ahead of it, and `KeptInv` that both continue
what was acknowledged. Each rename is then one accepted change of what the handle held,
and survival is transitive. The same facts give `Refinement`, where the register is the handle
while it is open and the file otherwise: a reported success is `Accept`, and so is an exit
that leaves the file one call ahead; a failed mirror is `LoseFile`, and an exit while
no file is left is `StartOver`, which the abstract register allows only while it is
`unfiled`. `Aligned` needs `PairInv`: what is being written is one accepted call, and
between the two writes the JSON holds it. `RollupTotal` is an argument about cardinalities
of a split, over thresholds the runs do not try.

**Surfaces and batches.** `RelateSound` is the heart: two claims a domain calls
disjoint reach no common resource. Its path half (`PathsSound`) splits on the three
rules, by text, by pattern and by prefix, and uses only `WellFormed`, which says
of a pattern that its segments match what the pattern does. `ProvedSymmetric` makes the
test independent of who is asked first. On it rest three invariants of `Batch`.
`EdgesMirror` needs that an edge is held once in each list, which `removeID`
preserves. `NoSharedResource` needs that each member was compared with all before it
(`Sided`). `BatchImplementsSchedule` maps each `CloseRound` to a `Take`; that nobody
was left out is not inductive by itself, so the last clause of `IInv` says it of the
walk so far: every ready node before its position is a member, or was refused by one,
or the group is full. `GraphTypeCorrect` and these need no bound on edges and no acyclicity.

**Graph queries.** A loop of `GraphOrder` is a function defined from its value a turn before;
`LoopRuns` says that such a function exists and `LoopKeeps` that what each turn keeps is
so at the end, both by well-founded induction over sets of numbers. `closure`: what is
on the stack or taken off it is reached, and a turn takes something off (`Pending`), so
`MaxTurns` empties it. `frontiers`: the layers so far are full (`Layering`), a pass
drains a node or is the last, and nodes that each wait for one of themselves lead to a
cycle (`EndlessIsCyclic`, from a node that reaches as few as any). `cyclesAmong`: each
turn takes a step of a finite set (`Taken`), and `Walking` says of the edges looked at that
their target is out of scope, done, or next on the path, or that their source's text
stands in a reported cycle. What is done then leads nowhere without a name
(`Grounded`): among any nodes that are done, one is named or depends on none of
them. A node on a cycle shares its tangle, in which every node has a dependency, so one of
them is named. A name is a text, because the walk tells cycles apart by their texts:
`TanglesAlwaysNamed` assumes that no two ids have one (`DistinctTexts`), which `IDScheme`
asks nobody to ensure; `TreesAlwaysTrees`, `OrderAlwaysSound` and `RefsNeverMove` assume
nothing. `RefsHold` needs that a reference that resolves has one candidate (`Sole`).

**Provisioning.** Nothing is assumed. For `EntryIsVouched`, `SideVouched` says
that only verified digests are ever written, and the ladder's own digest is one it verified. The
script digests whatever it finds, so its part needs `BinVouched`: past a hit or a
rename the binary is verified or gone. That is inductive only together with
`OneStages`, `CopyKnown` and `StagedWhole`, which hold until two copies are staged at
once (`overlapped`), which the script never does. `HandsOutCorrect` needs besides that what
is staged or installed is verified, absent or torn (`BytesKnown`): what a call finds there
and hands out is therefore verified or torn, and torn only in an overlap. `CacheHeals` is an
induction over the rungs of the ladder: while a call that
is marked alone is running no other does (`Solitary`), the release it saw when it began
is still the host's (`Steady`), and `Healing` says for each step what it finds there:
what its own last step left in `.incoming` and in the cache, from which it can only end with an
entry that the cache vouches for or with that release. Nothing is said of what it began
with, which may be torn, unvouched or damaged.

**Cost index.** Nothing is assumed about the transcripts, rosters or days, and
`MaxLines` is any number. `Turns`, the fold over a transcript's lines, is a recursive
function; what the proofs need of it (it is a sequence of turns, a line appended only
adds to it) is proved by well-founded induction over sets of numbers, since the
library's induction theorem takes an operator. `TurnsAccounted` is not inductive: the
watermark a call read before it had the lock may be stale. `IInv` adds that one call
at a time is past `Begin` and holds `writer` (`OneWriter`), that its batch accounts
for every line from a mark at or below the stored one to its end, with new events
for lines above it only (`Marked`, `Staged`), and that a line stored while torn is
stored as errored, so its completion changes nothing (`TornAccounted`). A line that
never parses is errored in the same way. `PastStable` needs `Dated`: stored
rates are no later than the day of the call that holds the lock, because the date
is read under it. `Refinement` maps `Commit` to `Bill` and all else to a stutter.

**Toolchain.** `SuccessEarned` has two halves. The parsers: for each adapter and each
check, diagnostics that pass leave no tool that objects in what was kept of its report
(`Shown`, `ResultsShown`; `goNoObjection`, `cargoNoObjection` and the others). That is a case split over the tools, except in
`pythonAgrees`, which is an induction over the lines of a report: a rule
header waits for its location until one comes (`RuleWaits`), and a diagnostic once
made stays (`ParseGrows`). The cache: `Sound` says of a result that it is clean if it
is a success and was computed for the sources in its hash, and `VerdictsSound` says
it of the entries, of every call and of the document a call has read to write it back:
a stale document holds sound entries too, so neither verdict theorem depends on the lock.
`EntriesKept` does: `Owner` says that outside a lapse a holder's lock file is its own, and
who is about to save has the document as it stands. `ReplaySound` follows from
`VerdictsSound`: `edited` is set of every run that an edit overtakes. `CurrencyAges` compares the
verdicts on two catalogs by their highest bare versions, which exist by induction on
finite sets and can only rise (`CatalogSteps`), while the tags fit the page; it uses `TagsAssumption`, that no two bare
names of the template repository stand for one version.

**Git.** `RewritesKept` rests on `Saved`: from its backup to its update a call's old head
is in the backup refs. A compare-and-swap needs no more. A rebase compares nothing, so
`Replays` adds that the branch is checked out in the caller's worktree, or is the one the
rebase stopped on: the only branch it moves is its own, and what it takes it off is the head
it read, which is saved, or one that came later, which is the exception. Each way a
branch moves is one of five (`RefsStep`: a compare-and-swap, a creation, forced or not, a
rebase, the abort of one, an extension), and by git's own rules a branch is checked out in one
worktree (`Apart`, kept since a stopped rebase still holds its branch, `Home`).
`WorktreesStayClean` rests on `Tidy`: a call's worktree is as the call found it, or holds the
one merge or rebase that the call is about to abort; the abort restores it, or did not run
(`Aborted`).

`ResignsSign` has two halves. The first is about commits alone. A history is finite and
without cycles (`IsHistory`, assumed of the starting branches and of what a caller hands to
`MoveRef`, and kept by every commit, `NewHistory`), so its commits can be listed parents first
(`OrderExists`) and `commitRange` is such a list. Hence the pass has met every parent in the
range when it comes to a child (`RemapIs`), and the ancestors of the new head are the
new selves of the old one's (`AllRenewed`); `ResignSigns` follows. A list that was cut is the
beginning of one, and lacks no ancestor in the range of any commit it holds (`Beginning`),
which is all the pass needs. The second half is about the two reads: what a call lands is
the re-signed history of the last commit it listed (`Resigned`, `LandsSigned`), and that
commit is the head it compares with unless the list was cut or read from another head, the
two exceptions of `ResignOnlySigns`.

**Only model-checked.** The liveness properties: fairness and `ENABLED` are
beyond the prover.

## What the checks found

Each is listed with its quotation under `findings`.

* `StateStore_race`: two waiters break the same dead holder's lock; the second
  removes the lock file the first has just made, and an acknowledged
  registration is overwritten.
* `StateStore_timeout`: a lock file is stale after 30 s and a waiter gives up after 10 s, so
  a caller that comes soon after a crash times out on a holder that no longer exists.
* `Ledger_mirror_failure`: a failed mirror write removes the JSON register with
  all its earlier entries. `Ledger_safety` shows what still holds: while the
  process lives, its next successful change writes everything back.
* `CostStore_tools`: after a blank line, the tool names are joined to other turns.

Others were met while modelling. They have no run of their own. Where a property
depends on one, it names the case as an exception and is violated without it; only
an unremovable lock file is switched off by a constant.

* `go/state`: a stale lock file that cannot be removed makes `WithLock` loop past
  its deadline (`StateStore_live` has `Removable` TRUE; `CallReturns`).
* `go/docmirror`: a pair that was broken off leaves a mirror that shows other entries than
  the JSON, and `Recur` in a cycle already seen reports success over it (`torn` in
  `MirrorAgrees`).
* `go/cost`: the second rate of a model on one day is billed and never recorded
  (`EveryRateQueryable` in `CostStore`); the identity report counts the fixed cost once.
* `go/toolchain`: an edit during a run stores the new content's verdict under the
  old content's hash (`edited` in `ReplayOfSource`); a scanner that exits 0 on
  findings passes when it prints more than is kept (`Clean` in `SuccessWasEarned` judges
  what was kept); two calls that break one stale lock may drop an entry
  (`lapse` in `EntriesSurvive`); a catalog is one page of 100 (`PageSize` in
  `VerdictOnlyAges`); the report a unit test leaves in the directory changes the hash
  its result is looked up by, so an unchanged target is tested again
  (`OwnReportKeepsEntry` in `Toolchain`, which fails in this instance); a cache that
  cannot be written fails a run that passed; three smaller disagreements with comments.
* `go/git`: `Rebase` moves a branch without compare-and-swap, and its abort puts one back
  that others have moved meanwhile (`Overruns` in `RewritesAreBackedUp`); a cancelled
  context leaves a merge unaborted (`aborted` in `CleanStaysClean`); a long range is
  re-signed without its newest commits (`cut` in `ResignOnlySigns`); a branch that moved
  and was put back while it is re-signed gets the history it was taken off
  (`head` in `ResignOnlySigns`); a merge aborts the caller's own.
* `go/graph`: a claim is cleaned before it is searched for `..`, so a pattern in front of a
  `..` is decided although the doc calls it undecidable.
* `provision`: a frozen copy shadows the release once it is cached; overlapping
  copies may hand out bytes nobody verified (`HandsOutVerified`); an eviction makes
  another call raise.

## What is not modelled

Within the modelled parts:

* `go/state`: the telemetry counters, non-empty migration chains, and an existing
  document that cannot be read (`Read` treats it as empty).
* `go/ledger`: two handles on one ledger; rendering.
* `go/cost`: line lengths (the tool scan's 1 MiB limit is one of the reasons of
  `Fail`), money arithmetic, attribution, `Query` and `Identity`.
* `go/toolchain`: argument vectors, configuration paths, logs, the texts and places
  of diagnostics, the bats tag filter, `VerifyBinaryParity`, a catalog from a file.
* `go/git`: messages, identities and dates, the push command, `--rebase-merges`.
* `go/graph`: payloads and error texts; the glob syntax itself (a pattern is what it
  matches).
* `tooling/release_transaction`: manifest rendering and parsing, `changed.py`,
  `contract.py`, `evidence.py`, `gitstate.py`. `plugin-foundation`:
  `forced-use-hook.sh` and the registry of governed commands.

Of the other components `go/compliance` is planned; the rest keep no state between
calls, and `PROJECT.json` gives each its reason.

## Plan

1. `PauseRegister`: sequences of measurements against an abstract pause per
   invariant and model, and a crash between the two registers' saves.
2. The verdicts of `changed.py` as operators over pairs of trees.
3. A variant of `ReadDoc` in which an existing document cannot be read.
