------------------------------ MODULE Toolchain ------------------------------
(***************************************************************************)
(* go/toolchain Run: concurrent runs over one target directory that others *)
(* edit, with the result cache, saved under its lock, and the release      *)
(* catalog the workflow rules read.                                        *)
(*                                                                         *)
(* A directory is the contents of its sources and of the reports that runs *)
(* write among them; the content hash is the pair.                         *)
(***************************************************************************)
EXTENDS ToolOutput, WorkflowRules

CONSTANTS
  Procs,          \* processes that call Run
  NoProc,         \* the holder of the free lock
  Workloads,      \* which requests each process makes, one choice per behaviour
  Sources,        \* the contents the sources take
  Files,          \* Files[s]: the files of s, each a record of what the listings look at
  Tags,           \* the tags the template repository may get
  Reports,        \* the contents a report may have
  NoReport,       \* no report was written yet
  MaxFindings,    \* bound: findings per tool result
  MaxDay,         \* bound: days
  MaxRuns         \* bound: calls of Run by one process

ASSUME BoundsAssumption == {MaxFindings, MaxDay, MaxRuns} \subseteq Nat
ASSUME MatrixParity == VerifyMatrixParity
ASSUME TablesAssumption ==
  /\ Workloads \subseteq [Procs -> SUBSET Requests]
  /\ DOMAIN Files = Sources
  /\ NoReport \notin Reports
  /\ NoProc \notin Procs

\* A tag as it appears: its name, and the version the name parses to.  No two
\* bare names of the repository stand for one version (v1.2.0 and v1.02.0).
Versions == [major : Nat, minor : Nat, patch : Nat]
TagRecords ==
  [name : {t.name : t \in Tags}, isBare : BOOLEAN, version : Versions,
   hasRelease : BOOLEAN, published : Nat, commit : Nat]
ASSUME TagsAssumption ==
  /\ Tags \subseteq TagRecords
  /\ \A t, u \in Tags : t.isBare /\ u.isBare /\ t.version = u.version => t.name = u.name

VARIABLES
  dir,     \* the target directory: its sources and reports
  day,     \* the date
  tags,    \* the template repository's tags
  cache,   \* the cache document: its entries by id, and whether a newer build wrote it
  lock,    \* whose lock file is there, if any
  lapse,   \* history: a running holder's lock file was taken, and somebody held since
  job,     \* job[p]: p's call
  last,    \* last[p]: what p's last call returned
  runs,    \* runs[p]: calls p has begun
  makes    \* makes[p]: the requests p makes

world == <<dir, day, tags, makes>>
locking == <<lock, lapse>>
vars == <<world, cache, locking, job, last, runs>>

\* A verdict is RunResult, with four history fields: the sources and policy it
\* was computed for, whether the sources were edited after the run hashed them,
\* and whether every tool agreed that the check passes.
Verdicts ==
  [status : {"success", "gate_negative"}, src : Sources, allow : BOOLEAN, edited : BOOLEAN, clean : BOOLEAN]
Failed == [status |-> "error"]   \* Run returned an error
None == [status |-> "none"]     \* no call yet, or it died
Idle == [pc |-> "idle"]

ContentHash == <<dir.src, dir.report>>
Hashes == Sources \X (Reports \cup {NoReport})

\* A call holds what its steps so far have found out; an entry is what the
\* document keeps of a verdict.
Jobs ==
  {Idle}
    \cup [pc : {"lookup", "run"}, r : Requests, allow : BOOLEAN, hash : Hashes, edited : BOOLEAN]
    \cup [pc : {"lock"}, r : Requests, hash : Hashes, result : Verdicts]
    \cup [pc : {"unlock"}, r : Requests, result : Verdicts \cup {Failed}]
SavingJobs(docs) == [pc : {"save"}, r : Requests, hash : Hashes, result : Verdicts, doc : docs]
Entries == [hash : Hashes, result : Verdicts]
IsDoc(doc) == DOMAIN doc \subseteq Requests /\ doc \in [DOMAIN doc -> Entries]
IsJob(j) == j \in Jobs \/ (j.pc = "save" /\ j \in SavingJobs({j.doc}) /\ IsDoc(j.doc))

Init ==
  /\ \E s \in Sources : dir = [src |-> s, report |-> NoReport]
  /\ day = 0 /\ tags = {}
  /\ cache = [newer |-> FALSE, entries |-> <<>>]
  /\ lock = NoProc /\ lapse = FALSE
  /\ job = [p \in Procs |-> Idle]
  /\ last = [p \in Procs |-> None]
  /\ runs = [p \in Procs |-> 0]
  /\ makes \in Workloads

At(p, pc) == job[p].pc = pc
Return(p, outcome) == job' = [job EXCEPT ![p] = Idle] /\ last' = [last EXCEPT ![p] = outcome]

(***************************************************************************)
(* Run.                                                                    *)
(***************************************************************************)
\* An argv that Command refuses ends the call before anything is read.
Begin(p) ==
  /\ At(p, "idle")
  /\ runs[p] < MaxRuns /\ runs' = [runs EXCEPT ![p] = @ + 1]
  /\ \E r \in makes[p], allow \in BOOLEAN :
       IF Subprocess(r.language, r.check) /\ Spawned(r) = <<>>
       THEN Return(p, Failed)
       ELSE /\ job' = [job EXCEPT ![p] = [pc |-> "lookup", r |-> r, allow |-> allow, hash |-> ContentHash, edited |-> FALSE]]
            /\ UNCHANGED last
  /\ UNCHANGED <<world, cache, locking>>

\* Mutation: an entry is replayed whatever policy it was classified under.
HitAnyPolicy(p) ==
  /\ ~cache.newer
  /\ job[p].r \in DOMAIN cache.entries
  /\ cache.entries[job[p].r].hash = job[p].hash

\* A document of a newer build is a miss.
Hit(p) ==
  /\ ~cache.newer
  /\ job[p].r \in DOMAIN cache.entries
  /\ LET e == cache.entries[job[p].r]
     IN  e.hash = job[p].hash /\ e.result.allow = job[p].allow

lookupCache(p) ==
  /\ At(p, "lookup")
  /\ IF Hit(p) THEN Return(p, cache.entries[job[p].r].result)
     ELSE job' = [job EXCEPT ![p].pc = "run"] /\ UNCHANGED last
  /\ UNCHANGED <<world, cache, locking, runs>>

\* The tools whose exit status does not tell that they found something.
SucceedsOnFindings == {"gofmt", "goimports", "govulncheck", "semgrep", "cargo llvm-cov nextest"}

\* What the tools answer: one result each.  A shell check without files spawns none.
discoverShellFiles(files) ==
  {f \in files : ~f.git /\ ~excludedFromTracked(f) /\ (f.ext = "sh" \/ (f.ext = "" /\ f.shebang))}
discoverBatsFiles(files) == {f \in files : ~f.git /\ f.ext = "bats"}
Listed(r) ==
  r.language = "shell" =>
    IF r.check = "test" THEN discoverBatsFiles(Files[dir.src]) # {}
    ELSE discoverShellFiles(Files[dir.src]) # {}
Answers(r) ==
  LET tools == ToSet(Spawned(r))
      n == IF Cardinality(tools) > 1 THEN 1 ELSE MaxFindings
      of(tool) == {a \in Results(tool, n) : a.cut => a.exit # 0 \/ tool \in SucceedsOnFindings}
  IN  {t \in [tools -> UNION {of(tool) : tool \in tools}] : \A tool \in tools : t[tool] \in of(tool)}

\* The catalog as the run finds it: one of its fetches may be refused.
Catalogs ==
  LET n == 2 + Cardinality(tags)
      answers(bad) == [i \in 1 .. n |-> [status |-> IF i = bad THEN 403 ELSE 200, quotaLeft |-> TRUE]]
  IN  {apiCatalog(answers(bad), page) : bad \in 0 .. n, page \in Listings(tags)}

\* The diagnostics of the whole check.
Findings(r, t, catalog) ==
  IF ~Listed(r) THEN {}
  ELSE IF r.language # "workflow" THEN Diagnostics(r, t)
  ELSE LET bodies == enumerateWorkflowBodies(Files[dir.src])
       IN  IF bodies = {} THEN {}
           ELSE Diagnostics(r, t) \cup ruleDiagnostics(bodies, catalog, day)

\* The history of a verdict: whether no tool objects to a pass.  Written from
\* what the tools mean, for SuccessWasEarned, not from the parsers.  Of output
\* that was cut at the capture limit it is what was kept that counts, and the
\* exit status; a cut bandit report is a warning.
Hard(tool) ==
  CASE tool \in {"go build", "gofmt"} -> {"unformatted", "position"}
    [] tool \in {"golangci-lint", "staticcheck"} -> {"other"}
    [] tool \in {"gosec", "bandit"} -> {"high", "medium"}
    [] tool \in {"cargo build", "cargo fmt", "cargo clippy", "cargo check", "cargo bench", "cargo deny"} ->
         {"error", "testFailed"}
    [] tool \in {"uv build", "ruff format", "ruff check", "mypy"} -> {"mypyError"}
    [] tool = "shellcheck" -> {"error", "warning"}
    [] tool = "semgrep" -> {"ERROR", "WARNING"}
    [] OTHER -> Native(tool)
Soft(tool) == Native(tool) \cap
  CASE tool \in {"gosec", "bandit"} -> {"low"}
    [] tool = "shellcheck" -> {"info", "style"}
    [] tool = "semgrep" -> {"INFO"}
    [] tool \in {"uv build", "ruff format", "ruff check", "mypy"} -> {"mypyWarning"}
    [] OTHER -> {"warning"}
RuleWithPlace(f) == \E i, j \in DOMAIN f : i < j /\ f[i] = "header" /\ f[j] = "location"
Tolerated(r, tool, a, allow) ==
  \/ a.exit = 0 \/ tool = "goimports"
  \/ <<tool, a.exit>> \in {<<"checkbashisms", 4>>, <<"pytest", 5>>}
  \/ allow /\ ~Subprocess(r.language, r.check) /\ ToSet(a.seen) \cap Soft(tool) # {}
Agrees(r, tool, a, allow) ==
  \/ /\ ToSet(a.seen) \cap Hard(tool) = {}
     /\ ~allow => ToSet(a.seen) \cap Soft(tool) = {}
     /\ ~RuleWithPlace(a.seen)
     /\ Tolerated(r, tool, a, allow)
  \/ tool = "bandit" /\ a.cut /\ allow
NoObjection(r, t, allow) == \A tool \in DOMAIN t : Agrees(r, tool, t[tool], allow)
Clean(r, t, allow) ==
  \/ ~Listed(r)
  \/ r.language = "workflow" /\ enumerateWorkflowBodies(Files[dir.src]) = {}
  \/ /\ NoObjection(r, t, allow)
     /\ r.language = "workflow" =>
          \A f \in enumerateWorkflowBodies(Files[dir.src]) :
            f.excludedBasename \/ ~parseWorkflowBody(f).banned

Verdict(j, t, catalog) ==
  [status |-> classifyStatus(j.r, t, Findings(j.r, t, catalog), j.allow),
   src |-> dir.src, allow |-> j.allow, edited |-> j.edited, clean |-> Clean(j.r, t, j.allow)]

\* The tools run; a unit test leaves its report in the directory.
Execute(p) ==
  /\ At(p, "run")
  /\ Spawned(job[p].r) # <<>>
  /\ \E t \in Answers(job[p].r), catalog \in Catalogs :
       /\ job[p].r.language = "workflow" => t["git ls-files"].exit = 0
       /\ job' = [job EXCEPT ![p] = [pc |-> "lock", r |-> @.r, hash |-> @.hash,
                                     result |-> Verdict(@, t, catalog)]]
  /\ IF WritesReport(job[p].r) /\ Listed(job[p].r)
     THEN \E report \in Reports : dir' = [dir EXCEPT !.report = report]
     ELSE UNCHANGED dir
  /\ UNCHANGED <<day, tags, makes, cache, locking, last, runs>>

\* An adapter without the check, a tool that does not start or is timed out, a
\* listing that fails, or a log that cannot be written.
ExecuteFails(p) ==
  /\ At(p, "run")
  /\ Return(p, Failed)
  /\ UNCHANGED <<world, cache, locking, runs>>

(***************************************************************************)
(* saveCache: a read-modify-write of the document under state.WithLock,    *)
(* whose steps StateStore models one by one.  Of that lock this is kept:   *)
(* the lock file is one for all, it stays where its owner dies, whoever    *)
(* finds it stale removes it by its path, and whoever is done removes the  *)
(* one that is there by then.  Ages are left out: a file may be stale.     *)
(***************************************************************************)
Holding(p) == At(p, "save") \/ At(p, "unlock")

\* Mutation: the document is read without the lock.
LockSharedAndRead(p) ==
  /\ At(p, "lock")
  /\ ~cache.newer
  /\ job' = [job EXCEPT ![p] = [pc |-> "save", r |-> @.r, hash |-> @.hash, result |-> @.result,
                                doc |-> cache.entries]]
  /\ UNCHANGED <<world, cache, locking, last, runs>>

\* A document of a newer build is refused.  A lapse is over if nobody holds.
LockAndRead(p) ==
  /\ At(p, "lock")
  /\ lock = NoProc /\ lock' = p
  /\ lapse' = (lapse /\ \E q \in Procs : Holding(q))
  /\ job' = [job EXCEPT ![p] = IF cache.newer THEN [pc |-> "unlock", r |-> @.r, result |-> Failed]
                               ELSE [pc |-> "save", r |-> @.r, hash |-> @.hash, result |-> @.result,
                                     doc |-> cache.entries]]
  /\ UNCHANGED <<world, cache, last, runs>>

\* p removes the lock file that is there: a lapse if its owner is another that
\* still runs.
RemoveLock(p) ==
  /\ lock' = NoProc
  /\ lapse' = (lapse \/ (lock \in Procs \ {p} /\ Holding(lock)))

\* A dead owner's, one that takes too long, or a successor to the one that was
\* found stale.
BreakLock(p) ==
  /\ At(p, "lock") /\ lock # NoProc
  /\ RemoveLock(p)
  /\ UNCHANGED <<world, cache, job, last, runs>>

Save(p) ==
  /\ At(p, "save")
  /\ LET j == job[p]
         entry == [hash |-> j.hash, result |-> j.result]
     IN  /\ cache' = [newer |-> FALSE,
                      entries |-> [r \in DOMAIN j.doc \cup {j.r} |-> IF r = j.r THEN entry ELSE j.doc[r]]]
         /\ job' = [job EXCEPT ![p] = [pc |-> "unlock", r |-> j.r, result |-> j.result]]
  /\ UNCHANGED <<world, locking, last, runs>>

WriteFails(p) ==
  /\ At(p, "save")
  /\ job' = [job EXCEPT ![p] = [pc |-> "unlock", r |-> @.r, result |-> Failed]]
  /\ UNCHANGED <<world, cache, locking, last, runs>>

\* The deferred os.Remove, and saveCache returns: after a failure the verdict
\* is lost with the error.
Unlock(p) ==
  /\ At(p, "unlock")
  /\ RemoveLock(p)
  /\ Return(p, job[p].result)
  /\ UNCHANGED <<world, cache, runs>>

\* The cache directory or the lock file cannot be made, or the lock times out.
LockFails(p) ==
  /\ At(p, "lock")
  /\ Return(p, Failed)
  /\ UNCHANGED <<world, cache, locking, runs>>

\* Without a CacheDir nothing is looked up or saved.
ReturnUncached(p) ==
  /\ At(p, "lock")
  /\ Return(p, job[p].result)
  /\ UNCHANGED <<world, cache, locking, runs>>

\* The process dies, and its lock file stays.
Dies(p) ==
  /\ ~At(p, "idle")
  /\ Return(p, None)
  /\ UNCHANGED <<world, cache, locking, runs>>

(***************************************************************************)
(* The world around.                                                       *)
(***************************************************************************)
Edit ==
  /\ \E s \in Sources \ {dir.src} : dir' = [dir EXCEPT !.src = s]
  /\ job' = [p \in Procs |-> IF At(p, "lookup") \/ At(p, "run") THEN [job[p] EXCEPT !.edited = TRUE] ELSE job[p]]
  /\ UNCHANGED <<day, tags, makes, cache, locking, last, runs>>
\* The catalog and its clock move where a process reads them.
CatalogUsed == \E p \in Procs : \E r \in makes[p] : r.language = "workflow" /\ Spawned(r) # <<>>
Midnight ==
  /\ CatalogUsed
  /\ day < MaxDay
  /\ day' = day + 1
  /\ UNCHANGED <<dir, tags, makes, cache, locking, job, last, runs>>
Tag ==
  /\ CatalogUsed
  /\ \E t \in Tags : /\ \A u \in tags : u.name # t.name
                     /\ tags' = tags \cup {[t EXCEPT !.commit = day]}
  /\ UNCHANGED <<dir, day, makes, cache, locking, job, last, runs>>
Release ==
  /\ CatalogUsed
  /\ \E t \in tags : /\ ~t.hasRelease
                     /\ tags' = (tags \ {t}) \cup {[t EXCEPT !.hasRelease = TRUE, !.published = day]}
  /\ UNCHANGED <<dir, day, makes, cache, locking, job, last, runs>>
\* A newer build rewrites the document, under the lock that it takes and leaves.
NewerBuild ==
  /\ ~cache.newer /\ lock = NoProc
  /\ cache' = [cache EXCEPT !.newer = TRUE]
  /\ UNCHANGED <<world, locking, job, last, runs>>

Step(p) ==
  \/ Begin(p) \/ lookupCache(p) \/ Execute(p) \/ ExecuteFails(p)
  \/ LockAndRead(p) \/ BreakLock(p) \/ Save(p) \/ WriteFails(p) \/ Unlock(p) \/ LockFails(p) \/ ReturnUncached(p)
  \/ Dies(p)
Next == (\E p \in Procs : Step(p)) \/ Edit \/ Midnight \/ Tag \/ Release \/ NewerBuild
Spec == Init /\ [][Next]_vars

(***************************************************************************)
(* Properties.                                                             *)
(***************************************************************************)
\* Every variable has its type: an entry, a result and a document being saved
\* (cache.go:113) hold whole verdicts.
ToolchainTypeOK ==
  /\ dir \in [src : Sources, report : Reports \cup {NoReport}]
  /\ day \in 0 .. MaxDay
  /\ tags \subseteq TagRecords
  /\ makes \in [Procs -> SUBSET Requests]
  /\ cache \in [newer : BOOLEAN, entries : {cache.entries}] /\ IsDoc(cache.entries)
  /\ lock \in Procs \cup {NoProc} /\ lapse \in BOOLEAN
  /\ DOMAIN job = Procs
  /\ \A p \in Procs : IsJob(job[p])
  /\ last \in [Procs -> Verdicts \cup {Failed, None}]
  /\ runs \in [Procs -> 0 .. MaxRuns]

\* Run (run.go:64) reports a success, fresh or replayed, only for a pair the
\* dispatch table declares, and only if none of the tools that ran objected: no
\* finding it was shown graded away, no failed exit without a diagnostic, cut
\* output or not, and no pair without a tool.
SuccessWasEarned ==
  \A p \in Procs :
    /\ last[p].status = "success" => last[p].clean
    /\ ~At(p, "idle") /\ ~At(p, "lookup") /\ ~At(p, "run") => Declared(job[p].r)

\* lookupCache (cache.go:88) replays a verdict only under the policy and over
\* the sources it was computed for, whatever was edited, saved or reverted in
\* between, unless they were edited after that very run had hashed them and
\* before its tools were done (run.go:120).
ReplayOfSource ==
  [][\A p \in Procs : (lookupCache(p) /\ Hit(p)) =>
       /\ last'[p].src = job[p].hash[1] \/ last'[p].edited
       /\ last'[p].allow = job[p].allow]_vars

\* saveCache (cache.go:113) replaces its own id's entry and no other, whoever
\* dies, fails or waits.  It may lose another only in a lapse: since a running
\* holder's lock file was removed by somebody else there was always a holder.
EntriesSurvive ==
  [][\/ lapse
     \/ \A r \in DOMAIN cache.entries : r \in DOMAIN cache'.entries /\
          (cache'.entries[r] # cache.entries[r] => \E p \in Procs : At(p, "save") /\ job[p].r = r)]_vars

\* evaluateCurrency (workflow_currency.go:159): as days pass and tags appear, a
\* reference once called behind is never called current again and an error
\* never becomes a warning, unless its own tag is given a later release, or the
\* tags outgrow the one page that is read of them.
Severity(verdict) == CASE verdict = "none" -> 0 [] verdict = "warning" -> 1 [] verdict = "error" -> 2
VerdictOnlyAges ==
  [][Cardinality(tags') <= PageSize =>
       \A t \in tags \cap tags', before \in Listings(tags), after \in Listings(tags') :
         LET ref == [path |-> FALSE, version |-> t.name]
             known(ts) == [known |-> TRUE, reason |-> "", tags |-> ts]
         IN  Severity(evaluateCurrency(ref, known(before), day))
               <= Severity(evaluateCurrency(ref, known(after), day'))]_<<tags, day>>

\* A run's own output does not invalidate its entry (cache.go:23-26): sources
\* and policy that have one replay it.
OwnReportKeepsEntry ==
  [][\A p \in Procs : (lookupCache(p) /\ ~cache.newer /\ job[p].r \in DOMAIN cache.entries) =>
       LET e == cache.entries[job[p].r].result
       IN  e.src = dir.src /\ e.allow = job[p].allow => Hit(p)]_vars
=============================================================================
