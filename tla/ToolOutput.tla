----------------------------- MODULE ToolOutput -----------------------------
(***************************************************************************)
(* go/toolchain: what each adapter makes of its tools' results.  A result  *)
(* is the tool's exit status, the findings it printed and those of them    *)
(* the bounded capture kept readable ("seen").  A finding is its native    *)
(* level.  Diagnostics are the set of the severities that occur in them:   *)
(* nothing asks how many there are, only whether there are any.  Files,    *)
(* lines, codes and messages are left out.                                 *)
(***************************************************************************)
EXTENDS Dispatch, Integers, SequencesExt

\* The findings a tool prints, by the name the parser tells them apart by.
Native(tool) ==
  CASE tool \in {"go build", "gofmt"} -> {"unformatted", "position", "text"}
    [] tool \in {"golangci-lint", "staticcheck"} -> {"warning", "other"}
    [] tool \in {"goimports", "go vet", "shfmt", "checkbashisms", "actionlint"} -> {"line"}
    [] tool \in {"gosec", "bandit"} -> {"high", "medium", "low"}
    [] tool \in {"govulncheck", "cargo nextest", "cargo llvm-cov nextest", "gotestsum", "go test", "pytest", "bats", "kcov+bats", "cargo audit"} -> {"line"}
    [] tool \in {"cargo build", "cargo fmt", "cargo clippy", "cargo check", "cargo bench"} ->
         {"error", "warning", "note", "testFailed"}
    [] tool = "cargo deny" -> {"error", "warning", "note"}
    [] tool \in {"uv build", "ruff format", "ruff check", "mypy"} ->
         {"header", "location", "mypyError", "mypyWarning"}
    [] tool = "shellcheck" -> {"error", "warning", "info", "style"}
    [] tool = "semgrep" -> {"ERROR", "WARNING", "INFO"}
    [] tool = "git ls-files" -> {}

\* The tools whose output is one JSON document: cut short, none of it is read.
OneDocument(tool) ==
  tool \in {"golangci-lint", "gosec", "cargo audit", "bandit", "shellcheck", "semgrep", "actionlint"}

\* Exit statuses: 4 is checkbashisms' "clean bash only", 5 pytest's "no tests".
Exits(tool) ==
  CASE tool = "checkbashisms" -> {0, 1, 4, 5}
    [] tool = "pytest" -> {0, 1, 5}
    [] OTHER -> {0, 1}

\* The reports with at most n findings; the capture may cut one that has some.
Results(tool, n) ==
  LET reports == UNION {[1 .. k -> Native(tool)] : k \in 0 .. n}
      kept(f) == IF OneDocument(tool) THEN {<<>>} ELSE {SubSeq(f, 1, k) : k \in 0 .. Len(f) - 1}
      printed == {x \in Exits(tool) \X reports : tool = "pytest" /\ x[1] = 5 => x[2] = <<>>}
      results(e, f) == {[exit |-> e, found |-> f, seen |-> f, cut |-> FALSE]}
        \cup {[exit |-> e, found |-> f, seen |-> s, cut |-> TRUE] : s \in (IF f = <<>> THEN {} ELSE kept(f))}
  IN  UNION {results(x[1], x[2]) : x \in printed}

Graded(found, grade) == {grade[f] : f \in ToSet(found) \cap DOMAIN grade}
EachError(found) == {"error" : f \in ToSet(found)}

\* Mutation: a failed tool with nothing parsed is not reported.
NoFallback(diags, exit) == diags
fallbackDiagnostic(diags, exit) == IF diags = {} /\ exit # 0 THEN {"error"} ELSE diags

Checked(diags, result) == fallbackDiagnostic(diags, result.exit)

(***************************************************************************)
(* Go.                                                                     *)
(***************************************************************************)
goParse(found) == Graded(found, [unformatted |-> "error", position |-> "error"])
parseGoImportsPaths(found) == EachError(found)
parseGolangciLintJSON(found) == Graded(found, [warning |-> "warning", other |-> "error"])
parseFileLineMessages(found) == EachError(found)
parseStaticcheckJSON(found) == Graded(found, [warning |-> "warning", other |-> "error"])
parseGosecJSON(found) == Graded(found, [high |-> "error", medium |-> "error", low |-> "warning"])
parseGovulncheckStream(found) == EachError(found)
parseGoTestFailures(found) == EachError(found)

\* goimports' exit status is not looked at.
goLint(t) ==
  Checked(parseGolangciLintJSON(t["golangci-lint"].seen), t["golangci-lint"])
    \cup parseGoImportsPaths(t["goimports"].seen)
goVet(t) ==
  Checked(parseFileLineMessages(t["go vet"].seen), t["go vet"])
    \cup Checked(parseStaticcheckJSON(t["staticcheck"].seen), t["staticcheck"])
goSecurity(t) ==
  Checked(parseGosecJSON(t["gosec"].seen), t["gosec"])
    \cup Checked(parseGovulncheckStream(t["govulncheck"].seen), t["govulncheck"])
goUnitTest(t) == Checked(parseGoTestFailures(t["gotestsum"].seen), t["gotestsum"])
goE2ETest(t) == Checked(parseGoTestFailures(t["go test"].seen), t["go test"])

(***************************************************************************)
(* Rust.                                                                   *)
(***************************************************************************)
cargoParse(found) ==
  Graded(found, [error |-> "error", warning |-> "warning", testFailed |-> "error"])
parseCargoAuditJSON(found) == EachError(found)
parseCargoDenyJSON(found) == Graded(found, [error |-> "error", warning |-> "warning"])
parseCargoNextestFailures(found) == EachError(found)

cargoSecurity(t) ==
  Checked(parseCargoAuditJSON(t["cargo audit"].seen), t["cargo audit"])
    \cup Checked(parseCargoDenyJSON(t["cargo deny"].seen), t["cargo deny"])
\* --ignore-run-fail: the exit status does not tell that a test failed.
cargoUnitTest(t) == Checked(parseCargoNextestFailures(t["cargo llvm-cov nextest"].seen), t["cargo llvm-cov nextest"])
cargoE2ETest(t) == Checked(parseCargoNextestFailures(t["cargo nextest"].seen), t["cargo nextest"])
cargoBenchmark(t) == Checked(cargoParse(t["cargo bench"].seen), t["cargo bench"])

(***************************************************************************)
(* Python.  ruff prints a rule on one line and its place on a later one:   *)
(* a place counts once, and only after a rule.                             *)
(***************************************************************************)
pythonLine(acc, line) ==
  CASE line = "location" /\ acc.pending -> [diags |-> acc.diags \cup {"error"}, pending |-> FALSE]
    [] line = "header" -> [acc EXCEPT !.pending = TRUE]
    [] line = "mypyError" -> [acc EXCEPT !.diags = @ \cup {"error"}]
    [] line = "mypyWarning" -> [acc EXCEPT !.diags = @ \cup {"warning"}]
    [] OTHER -> acc
pythonParse(found) ==
  LET after[n \in 0 .. Len(found)] ==
        IF n = 0 THEN [diags |-> {}, pending |-> FALSE] ELSE pythonLine(after[n - 1], found[n])
  IN  after[Len(found)].diags

parseBanditJSON(found) == Graded(found, [high |-> "error", medium |-> "error", low |-> "warning"])
banditDiagnostics(result) ==
  IF result.cut THEN {"warning"} ELSE Checked(parseBanditJSON(result.seen), result)

parsePytestFailures(found) == EachError(found)
\* Exit status 5: no test was collected, which passes.
pytest(result) == IF result.exit = 5 THEN {} ELSE Checked(parsePytestFailures(result.seen), result)

(***************************************************************************)
(* Shell and workflow.                                                     *)
(***************************************************************************)
parseShfmtList(found) == EachError(found)
parseShellcheckJSON1(found) ==
  Graded(found, [error |-> "error", warning |-> "error", info |-> "warning", style |-> "warning"])
parseCheckbashisms(found) == EachError(found)
parseSemgrepJSON(found) == Graded(found, [ERROR |-> "error", WARNING |-> "error", INFO |-> "warning"])
parseBatsFailures(found) == EachError(found)
parseActionlintJSON(found) == EachError(found)

\* The bit 4 of checkbashisms' exit status is no failure.
WithoutCleanBash(exit) == IF exit \div 4 % 2 = 1 THEN exit - 4 ELSE exit
shellLint(t) ==
  LET cb == t["checkbashisms"]
  IN  Checked(parseShellcheckJSON1(t["shellcheck"].seen), t["shellcheck"])
        \cup fallbackDiagnostic(parseCheckbashisms(cb.seen), WithoutCleanBash(cb.exit))
shellFormat(t) == Checked(parseShfmtList(t["shfmt"].seen), t["shfmt"])
shellSecurity(t) == Checked(parseSemgrepJSON(t["semgrep"].seen), t["semgrep"])
shellUnitTest(t) == Checked(parseBatsFailures(t["kcov+bats"].seen), t["kcov+bats"])
shellE2ETest(t) == Checked(parseBatsFailures(t["bats"].seen), t["bats"])
runActionlint(t) == Checked(parseActionlintJSON(t["actionlint"].seen), t["actionlint"])

(***************************************************************************)
(* RunInProcess and Parse of each adapter: the diagnostics of a request    *)
(* from the results t of the tools it spawned.                             *)
(***************************************************************************)
goDiagnostics(r, t) ==
  CASE r.check = "build" -> Checked(goParse(t["go build"].seen), t["go build"])
    [] r.check = "format" -> Checked(goParse(t["gofmt"].seen), t["gofmt"])
    [] r.check = "lint" -> goLint(t)
    [] r.check = "vet" -> goVet(t)
    [] r.check = "security" -> goSecurity(t)
    [] r.test = "unit" -> goUnitTest(t)
    [] r.test = "e2e" -> goE2ETest(t)
cargoDiagnostics(r, t) ==
  CASE Subprocess("rust", r.check) ->
         LET result == t[cargoTools(r.check, r.test)[1]] IN Checked(cargoParse(result.seen), result)
    [] r.check = "security" -> cargoSecurity(t)
    [] r.test = "unit" -> cargoUnitTest(t)
    [] r.test = "e2e" -> cargoE2ETest(t)
    [] r.test = "benchmark" -> cargoBenchmark(t)
pythonDiagnostics(r, t) ==
  CASE Subprocess("python", r.check) ->
         LET result == t[pythonTools(r.check, r.test)[1]] IN Checked(pythonParse(result.seen), result)
    [] r.check = "security" -> banditDiagnostics(t["bandit"])
    [] r.check = "test" -> pytest(t["pytest"])
shellDiagnostics(r, t) ==
  CASE r.check = "format" -> shellFormat(t)
    [] r.check = "lint" -> shellLint(t)
    [] r.check = "security" -> shellSecurity(t)
    [] r.test = "unit" -> shellUnitTest(t)
    [] r.test = "e2e" -> shellE2ETest(t)
Diagnostics(r, t) ==
  CASE r.language = "go" -> goDiagnostics(r, t)
    [] r.language = "rust" -> cargoDiagnostics(r, t)
    [] r.language = "python" -> pythonDiagnostics(r, t)
    [] r.language = "shell" -> shellDiagnostics(r, t)
    [] r.language = "workflow" -> runActionlint(t)

\* Mutation: a failed exit alone is not the check's answer.
ClassifyInternal(exit, diags, allowWarnings) ==
  IF "error" \in diags \/ ("warning" \in diags /\ ~allowWarnings) THEN "gate_negative"
  ELSE IF exit # 0 THEN "internal" ELSE "success"
Classify(exit, diags, allowWarnings) ==
  IF "error" \in diags \/ ("warning" \in diags /\ ~allowWarnings) \/ exit # 0
  THEN "gate_negative" ELSE "success"
\* Only the subprocess route has an exit status of its own.
ExitOf(r, t) == IF Subprocess(r.language, r.check) THEN t[Spawned(r)[1]].exit ELSE 0
classifyStatus(r, t, diags, allowWarnings) == Classify(ExitOf(r, t), diags, allowWarnings)
=============================================================================
