------------------------------ MODULE Dispatch ------------------------------
(***************************************************************************)
(* go/toolchain: the dispatch table of (language, check, test kind) pairs, *)
(* the grid it is regenerated from, and each adapter's own dispatch, which *)
(* Run follows without looking at the table.                               *)
(***************************************************************************)
EXTENDS Sequences, FiniteSets

Languages == {"go", "rust", "python", "shell", "workflow"}
Checks == {"build", "format", "lint", "vet", "security", "test"}
TestKinds == {"unit", "e2e", "benchmark"}
NoTest == ""

\* A request names a test kind only with the check "test"; "other" stands for
\* any check outside the closed list.
Requests ==
  [language : Languages, check : (Checks \ {"test"}) \cup {"other"}, test : {NoTest}]
    \cup [language : Languages, check : {"test"}, test : TestKinds \cup {NoTest}]

EveryCheck == {"build", "format", "lint", "vet", "security", "test"}
matrixSpec == [go |-> EveryCheck, rust |-> EveryCheck, python |-> EveryCheck,
               shell |-> EveryCheck \ {"build", "vet"}]
testKindsByLanguage == [go |-> {"unit", "e2e"}, rust |-> TestKinds,
                        python |-> {"unit", "e2e"}, shell |-> {"unit", "e2e"}]

Entry(language, check, test, tools) ==
  [language |-> language, check |-> check, test |-> test, tools |-> tools]
workflowPair == Entry("workflow", "lint", NoTest, <<"actionlint">>)

committedMatrix == {
  Entry("go", "build", NoTest, <<"go build">>),
  Entry("go", "format", NoTest, <<"gofmt", "goimports">>),
  Entry("go", "lint", NoTest, <<"golangci-lint", "goimports">>),
  Entry("go", "vet", NoTest, <<"go vet", "staticcheck">>),
  Entry("go", "security", NoTest, <<"gosec", "govulncheck">>),
  Entry("go", "test", "unit", <<"go test", "gotestsum">>),
  Entry("go", "test", "e2e", <<"go test">>),
  Entry("rust", "build", NoTest, <<"cargo build">>),
  Entry("rust", "format", NoTest, <<"cargo fmt">>),
  Entry("rust", "lint", NoTest, <<"cargo clippy">>),
  Entry("rust", "vet", NoTest, <<"cargo check">>),
  Entry("rust", "security", NoTest, <<"cargo audit", "cargo deny">>),
  Entry("rust", "test", "unit", <<"cargo nextest", "cargo llvm-cov">>),
  Entry("rust", "test", "e2e", <<"cargo nextest">>),
  Entry("rust", "test", "benchmark", <<"cargo bench">>),
  Entry("python", "build", NoTest, <<"uv build">>),
  Entry("python", "format", NoTest, <<"ruff format">>),
  Entry("python", "lint", NoTest, <<"ruff check">>),
  Entry("python", "vet", NoTest, <<"mypy">>),
  Entry("python", "security", NoTest, <<"bandit">>),
  Entry("python", "test", "unit", <<"pytest">>),
  Entry("python", "test", "e2e", <<"pytest", "playwright">>),
  Entry("shell", "format", NoTest, <<"shfmt">>),
  Entry("shell", "lint", NoTest, <<"shellcheck", "checkbashisms">>),
  Entry("shell", "security", NoTest, <<"semgrep">>),
  Entry("shell", "test", "unit", <<"bats", "kcov">>),
  Entry("shell", "test", "e2e", <<"bats">>),
  workflowPair }

PairID(e) == [language |-> e.language, check |-> e.check, test |-> e.test]
Declared(request) == \E e \in committedMatrix : PairID(e) = request

RegenerateMatrix ==
  {r \in Requests :
     /\ r.language \in DOMAIN matrixSpec
     /\ r.check \in matrixSpec[r.language]
     /\ r.check = "test" => r.test \in testKindsByLanguage[r.language]}
  \cup {PairID(workflowPair)}

\* VerifyMatrixParity joins sorted identifiers, so a pair listed twice counts.
VerifyMatrixParity ==
  /\ {PairID(e) : e \in committedMatrix} = RegenerateMatrix
  /\ Cardinality(committedMatrix) = Cardinality(RegenerateMatrix)

(***************************************************************************)
(* The adapters' own dispatch: the route, what Command answers an argv     *)
(* for, what RunInProcess has a branch for, and the tools each spawns.     *)
(***************************************************************************)
Subprocess(language, check) ==
  CASE language = "go" -> check \in {"build", "format"}
    [] language = "rust" -> check \in {"build", "format", "lint", "vet"}
    [] language = "python" -> check \notin {"security", "test"}
    [] OTHER -> FALSE

goTools(check, test) ==
  CASE check = "build" -> <<"go build">>
    [] check = "format" -> <<"gofmt">>
    [] check = "lint" -> <<"golangci-lint", "goimports">>
    [] check = "vet" -> <<"go vet", "staticcheck">>
    [] check = "security" -> <<"gosec", "govulncheck">>
    [] check = "test" /\ test = "unit" -> <<"gotestsum">>
    [] check = "test" /\ test = "e2e" -> <<"go test">>
    [] OTHER -> <<>>

cargoTools(check, test) ==
  CASE check = "build" -> <<"cargo build">>
    [] check = "format" -> <<"cargo fmt">>
    [] check = "lint" -> <<"cargo clippy">>
    [] check = "vet" -> <<"cargo check">>
    [] check = "security" -> <<"cargo audit", "cargo deny">>
    [] check = "test" /\ test = "unit" -> <<"cargo llvm-cov nextest">>
    [] check = "test" /\ test = "e2e" -> <<"cargo nextest">>
    [] check = "test" /\ test = "benchmark" -> <<"cargo bench">>
    [] OTHER -> <<>>

pythonTools(check, test) ==
  CASE check = "build" -> <<"uv build">>
    [] check = "format" -> <<"ruff format">>
    [] check = "lint" -> <<"ruff check">>
    [] check = "vet" -> <<"mypy">>
    [] check = "security" -> <<"bandit">>
    [] check = "test" /\ test \in {"unit", "e2e"} -> <<"pytest">>
    [] OTHER -> <<>>

shellTools(check, test) ==
  CASE check = "format" -> <<"shfmt">>
    [] check = "lint" -> <<"shellcheck", "checkbashisms">>
    [] check = "security" -> <<"semgrep">>
    [] check = "test" /\ test = "unit" -> <<"kcov+bats">>
    [] check = "test" /\ test = "e2e" -> <<"bats">>
    [] OTHER -> <<>>

workflowTools(check) == IF check = "lint" THEN <<"git ls-files", "actionlint">> ELSE <<>>

\* What a request spawns, in order; nothing where the adapter answers
\* ErrUnsupportedCheck.
Spawned(r) ==
  CASE r.language = "go" -> goTools(r.check, r.test)
    [] r.language = "rust" -> cargoTools(r.check, r.test)
    [] r.language = "python" -> pythonTools(r.check, r.test)
    [] r.language = "shell" -> shellTools(r.check, r.test)
    [] r.language = "workflow" -> workflowTools(r.check)

\* The reports a check has its tool write into the target's own directory.
WritesReport(r) == r.check = "test" /\ r.test = "unit"
=============================================================================
