---------------------------- MODULE Toolchain_MC ----------------------------
(***************************************************************************)
(* Toolchain for TLC: one process makes every request, another shares some *)
(* of them.                                                                *)
(***************************************************************************)
EXTENDS Toolchain, TLC

CONSTANTS p1, p2

Request(language, check, test) == [language |-> language, check |-> check, test |-> test]
Bandit == Request("python", "security", NoTest)
UnitTest == Request("python", "test", "unit")
\* p1 alone with each request; both with one request, or with two.
EachRequest ==
  {p1 :> {r} @@ p2 :> {} : r \in Requests}
    \cup {p1 :> {r} @@ p2 :> {Bandit} : r \in {Bandit, UnitTest}}

Version(major, minor) == [major |-> major, minor |-> minor, patch |-> 0]
SomeTag(name, bare, version) ==
  [name |-> name, isBare |-> bare, version |-> version, hasRelease |-> FALSE, published |-> 0, commit |-> 0]
SomeTags == {SomeTag("v1.0.0", TRUE, Version(1, 0)), SomeTag("v1.1.0", TRUE, Version(1, 1)),
             SomeTag("v2.0.0", TRUE, Version(2, 0))}

SomeFile(ext) ==
  [tracked |-> TRUE, excludedPrefix |-> FALSE, testdata |-> FALSE, git |-> FALSE, ext |-> ext, shebang |-> FALSE,
   inWorkflows |-> ext = "yml", shipped |-> FALSE, yamlParses |-> TRUE, excludedBasename |-> FALSE,
   uses |-> {}, runs |-> {}]
Body(uses, blocks) == [SomeFile("yml") EXCEPT !.uses = uses, !.runs = blocks]
Template(version, bare) == [path |-> FALSE, template |-> TRUE, version |-> version, bare |-> bare]
Local == [Template("", FALSE) EXCEPT !.path = TRUE]
Inline == {[comment |-> FALSE, banned |-> TRUE]}
\* Source 1: a script, tests, a body on templates, an excluded one and a
\* fixture.  Source 2: no script, and a body that also runs a tool itself.
SomeFiles == <<
  {[SomeFile("") EXCEPT !.shebang = TRUE], SomeFile("bats"), Body({Template("v1.0.0", TRUE), Local}, {}),
   [Body({}, {Inline}) EXCEPT !.excludedBasename = TRUE], [Body({}, {Inline}) EXCEPT !.testdata = TRUE]},
  {SomeFile(""), [SomeFile("sh") EXCEPT !.testdata = TRUE], Body({Template("main", FALSE)}, {Inline})} >>
=============================================================================
