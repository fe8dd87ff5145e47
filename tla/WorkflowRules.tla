---------------------------- MODULE WorkflowRules ----------------------------
(***************************************************************************)
(* go/toolchain: the two rules of the workflow adapter.  A body inherits a *)
(* template instead of running a tool itself, and the template reference   *)
(* is current by the release catalog of the day.                           *)
(***************************************************************************)
EXTENDS Integers, FiniteSets, Sequences, SequencesExt

CONSTANTS
  CurrencyWindow,   \* currencyWindowDays
  PageSize          \* per_page
ASSUME WindowAssumption == CurrencyWindow \in Nat
ASSUME PageAssumption == PageSize \in Nat

(***************************************************************************)
(* Bodies.  A file is a name's features; a body's text, its features.      *)
(***************************************************************************)
excludedFromTracked(f) == f.excludedPrefix \/ f.testdata
isWorkflowBody(f) == (f.inWorkflows /\ f.ext = "yml") \/ f.shipped
enumerateWorkflowBodies(files) ==
  {f \in files : f.tracked /\ ~excludedFromTracked(f) /\ isWorkflowBody(f)}

\* A run: block is lines; a comment is no command.
bannedCommandMatch(run) == \E line \in run : ~line.comment /\ line.banned
parseTemplateRef(use) == use.path \/ use.template
\* A body that is no YAML reads as an empty one.
NoBody == [hasJob |-> FALSE, banned |-> FALSE, refs |-> {}]
parseWorkflowBody(f) ==
  IF ~f.yamlParses THEN NoBody
  ELSE [hasJob |-> f.uses # {} \/ f.runs # {},
        banned |-> \E run \in f.runs : bannedCommandMatch(run),
        refs |-> {use \in f.uses : parseTemplateRef(use)}]

(***************************************************************************)
(* Versions and the catalog, a set of tags.                                *)
(***************************************************************************)
less(a, b) ==
  \/ a.major < b.major
  \/ a.major = b.major /\ a.minor < b.minor
  \/ a.major = b.major /\ a.minor = b.minor /\ a.patch < b.patch
date(tag) == IF tag.hasRelease THEN tag.published ELSE tag.commit
Bare(catalog) == {t \in catalog : t.isBare}
highestBareVersion(catalog) ==
  CHOOSE t \in Bare(catalog) : \A u \in Bare(catalog) : ~less(t.version, u.version)

\* 403 is a rate limit only with an exhausted quota.
fetch(status, quotaLeft) ==
  CASE status = 200 -> "ok"
    [] status = 0 -> "no_network"
    [] status = 401 -> "no_credential"
    [] status = 403 /\ quotaLeft -> "no_credential"
    [] status \in {403, 429} -> "rate_limited"
    [] OTHER -> "server_error"
NoCatalog(reason) == [known |-> FALSE, reason |-> reason, tags |-> {}]
\* One page is asked for, and which entries it has is the host's choice.
Pages(set) == IF Cardinality(set) <= PageSize THEN {set} ELSE {page \in SUBSET set : Cardinality(page) = PageSize}
\* The tags of a page, dated by the releases of a page.
Listings(tags) ==
  {{[t EXCEPT !.hasRelease = t \in released] : t \in page} :
     page \in Pages(tags), released \in Pages({t \in tags : t.hasRelease})}
\* The releases, then the tags, then a commit for each tag without a release:
\* the first answer that is not ok leaves no catalog at all.
apiCatalog(answers, listing) ==
  LET commits == Cardinality({t \in listing : ~t.hasRelease})
      asked == SubSeq(answers, 1, 2 + commits)
      bad == SelectSeq(asked, LAMBDA a : fetch(a.status, a.quotaLeft) # "ok")
  IN  IF bad # <<>> THEN NoCatalog(fetch(bad[1].status, bad[1].quotaLeft))
      ELSE [known |-> TRUE, reason |-> "", tags |-> listing]

(***************************************************************************)
(* The rules: a verdict is "error", "warning" or "none".                   *)
(***************************************************************************)
isBareVersionTag(ref) == ~ref.path /\ ref.bare
evaluateInheritance(f, body) ==
  LET subject == (body.hasJob /\ body.banned) \/ body.refs # {}
      compliant == \E ref \in body.refs : ref.path \/ isBareVersionTag(ref)
  IN  IF ~f.excludedBasename /\ subject /\ (body.banned \/ ~compliant) THEN "error" ELSE "none"

\* Mutation: the window is measured from the newest release.
evaluateCurrencyOfNewest(ref, catalog, now) ==
  LET named == {t \in catalog.tags : t.name = ref.version}
      highest == highestBareVersion(catalog.tags)
      tag == CHOOSE t \in named : TRUE
  IN  IF ref.path \/ ~catalog.known \/ Bare(catalog.tags) = {} \/ named = {} THEN "none"
      ELSE IF tag.name = highest.name THEN "none"
      ELSE IF tag.version.major < highest.version.major THEN "error"
      ELSE IF now < date(highest) + CurrencyWindow THEN "warning" ELSE "error"

evaluateCurrency(ref, catalog, now) ==
  LET named == {t \in catalog.tags : t.name = ref.version}
      highest == highestBareVersion(catalog.tags)
      tag == CHOOSE t \in named : TRUE
  IN  IF ref.path \/ ~catalog.known \/ Bare(catalog.tags) = {} \/ named = {} THEN "none"
      ELSE IF tag.name = highest.name THEN "none"
      ELSE IF tag.version.major < highest.version.major THEN "error"
      ELSE IF now < date(tag) + CurrencyWindow THEN "warning" ELSE "error"

\* RunInProcess after actionlint: what the two rules report on the bodies.
ruleDiagnostics(bodies, catalog, now) ==
  LET of(f) == LET body == parseWorkflowBody(f)
               IN  {evaluateInheritance(f, body)} \cup {evaluateCurrency(ref, catalog, now) : ref \in body.refs}
  IN  (UNION {of(f) : f \in bodies}) \ {"none"}
=============================================================================
