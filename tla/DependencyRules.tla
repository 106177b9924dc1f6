---------------------------- MODULE DependencyRules ----------------------------
(***************************************************************************)
(* The rules about dependencies: deprecated, outdated, migration, registry *)
(* health, known vulnerability, and the two inspection checks made for     *)
(* every external declaration (packages/rules-javascript/src).  A rule     *)
(* returns a set of outputs; an output has the basis it was made for and   *)
(* the identity its ID is hashed from, so that two outputs with one        *)
(* identity are two entities with one ID.                                  *)
(*                                                                         *)
(* Packages and advisories are numbers, in the order of names and ids.     *)
(*   registry  [name -> NoAnswer or [versions, deprecated, latest]]        *)
(*   osv       [known, queries, records]: queries are [name, version,      *)
(*             matches, complete], records the advisories with details     *)
(***************************************************************************)
EXTENDS WorkspaceProject

CONSTANTS
    Advisory,      \* advisory numbers, in the order of their ids
    Withdrawn,     \* the withdrawn ones
    Aliases,       \* [Advisory -> SUBSET Advisory]: the ids an advisory lists
    BaseScore,     \* [Advisory -> 0..100 or Unrated]: CVSS base score, in tenths
    Affected       \* [Advisory -> packages]: the npm packages its details name

Unrated    == -1
NoAdvisory == 0
NoName     == 0
NoAnswer   == [versions |-> {}, deprecated |-> {}, latest |-> RangeSpecifier("no answer")]

ASSUME AdvisoryAssumption ==
    /\ Advisory \subseteq Nat
    /\ Aliases \in [Advisory -> SUBSET Advisory]
    /\ BaseScore \in [Advisory -> (0..100) \cup {Unrated}]

Identity(code, name, version, advisory) ==
    [code |-> code, name |-> name, version |-> version, advisory |-> advisory]

Output(kind, member, basis, identity) ==
    [kind |-> kind, at |-> member.path, basis |-> basis, id |-> identity]
Limitation(member, b, code, version) ==
    {Output("limitation", member, b, Identity(code, b.name, version, NoAdvisory))}
Finding(member, b, code, version, advisory) ==
    {Output("finding", member, b, Identity(code, b.name, version, advisory))}

\* Facts are grouped by name and specifier; peers and links are no installations.
DependencyFactBases(member) ==
    {[name |-> d.name, spec |-> d.spec] : d \in ExternalDeclarations(member)}

Effective(member, b) == EffectiveVersion(member, b.name, b.spec)

-----------------------------------------------------------------------------
(* Registry rules. *)

DeprecatedDependency(member, b, registry) ==
    LET v == Effective(member, b)
        r == registry[b.name]
    IN  IF v = NoVersion THEN Limitation(member, b, "npm-resolved-version-required", b.spec)
        ELSE IF r = NoAnswer THEN Limitation(member, b, "npm-metadata-missing", NoVersion)
        ELSE IF v \notin r.versions THEN Limitation(member, b, "npm-current-version-missing", v)
        ELSE IF v \in r.deprecated THEN Finding(member, b, "deprecated", v, NoAdvisory)
        ELSE {}

OutdatedDependency(member, b, registry) ==
    LET v == Effective(member, b)
        r == registry[b.name]
    IN  IF v = NoVersion THEN Limitation(member, b, "npm-resolved-version-required", b.spec)
        ELSE IF r = NoAnswer THEN Limitation(member, b, "npm-metadata-missing", NoVersion)
        ELSE IF v \notin r.versions THEN Limitation(member, b, "npm-current-version-missing", v)
        ELSE IF r.latest = NoVersion THEN Limitation(member, b, "npm-latest-tag-missing", NoVersion)
        ELSE IF r.latest \notin r.versions THEN
                Limitation(member, b, "npm-comparison-version-missing", r.latest)
        ELSE IF ~IsExact(r.latest) THEN Limitation(member, b, "npm-comparison-version-invalid", r.latest)
        ELSE IF NewerVersionDifference(v, r.latest) # "none" THEN
                Finding(member, b, "outdated", b.spec, NoAdvisory)
        ELSE {}

MigrationOpportunity(member, b, registry) ==
    LET v == Effective(member, b)
        r == registry[b.name]
    IN  IF v = NoVersion THEN Limitation(member, b, "migration-resolved-version-required", b.spec)
        ELSE IF r = NoAnswer THEN Limitation(member, b, "npm-metadata-missing", NoVersion)
        ELSE IF r.latest = NoVersion THEN Limitation(member, b, "migration-latest-tag-missing", NoVersion)
        ELSE IF r.latest \notin r.versions \/ ~IsExact(r.latest) THEN
                Limitation(member, b, "migration-target-version-missing", r.latest)
        ELSE IF NewerVersionDifference(v, r.latest) = "major" THEN
                Finding(member, b, "migration", v, NoAdvisory)
        ELSE {}

\* The migration rule alone merges what it emits twice.
Merged(outputs) ==
    {CHOOSE o \in outputs : o.id = p.id /\ o.at = p.at : p \in outputs}

\* Facts of a package's latest release: one basis per name.
NpmRegistryHealth(member, name, registry) ==
    LET r == registry[name]
        b == [name |-> name, spec |-> NoVersion]
    IN  IF r = NoAnswer THEN Limitation(member, b, "npm-metadata-missing", NoVersion)
        ELSE IF r.latest = NoVersion THEN Limitation(member, b, "npm-latest-tag-missing", NoVersion)
        ELSE IF r.latest \notin r.versions THEN
                Limitation(member, b, "npm-latest-version-missing", r.latest)
        ELSE {Output("fact", member, b, Identity("health", name, NoVersion, NoAdvisory))}

-----------------------------------------------------------------------------
(* Advisories. *)

Names(r) == {r} \cup Aliases[r]

\* No record has some of its names in S and some outside.
ClosedUnder(records, S) == \A r \in records : Names(r) \cap S = {} \/ Names(r) \subseteq S

\* What the loop over the records collects: the least closed set with the id.
Identifiers(records, id) ==
    {x \in Advisory : \A S \in SUBSET Advisory : id \in S /\ ClosedUnder(records, S) => x \in S}

\* Everything linked to an advisory by ids and aliases, the withdrawn taken
\* out only at the end: they still link.
AdvisoryAliasGroup(records, id) ==
    {r \in records : Names(r) \cap Identifiers(records, id) # {}} \ Withdrawn

\* The advisory a finding is reported under.
Representative(records, id) ==
    LET group == AdvisoryAliasGroup(records, id)
    IN  IF group = {} THEN id ELSE CHOOSE a \in group : \A b \in group : a =< b

\* The highest supported rating of the group decides.
AdvisorySeverity(records, id) ==
    LET ratings == {BaseScore[a] : a \in AdvisoryAliasGroup(records, id)} \ {Unrated}
        score   == CHOOSE s \in ratings : \A t \in ratings : t =< s
    IN  IF ratings = {} THEN "unknown"
        ELSE IF score = 0 THEN "none"
        ELSE IF score < 40 THEN "low"
        ELSE IF score < 70 THEN "medium"
        ELSE IF score < 90 THEN "high"
        ELSE "critical"

Queries(osv, name, version) ==
    {q \in osv.queries : q.name = name /\ q.version = version}

Matches(osv, name, version) == UNION {q.matches : q \in Queries(osv, name, version)}

\* Mutant: queries that did not complete are taken as complete.
KnownVulnerability_Complete(member, b, osv) ==
    LET v      == Effective(member, b)
        active == Matches(osv, b.name, v) \ (Withdrawn \cap osv.records)
    IN  IF ~osv.known THEN {}
        ELSE IF v = NoVersion THEN Limitation(member, b, "osv-resolved-version-missing", b.spec)
        ELSE IF Queries(osv, b.name, v) = {}
             THEN Limitation(member, b, "osv-exact-version-missing", v)
        ELSE UNION {Finding(member, b, "vulnerability", v, Representative(osv.records, a)) :
                       a \in active}

KnownVulnerability(member, b, osv) ==
    LET v       == Effective(member, b)
        queries == Queries(osv, b.name, v)
        active  == Matches(osv, b.name, v) \ (Withdrawn \cap osv.records)
    IN  IF ~osv.known THEN {}
        ELSE IF v = NoVersion THEN Limitation(member, b, "osv-resolved-version-missing", b.spec)
        ELSE IF queries = {} THEN Limitation(member, b, "osv-exact-version-missing", v)
        ELSE (IF \E q \in queries : ~q.complete
              THEN Limitation(member, b, "osv-query-incomplete", v) ELSE {})
             \cup {Output("limitation", member, b,
                          Identity("osv-advisory-withdrawn", b.name, v, a)) :
                      a \in Matches(osv, b.name, v) \cap Withdrawn \cap osv.records}
             \cup UNION {Finding(member, b, "vulnerability", v, Representative(osv.records, a)) :
                            a \in active}

\* Without a snapshot the rule says so once for a member.
OsvUnavailable(member, osv) ==
    IF osv.known \/ DependencyFactBases(member) = {} THEN {}
    ELSE Limitation(member, [name |-> NoName, spec |-> NoVersion], "osv-source-unavailable", NoVersion)

\* Findings are keyed by their ID before they leave the rule, limitations are not.
OnePerFinding(outputs) ==
    {o \in outputs : o.kind = "limitation"}
      \cup Merged({o \in outputs : o.kind = "finding"})

-----------------------------------------------------------------------------
(* Inspection checks of one external declaration. *)

DeprecationCheck(member, b, registry) ==
    LET v == Effective(member, b)
        r == registry[b.name]
    IN  IF v = NoVersion \/ v \notin r.versions THEN "unknown"
        ELSE IF v \in r.deprecated THEN "fail"
        ELSE "pass"

\* Mutant: no match so far is no advisory, whether or not the query completed.
AdvisoryCheck_SoFar(member, b, osv) ==
    LET v      == Effective(member, b)
        active == Matches(osv, b.name, v) \ Withdrawn
    IN  IF \/ ~osv.known \/ Queries(osv, b.name, v) = {}
           \/ \E a \in active : AdvisorySeverity(osv.records, a) = "unknown"
        THEN "unknown"
        ELSE IF active # {} THEN "fail"
        ELSE "pass"

AdvisoryCheck(member, b, osv) ==
    LET v       == Effective(member, b)
        queries == Queries(osv, b.name, v)
        active  == Matches(osv, b.name, v) \ Withdrawn
    IN  IF \/ ~osv.known \/ queries = {} \/ \E q \in queries : ~q.complete
           \/ \E a \in Matches(osv, b.name, v) : a \notin osv.records \/ b.name \notin Affected[a]
           \/ \E a \in active : AdvisorySeverity(osv.records, a) = "unknown"
        THEN "unknown"
        ELSE IF active # {} THEN "fail"
        ELSE "pass"

-----------------------------------------------------------------------------
(* What the analyzer core makes of a rule: an ID emitted twice has it      *)
(* reject everything the rule returned, for every member.                  *)

DistinctIds(outputs) == \A o, p \in outputs : o.id = p.id /\ o.at = p.at => o = p

Accepted(outputs) == IF DistinctIds(outputs) THEN outputs ELSE {}

ScopedBases(members) ==
    UNION {{[member |-> m, basis |-> b] : b \in DependencyFactBases(m)} : m \in members}

Deprecated(members, registry) ==
    UNION {DeprecatedDependency(s.member, s.basis, registry) : s \in ScopedBases(members)}
Outdated(members, registry) ==
    UNION {OutdatedDependency(s.member, s.basis, registry) : s \in ScopedBases(members)}
Migrations(members, registry) ==
    Merged(UNION {MigrationOpportunity(s.member, s.basis, registry) : s \in ScopedBases(members)})
Vulnerable(members, osv) ==
    OnePerFinding(UNION {KnownVulnerability(s.member, s.basis, osv) : s \in ScopedBases(members)})
      \cup UNION {OsvUnavailable(m, osv) : m \in members}
Health(members, registry) ==
    UNION {NpmRegistryHealth(s.member, s.basis.name, registry) : s \in ScopedBases(members)}

RuleOutputs(members, registry, osv) ==
    [deprecated |-> Deprecated(members, registry),
     outdated   |-> Outdated(members, registry),
     migration  |-> Migrations(members, registry),
     vulnerable |-> Vulnerable(members, osv),
     health     |-> Health(members, registry)]
=============================================================================
