-------------------------- MODULE WorkspaceInspection --------------------------
(***************************************************************************)
(* The inspection checks a report is scored by                             *)
(* (packages/rules-javascript/src/workspace-inspection.ts): for every      *)
(* member deprecation and advisories of its external declarations, lint,   *)
(* type check and tests; for the root the package manager, the lockfile    *)
(* and what is not known of the workspace.                                 *)
(*                                                                         *)
(* A file is the name of its kind: "js", "ts" (own source), "helper" (code *)
(* under scripts/), "lint_config", "test" (a conventional test file),      *)
(* "node_test" (one node --test finds), "node_ts_test"; "noCheck" and      *)
(* "extends_package" are tsconfigs that switch checking off and that       *)
(* extend a package.  "test_config" is a runner's configuration that looks *)
(* for "custom_test" files, "excluding_config" one that excludes every     *)
(* test, "opaque_config" one that cannot be evaluated.                     *)
(***************************************************************************)
EXTENDS DependencyRules, ScriptGraph

CONSTANT LintTool       \* packages whose configuration counts as a safeguard

CodeFile == OwnSource \cup {"helper", "test", "custom_test", "node_test", "node_ts_test"}
Config   == {"test_config", "excluding_config", "opaque_config"}

InspectionCheck(member, category, of, state) ==
    [at |-> member.path, category |-> category, of |-> of, name |-> NoName, spec |-> NoVersion,
     group |-> "", state |-> state, severity |-> "none"]

DependencyCheck(member, category, of, d, state, severity) ==
    [at |-> member.path, category |-> category, of |-> of, name |-> d.name, spec |-> d.spec,
     group |-> d.group, state |-> state, severity |-> severity]

-----------------------------------------------------------------------------
(* External declarations. *)

\* Mutant: the least rating.
ObservedSeverity_Least(member, d, osv) ==
    LET order   == <<"none", "low", "medium", "high", "critical">>
        active  == (Matches(osv, d.name, Effective(member, d)) \cap osv.records) \ Withdrawn
        ratings == {i \in DOMAIN order :
                       \/ i = 1
                       \/ \E a \in active : AdvisorySeverity(osv.records, a) = order[i]}
    IN  order[CHOOSE i \in ratings : \A j \in ratings : i =< j]

\* The worst supported rating of the active advisories.
ObservedSeverity(member, d, osv) ==
    LET order   == <<"none", "low", "medium", "high", "critical">>
        active  == (Matches(osv, d.name, Effective(member, d)) \cap osv.records) \ Withdrawn
        ratings == {i \in DOMAIN order :
                       \/ i = 1
                       \/ \E a \in active : AdvisorySeverity(osv.records, a) = order[i]}
    IN  order[CHOOSE i \in ratings : \A j \in ratings : j =< i]

DependencyChecks(member, registry, osv) ==
    IF ExternalDeclarations(member) = {}
    THEN {InspectionCheck(member, c, "external-dependencies", "not_applicable") :
             c \in {"dependencies", "security"}}
    ELSE {DependencyCheck(member, "dependencies", "deprecation", d,
                          DeprecationCheck(member, d, registry), "none") :
             d \in ExternalDeclarations(member)}
         \cup
         {DependencyCheck(member, "security", "advisories", d,
                          AdvisoryCheck(member, d, osv), ObservedSeverity(member, d, osv)) :
             d \in ExternalDeclarations(member)}

-----------------------------------------------------------------------------
(* Safeguards of a member. *)

Applicable(snapshot, member) ==
    /\ member.role # "orchestrator"
    /\ \/ member.files \cap CodeFile # {}
       \/ member.scripts # {}
       \/ ~snapshot.complete

LintCheck(snapshot, members, member) ==
    LET lint       == TraceScripts(members, member, "lint").state
        configured == /\ "lint_config" \in member.files
                      /\ \E tool \in LintTool : DeclaredTool(members, member.path, tool)
    IN  IF ~Applicable(snapshot, member) THEN "not_applicable"
        ELSE IF ~snapshot.known THEN "unknown"
        ELSE IF configured THEN "pass" ELSE lint

TypeCheck(snapshot, members, member) ==
    LET trace  == TraceScripts(members, member, "typecheck")
        typed  == \/ member.files \cap {"ts", "node_ts_test"} # {}
                  \/ \E e \in trace.executions : "checkJs" \in e.arguments
    IN  IF ~Applicable(snapshot, member) \/ (~typed /\ snapshot.complete) THEN "not_applicable"
        ELSE IF \/ ~snapshot.known \/ ~typed
                \/ "noCheck" \in member.files
                \/ trace.state = "pass" /\ "extends_package" \in member.files
        THEN "unknown"
        ELSE trace.state

\* A configuration whose test patterns cannot be evaluated.
ConfigurationUnknown(member, runners) ==
    \/ "opaque_config" \in member.files
    \/ "jest" \in runners /\ "excluding_config" \in member.files

\* The test files it leaves, or those found by their names.
MatchingTests(member) ==
    IF "excluding_config" \in member.files THEN {}
    ELSE IF "test_config" \in member.files THEN member.files \cap {"custom_test"}
    ELSE member.files \cap {"test"}

NodeTestState(member, absent) ==
    IF "node_test" \in member.files THEN "pass"
    ELSE IF "node_ts_test" \in member.files THEN "unknown"
    ELSE absent

\* Is there a file the declared runner would pick up?
TestFileState(snapshot, member, executions) ==
    LET runners == {e.tool : e \in executions}
        absent  == IF snapshot.complete THEN "fail" ELSE "unknown"
    IN  IF \/ Cardinality(runners) > 1
           \/ \E e \in executions :
                 \/ e.path # member.path
                 \/ e.tool \notin {"vitest", "jest", NodeTest, "playwright"}
                 \/ "selecting" \in e.arguments
        THEN "unknown"
        ELSE IF runners = {NodeTest} THEN NodeTestState(member, absent)
        ELSE IF ConfigurationUnknown(member, runners) THEN "unknown"
        ELSE IF MatchingTests(member) # {} THEN "pass"
        ELSE absent

TestFilesCheck(snapshot, members, member) ==
    LET tests == TraceScripts(members, member, "test")
    IN  IF ~Applicable(snapshot, member) THEN "not_applicable"
        ELSE IF ~snapshot.known \/ tests.state = "unknown" THEN "unknown"
        ELSE TestFileState(snapshot, member,
                           {e \in tests.executions : Purpose(e.tool) = "test"})

TestExecutionCheck(snapshot, members, member) ==
    IF ~Applicable(snapshot, member) THEN "not_applicable"
    ELSE IF ~snapshot.known THEN "unknown"
    ELSE TraceScripts(members, member, "test").state

MemberChecks(snapshot, members, member) ==
    {InspectionCheck(member, "maintainability", "lint", LintCheck(snapshot, members, member)),
     InspectionCheck(member, "maintainability", "typecheck", TypeCheck(snapshot, members, member)),
     InspectionCheck(member, "testing", "test.execution",
                     TestExecutionCheck(snapshot, members, member)),
     InspectionCheck(member, "testing", "test.files", TestFilesCheck(snapshot, members, member))}

-----------------------------------------------------------------------------
(* The repository, checked at its root. *)

PackageManagerCheck(snapshot) ==
    IF ~snapshot.known \/ snapshot.pin = "unsupported" THEN "unknown"
    ELSE IF snapshot.pin = "exact" THEN "pass"
    ELSE "fail"

\* Every member has a lockfile snapshot that resolves all it declares.
LockComplete(members, snapshot) ==
    \A m \in members :
        /\ m.lock.known /\ m.lock.issues = {}
        /\ \A d \in ExternalDeclarations(m) :
              \E r \in m.lock.resolutions : r.name = d.name /\ r.spec = d.spec

\* A lockfile is missing when everything but lockfiles was acquired.
LockfileCheck(snapshot, members, issues) ==
    IF ~snapshot.known \/ snapshot.pin = "unsupported" \/ issues # {} THEN "unknown"
    ELSE IF \A m \in members : {d \in m.declarations : d.group # PeerGroup} = {} THEN "not_applicable"
    ELSE IF LockComplete(members, snapshot) THEN "pass"
    ELSE IF snapshot.complete /\ snapshot.locks = {} THEN "fail"
    ELSE "unknown"

RootChecks(snapshot, members, issues) ==
    LET root == MemberAt(members, Root)
        unknown(categories, of) == {InspectionCheck(root, c, of, "unknown") : c \in categories}
    IN  {InspectionCheck(root, "tooling", "package-manager", PackageManagerCheck(snapshot)),
         InspectionCheck(root, "tooling", "lockfile", LockfileCheck(snapshot, members, issues))}
        \cup (IF \/ issues \cap {"workspace_configuration_invalid",
                                 "workspace_manifest_unavailable"} # {}
                 \/ ~snapshot.discovered
              THEN unknown({"dependencies", "security", "maintainability", "testing", "tooling"},
                           "workspace.discovery")
              ELSE {})
        \cup (IF "workspace_dependency_unresolved" \in issues
              THEN unknown({"dependencies", "security", "tooling"}, "workspace.resolution")
              ELSE {})

InspectionChecks(snapshot, members, registry, osv) ==
    (UNION {DependencyChecks(m, registry, osv) \cup MemberChecks(snapshot, members, m) : m \in members})
      \cup RootChecks(snapshot, members, WorkspaceIssues(snapshot))
=============================================================================
