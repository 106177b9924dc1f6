------------------------------- MODULE Lockfile -------------------------------
(***************************************************************************)
(* Resolved versions from a lockfile: packages/rules-javascript/src/       *)
(* lockfile.ts.  A lockfile is a record [manager, readable, format,        *)
(* declared, installed]:                                                   *)
(*   declared   what the importers wrote: [importer, group, name, spec]    *)
(*   installed  what was put on disk: [at, name, version, target], a link  *)
(*              to a member having a target                                *)
(* pnpm keeps both in one entry per importer, group and name, yarn one     *)
(* version per selector; their entries carry the same fields.  `format` is *)
(* the npm lockfileVersion; versions below 2 have no importer records.     *)
(***************************************************************************)
EXTENDS SemanticVersion, FiniteSets

NoTarget  == "no target"
NoManager == "no manager"
Root      == "."
Manager   == {"npm", "pnpm", "yarn"}

\* A candidate: the version found and whether the declaration in it is ours.
Candidate(version, matches) == [version |-> version, matches |-> matches]

-----------------------------------------------------------------------------
(* Which lockfile speaks for the project. *)

Selection(chosen, issues) == [chosen |-> chosen, issues |-> issues]

SelectLockfile(manager, locks) ==
    LET own == {l \in locks : l.manager = manager}
    IN  IF locks = {} THEN Selection({}, {})
        ELSE IF Cardinality(locks) > 1 /\ manager \notin Manager
             THEN Selection({}, {"lockfile_multiple"})
        ELSE IF manager \in Manager /\ own = {}
             THEN Selection({}, {"lockfile_package_manager_mismatch"})
        ELSE Selection(IF manager \in Manager THEN own ELSE locks, {})

-----------------------------------------------------------------------------
(* Candidates for a declaration of an importer: a set of at most one. *)

\* npm loads the nearest node_modules directory on the way to the root.
Installed(lock, name, importer) ==
    LET at(dir) == {e \in lock.installed : e.at = dir /\ e.name = name}
    IN  IF at(importer) # {} THEN at(importer) ELSE at(Root)

NpmCandidates(lock, d, importer) ==
    IF lock.format >= 2
    THEN {Candidate(e.version,
                    [importer |-> importer, group |-> d.group,
                     name |-> d.name, spec |-> d.spec] \in lock.declared) :
             e \in {x \in Installed(lock, d.name, importer) :
                       \E r \in lock.declared : r.importer = importer /\ r.group = d.group}}
    ELSE {Candidate(e.version, TRUE) :
             e \in {x \in lock.installed :
                       x.at = Root /\ x.name = d.name /\ x.version = d.spec}}

\* An importer's entry holds the specifier and the version.
PnpmCandidates(lock, d, importer) ==
    {Candidate(e.version, e.spec = d.spec) :
        e \in {x \in lock.installed :
                  x.importer = importer /\ x.group = d.group /\ x.name = d.name}}

\* A selector is the name and the specifier: whoever wrote it.
YarnCandidates(lock, d) ==
    {Candidate(e.version, TRUE) :
        e \in {x \in lock.installed : x.name = d.name /\ x.spec = d.spec}}

Candidates(lock, d, importer) ==
    CASE lock.manager = "npm"  -> NpmCandidates(lock, d, importer)
      [] lock.manager = "pnpm" -> PnpmCandidates(lock, d, importer)
      [] lock.manager = "yarn" -> YarnCandidates(lock, d)

Resolves(candidates) ==
    \E c \in candidates : c.matches /\ IsExact(c.version)

ResolutionIssues(candidates) ==
    IF candidates = {} THEN {"lockfile_resolution_missing"}
    ELSE IF \E c \in candidates : ~c.matches THEN {"lockfile_specifier_mismatch"}
    ELSE IF Resolves(candidates) THEN {} ELSE {"lockfile_resolution_non_semver"}

-----------------------------------------------------------------------------
(* The snapshot of an importer: the resolutions of its external            *)
(* declarations and the issues met on the way.                             *)

LockSnapshot(known, resolutions, issues) ==
    [known |-> known, resolutions |-> resolutions, issues |-> issues]

\* Nothing in the file can be read as an importer's dependencies.
Shapeless(lock, importer, declarations) ==
    \/ lock.manager = "pnpm" /\ declarations # {}
       /\ ~\E e \in lock.installed : e.importer = importer
    \/ lock.manager = "yarn" /\ declarations # {} /\ lock.installed = {}

ParseLock(lock, declarations, importer) ==
    IF ~lock.readable
    THEN LockSnapshot(FALSE, {}, {"lockfile_invalid"})
    ELSE LockSnapshot(
           TRUE,
           {[name |-> d.name, spec |-> d.spec, group |-> d.group,
             version |-> (CHOOSE c \in Candidates(lock, d, importer) : TRUE).version] :
               d \in {x \in declarations : Resolves(Candidates(lock, x, importer))}},
           (UNION {ResolutionIssues(Candidates(lock, d, importer)) : d \in declarations})
             \cup (IF Shapeless(lock, importer, declarations) THEN {"lockfile_invalid"} ELSE {}))

NormalizeResolvedDependencies(manager, locks, declarations, importer) ==
    LET selection == SelectLockfile(manager, locks)
    IN  IF selection.chosen = {}
        THEN LockSnapshot(FALSE, {}, selection.issues)
        ELSE ParseLock(CHOOSE l \in selection.chosen : TRUE, declarations, importer)

\* The version of a declaration when all of its resolutions agree on one.
ResolvedVersion(snapshot, name, spec) ==
    LET versions == {r.version : r \in {x \in snapshot.resolutions : x.name = name /\ x.spec = spec}}
    IN  IF \E v \in versions : versions = {v} THEN CHOOSE v \in versions : TRUE ELSE NoVersion

-----------------------------------------------------------------------------
(* Is a declaration a link to a workspace member?  Lockfile data decides,  *)
(* never the file system; what it cannot show stays unresolved.            *)

NpmLink(manager, locks, members, d, importer) ==
    LET selection == SelectLockfile(manager, locks)
        npm       == {l \in locks : l.manager = "npm"}
        readable  == {l \in npm : l.readable /\ l.format >= 2}
        found     == UNION {Installed(l, d.name, importer) : l \in readable}
        linked    == {e \in found : e.target # NoTarget}
        sameName  == \E m \in members : m.path # Root /\ m.packageName = d.name
        declared  == \E l \in readable :
                        [importer |-> importer, group |-> d.group,
                         name |-> d.name, spec |-> d.spec] \in l.declared
    IN  CASE \E l \in selection.chosen : l.manager # "npm"          -> "external"
          [] selection.chosen = {} /\ npm = {} /\ manager \notin {"npm", NoManager} -> "external"
          [] OTHER ->
             IF linked = {}
             THEN IF \/ ~sameName
                     \/ selection.chosen # {} /\ found # {} /\ declared
                  THEN "external" ELSE "unresolved"
             ELSE IF /\ selection.chosen # {} /\ declared
                     /\ \E e \in linked, m \in members :
                           m.path = e.target /\ m.packageName = d.name
                  THEN "internal" ELSE "unresolved"
=============================================================================
