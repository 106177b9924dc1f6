--------------------------- MODULE SemanticVersion ---------------------------
(***************************************************************************)
(* Exact semantic versions as packages/rules-javascript/src/semver.ts      *)
(* parses and orders them.  A version is a record [major, minor, patch,    *)
(* pre]; an identifier of pre is <<0, n>> when it is numeric and <<1, n>>  *)
(* when it is not, n being its rank in code-unit order.  Build metadata    *)
(* takes no part in the order and is left out.                             *)
(***************************************************************************)
EXTENDS Integers, Sequences

CONSTANT MaxSafeInteger    \* Number.MAX_SAFE_INTEGER, the widest number parsed

ASSUME SafeIntegerAssumption == MaxSafeInteger \in Nat

Identifier == {0, 1} \X Nat
SemVer     == [major : Nat, minor : Nat, patch : Nat, pre : Seq(Identifier)]

\* A specifier the pattern does not match ("^1.2.0", "workspace:*").
RangeSpecifier(text) == [range |-> text]
NoVersion == RangeSpecifier("no version")

\* A matching text is an exact version when its numbers are safe integers.
IsExact(spec) ==
    /\ "major" \in DOMAIN spec
    /\ {spec.major, spec.minor, spec.patch} \subseteq 0..MaxSafeInteger
    /\ \A i \in DOMAIN spec.pre : spec.pre[i][1] = 0 => spec.pre[i][2] =< MaxSafeInteger

Order(l, r) == IF l = r THEN 0 ELSE IF l < r THEN -1 ELSE 1

\* Numeric identifiers come before alphanumeric ones.
CompareIdentifier(l, r) ==
    IF l[1] # r[1] THEN Order(l[1], r[1]) ELSE Order(l[2], r[2])

\* The positions both lists have and at which they differ.
Differing(l, r) == {i \in DOMAIN l \cap DOMAIN r : l[i] # r[i]}

\* The first difference decides; without one the shorter list comes first.
ComparePrerelease(l, r) ==
    IF Differing(l, r) = {}
    THEN Order(Len(l), Len(r))
    ELSE LET first == CHOOSE i \in Differing(l, r) : \A j \in Differing(l, r) : i =< j
         IN  CompareIdentifier(l[first], r[first])

\* A release comes after its own prereleases.
CompareSemanticVersions(l, r) ==
    IF l.major # r.major THEN Order(l.major, r.major)
    ELSE IF l.minor # r.minor THEN Order(l.minor, r.minor)
    ELSE IF l.patch # r.patch THEN Order(l.patch, r.patch)
    ELSE IF l.pre = <<>> THEN (IF r.pre = <<>> THEN 0 ELSE 1)
    ELSE IF r.pre = <<>> THEN -1
    ELSE ComparePrerelease(l.pre, r.pre)

NewerVersionDifference(declared, comparison) ==
    IF CompareSemanticVersions(comparison, declared) =< 0 THEN "none"
    ELSE IF comparison.major # declared.major THEN "major"
    ELSE IF comparison.minor # declared.minor THEN "minor"
    ELSE IF comparison.patch # declared.patch THEN "patch"
    ELSE "prerelease"
=============================================================================
