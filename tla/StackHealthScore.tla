--------------------------- MODULE StackHealthScore ---------------------------
(***************************************************************************)
(* The score of a report from its inspection checks                        *)
(* (packages/scoring/src/stack-health-scorer.ts).  A check is a record     *)
(* [category, state, severity, ...]; points are whole, rounded down.       *)
(***************************************************************************)
EXTENDS Integers, FiniteSets, FiniteSetsExt

Category == {"dependencies", "security", "maintainability", "testing", "tooling"}
Ceiling  == {"dependencies", "security"}

Available(value) == [status |-> "available", value |-> value]
NotApplicable    == [status |-> "not_applicable", value |-> 0]
Insufficient     == [status |-> "insufficient_evidence", value |-> 0]

Band(severity) ==
    CASE severity = "none"     -> 100
      [] severity = "low"      -> 90
      [] severity = "medium"   -> 70
      [] severity = "high"     -> 40
      [] severity = "critical" -> 0

InState(checks, state) == {c \in checks : c.state = state}

RiskBand(category, applicable) ==
    IF category = "dependencies"
    THEN IF InState(applicable, "fail") = {} THEN Band("none") ELSE Band("medium")
    ELSE Min({Band(c.severity) : c \in applicable})

Readiness(applicable) ==
    (100 * Cardinality(InState(applicable, "pass"))) \div Cardinality(applicable)

\* Mutant: unknown checks are left out of the count.
CategoryScore_OfTheKnown(category, checks, ruleFailed) ==
    LET own        == {c \in checks : c.category = category}
        applicable == own \ (InState(own, "not_applicable") \cup InState(own, "unknown"))
    IN  IF ruleFailed \/ own = {} THEN Insufficient
        ELSE IF applicable = {} THEN NotApplicable
        ELSE Available(IF category \in Ceiling THEN RiskBand(category, applicable)
                                               ELSE Readiness(applicable))

\* One unknown check leaves its category without a number.
CategoryScore(category, checks, ruleFailed) ==
    LET own        == {c \in checks : c.category = category}
        applicable == own \ InState(own, "not_applicable")
    IN  IF ruleFailed \/ own = {} \/ InState(own, "unknown") # {} THEN Insufficient
        ELSE IF applicable = {} THEN NotApplicable
        ELSE Available(IF category \in Ceiling THEN RiskBand(category, applicable)
                                               ELSE Readiness(applicable))

\* The mean of the applicable categories, never above a risk band.
OverallScore(categories) ==
    LET available == {c \in Category : categories[c].status = "available"}
        mean      == MapThenSumSet(LAMBDA c : categories[c].value, available)
                       \div Cardinality(available)
    IN  IF \E c \in Category : categories[c].status = "insufficient_evidence" THEN Insufficient
        ELSE IF available = {} THEN NotApplicable
        ELSE Available(Min({mean} \cup {categories[c].value : c \in available \cap Ceiling}))

StackHealth(checks, ruleFailed) ==
    LET categories == [c \in Category |-> CategoryScore(c, checks, ruleFailed)]
    IN  [overall |-> OverallScore(categories), categories |-> categories]
=============================================================================
