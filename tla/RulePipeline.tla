--------------------------- MODULE RulePipeline ---------------------------
(***************************************************************************)
(* The rule pipeline of packages/analyzer-core: fact rules, finding rules, *)
(* one prioritizer, recommendation rules and a scorer turn a collected     *)
(* context into a report.  Rules are plugged in, so what an evaluation     *)
(* returns is arbitrary: an output is kept as a whole if it passes the     *)
(* checks of its stage, and otherwise omitted as a whole and replaced by   *)
(* one partial failure and one limitation.  The report that results is     *)
(* then parsed by a schema that checks every reference again, and a report *)
(* the schema rejects is lost with all the work of the other rules.        *)
(*                                                                         *)
(* Rules are numbers, in the code-unit order of their identifiers.         *)
(***************************************************************************)
EXTENDS Naturals, FiniteSets

CONSTANTS
    FactRule, FindingRule, RecommendationRule, Prioritizer,
    Id,                   \* identifiers of facts, findings, recommendations, evidence, sources
    Name,                 \* identifiers preferred for limitations and partial failures
    Truncate(_),          \* what slice(0, 200) leaves of <<code, rule, subject>>
    Evidence, Source,     \* the evidence and the usable sources of the context
    ContextLimitations, ContextFailures,
    FactOutput, FindingOutput, RecommendationOutput,    \* what an evaluation may return
    Priority, Scores,     \* what the prioritizer and the scorer may return
    SchemaVersion         \* of the report: 1 or 2

Rule == FactRule \cup FindingRule \cup RecommendationRule \cup {Prioritizer}

RuleFailureCode     == {"rule_evaluation_failed", "rule_output_invalid"}
PriorityFailureCode == {"priority_evaluation_failed", "priority_output_invalid"}
FailureCode == RuleFailureCode \cup PriorityFailureCode

NoRule    == 0        \* a partial failure of a source or of the acquisition
NoSubject == "rule"   \* a failure that is about no particular finding

\* A preferred identifier and the counter that made it unique.
LimitationId == Name \X (Nat \ {0})

Ending == {"returns", "throws", "misshapen"}   \* misshapen: not the schema's shape

Fact == [rule : Rule, id : Id, evidence : SUBSET Id, details : {"plain", "check"},
         cites : SUBSET LimitationId]
Finding == [rule : Rule, id : Id, evidence : SUBSET Id, facts : SUBSET Id,
            limitations : SUBSET LimitationId, basis : {"fact", "heuristic"},
            confidence : SUBSET Id, factors : SUBSET Id]
Recommendation == [rule : Rule, id : Id, evidence : SUBSET Id, findings : SUBSET Id,
                   basis : {"fact", "heuristic"}, confidence : SUBSET Id]
Limitation == [id : LimitationId, kind : {"partial_failure", "other"}, rules : SUBSET Rule,
               sources : SUBSET Id, about : Id \cup {NoSubject}]
PartialFailure == [id : LimitationId, code : FailureCode \cup {"source"},
                   rule : Rule \cup {NoRule}]

Output(Entity) == [end : Ending, entities : SUBSET Entity, limitations : SUBSET Limitation]

ASSUME RuleAssumption ==
    /\ Rule \subseteq Nat \ {NoRule}
    /\ FactRule \cap FindingRule = {}
    /\ (FactRule \cup FindingRule) \cap RecommendationRule = {}
    /\ Prioritizer \notin FactRule \cup FindingRule \cup RecommendationRule
ASSUME NameAssumption ==
    /\ NoSubject \notin Id
    /\ \A code \in FailureCode, rule \in Rule, subject \in Id \cup {NoSubject} :
           Truncate(<<code, rule, subject>>) \in Name
ASSUME OutputAssumption ==
    /\ \A out \in FactOutput : out \in Output(Fact)
    /\ \A out \in FindingOutput : out \in Output(Finding)
    /\ \A out \in RecommendationOutput : out \in Output(Recommendation)
    /\ \A out \in FactOutput \cup FindingOutput \cup RecommendationOutput :
           /\ IsFiniteSet(out.limitations)
           /\ \A l \in out.limitations : l.kind = "other" /\ l.about = NoSubject
    /\ \A p \in Priority : p \in [end : Ending, rule : Rule, factors : SUBSET Id]

Ids(S) == {x.id : x \in S}
Distinct(S) == \A x, y \in S : x.id = y.id => x = y

\* The orchestrator hands over a consistent context, in which no rule has spoken yet.
ASSUME ContextAssumption ==
    /\ Evidence \subseteq Id /\ Source \subseteq Id
    /\ IsFiniteSet(ContextLimitations) /\ IsFiniteSet(ContextFailures)
    /\ \A l \in ContextLimitations :
           /\ l \in Limitation /\ l.rules = {} /\ l.about = NoSubject
           /\ l.sources \subseteq Source
    /\ \A p \in ContextFailures : p \in PartialFailure /\ p.rule = NoRule
    /\ Distinct(ContextLimitations) /\ Distinct(ContextFailures)

VARIABLES
    phase,            \* where runRulePipeline, runAnalyzer and the assembly are
    pending,          \* rules of this phase still to evaluate
    unranked,         \* finding candidates still to prioritize
    facts, candidates, findings, recommendations,
    limitations, failures,
    scores

vars == <<phase, pending, unranked, facts, candidates, findings, recommendations,
          limitations, failures, scores>>

Phase == {"facts", "findings", "priority", "recommendations", "scoring", "assembly",
          "reported", "rejected", "aborted"}
NoScores == [end |-> "none"]

Init ==
    /\ phase = "facts"
    /\ pending = FactRule
    /\ unranked = {}
    /\ facts = {} /\ candidates = {} /\ findings = {} /\ recommendations = {}
    /\ limitations = ContextLimitations
    /\ failures = ContextFailures
    /\ scores = NoScores

(***************************************************************************)
(* What a stage checks of an output, all of it before any of it is kept.   *)
(***************************************************************************)
\* Contract shape, ownership of the entities, self-reference of the limitations.
Owned(r, out) ==
    /\ out.end = "returns"
    /\ \A e \in out.entities : e.rule = r
    /\ \A l \in out.limitations : r \in l.rules

\* assertNoDuplicateIds
Fresh(existing, S) == Distinct(S) /\ \A x \in S : x.id \notin Ids(existing)

\* assertEvidenceReferences
KnownEvidence(S) == \A x \in S : x.evidence \subseteq Evidence

FactsAccepted(r, out) ==
    /\ Owned(r, out)
    /\ Fresh(facts, out.entities)
    /\ KnownEvidence(out.entities)
    /\ Fresh(limitations, out.limitations)

FindingsAccepted_AnyLimitation(r, out) ==          \* mutant: limitationIds not looked up
    /\ Owned(r, out)
    /\ Fresh(candidates, out.entities)
    /\ Fresh(limitations, out.limitations)
    /\ KnownEvidence(out.entities)
    /\ \A f \in out.entities :
          /\ f.facts \subseteq Ids(facts)
          /\ f.basis = "heuristic" => f.confidence \subseteq f.facts

\* assertFindingReferences: a finding may cite the limitations its own output adds.
FindingsAccepted(r, out) ==
    /\ Owned(r, out)
    /\ Fresh(candidates, out.entities)
    /\ Fresh(limitations, out.limitations)
    /\ KnownEvidence(out.entities)
    /\ \A f \in out.entities :
          /\ f.facts \subseteq Ids(facts)
          /\ f.limitations \subseteq Ids(limitations) \cup Ids(out.limitations)
          /\ f.basis = "heuristic" => f.confidence \subseteq f.facts

\* A fact-based recommendation cites no heuristic finding, a heuristic one at least one.
BasisAgrees(rec, published) ==
    LET heuristic == {f \in published : f.id \in rec.findings /\ f.basis = "heuristic"}
    IN  rec.basis = "fact" <=> heuristic = {}

RecommendationsAccepted_Candidates(r, out) ==      \* mutant: omitted findings still citable
    /\ Owned(r, out)
    /\ Fresh(recommendations, out.entities)
    /\ Fresh(limitations, out.limitations)
    /\ KnownEvidence(out.entities)
    /\ \A rec \in out.entities :
          /\ rec.findings \subseteq Ids(candidates)
          /\ BasisAgrees(rec, candidates)
          /\ rec.basis = "heuristic" => rec.confidence \subseteq Ids(facts)

\* assertRecommendationReferences
RecommendationsAccepted(r, out) ==
    /\ Owned(r, out)
    /\ Fresh(recommendations, out.entities)
    /\ Fresh(limitations, out.limitations)
    /\ KnownEvidence(out.entities)
    /\ \A rec \in out.entities :
          /\ rec.findings \subseteq Ids(findings)
          /\ BasisAgrees(rec, findings)
          /\ rec.basis = "heuristic" => rec.confidence \subseteq Ids(facts)

(***************************************************************************)
(* What replaces an output that is omitted.                                *)
(***************************************************************************)
\* The preferred identifier itself if nobody has it, else the first free counter.
AllocateIdentifier(name, S) ==
    LET taken(n) == <<name, n>> \in Ids(S)
    IN  <<name, CHOOSE n \in 1..(Cardinality(S) + 1) :
                    ~taken(n) /\ \A m \in 1..(n - 1) : taken(m)>>

\* createFailureArtifacts: the limitation's message names the finding that was dropped.
FailureLimitation(code, r, subject) ==
    [id |-> AllocateIdentifier(Truncate(<<code, r, subject>>), limitations),
     kind |-> "partial_failure", rules |-> {r}, sources |-> {}, about |-> subject]
FailureRecord(code, r, subject) ==
    [id |-> AllocateIdentifier(Truncate(<<code, r, subject>>), failures),
     code |-> code, rule |-> r]

Omit(code, r, subject) ==
    /\ limitations' = limitations \cup {FailureLimitation(code, r, subject)}
    /\ failures' = failures \cup {FailureRecord(code, r, subject)}

RuleFailure(out) ==
    IF out.end = "throws" THEN "rule_evaluation_failed" ELSE "rule_output_invalid"
PriorityFailure(p) ==
    IF p.end = "throws" THEN "priority_evaluation_failed" ELSE "priority_output_invalid"

(***************************************************************************)
(* The stages.                                                             *)
(***************************************************************************)
\* sortedRules: the least identifier first, whatever order rules were registered in.
Due(r) == r \in pending /\ \A s \in pending : r <= s

Keep(out) == limitations' = limitations \cup out.limitations /\ failures' = failures

Settle_KeepLimitations(r, out, accepted) ==        \* mutant: limitations pushed before the checks
    IF accepted THEN Keep(out)
    ELSE /\ limitations' = limitations \cup out.limitations
                                       \cup {FailureLimitation(RuleFailure(out), r, NoSubject)}
         /\ failures' = failures \cup {FailureRecord(RuleFailure(out), r, NoSubject)}

Settle(r, out, accepted) ==
    IF accepted THEN Keep(out) ELSE Omit(RuleFailure(out), r, NoSubject)

Evaluated(r) == Due(r) /\ pending' = pending \ {r}

FactRuleRuns(r, out) ==
    /\ phase = "facts" /\ Evaluated(r)
    /\ facts' = IF FactsAccepted(r, out) THEN facts \cup out.entities ELSE facts
    /\ Settle(r, out, FactsAccepted(r, out))
    /\ UNCHANGED <<phase, unranked, candidates, findings, recommendations, scores>>

FindingRuleRuns(r, out) ==
    /\ phase = "findings" /\ Evaluated(r)
    /\ candidates' = IF FindingsAccepted(r, out) THEN candidates \cup out.entities
                     ELSE candidates
    /\ Settle(r, out, FindingsAccepted(r, out))
    /\ UNCHANGED <<phase, unranked, facts, findings, recommendations, scores>>

PriorityAccepted(p, c) ==
    p.end = "returns" /\ p.rule = Prioritizer /\ c.id \notin Ids(findings)

Prioritize_Silently(c, p) ==            \* mutant: a finding without a priority just vanishes
    /\ phase = "priority" /\ c \in unranked
    /\ unranked' = unranked \ {c}
    /\ findings' = IF PriorityAccepted(p, c)
                   THEN findings \cup {[c EXCEPT !.factors = p.factors]} ELSE findings
    /\ UNCHANGED <<phase, pending, facts, candidates, recommendations, limitations,
                   failures, scores>>

Prioritize(c, p) ==
    /\ phase = "priority" /\ c \in unranked
    /\ unranked' = unranked \ {c}
    /\ \/ /\ PriorityAccepted(p, c)
          /\ findings' = findings \cup {[c EXCEPT !.factors = p.factors]}
          /\ UNCHANGED <<limitations, failures>>
       \/ /\ ~PriorityAccepted(p, c)
          /\ Omit(PriorityFailure(p), Prioritizer, c.id)
          /\ findings' = findings
    /\ UNCHANGED <<phase, pending, facts, candidates, recommendations, scores>>

RecommendationRuleRuns(r, out) ==
    /\ phase = "recommendations" /\ Evaluated(r)
    /\ recommendations' = IF RecommendationsAccepted(r, out)
                          THEN recommendations \cup out.entities ELSE recommendations
    /\ Settle(r, out, RecommendationsAccepted(r, out))
    /\ UNCHANGED <<phase, unranked, facts, candidates, findings, scores>>

NextStage ==
    /\ pending = {} /\ unranked = {}
    /\ \/ /\ phase = "facts" /\ phase' = "findings"
          /\ pending' = FindingRule /\ unranked' = {}
       \/ /\ phase = "findings" /\ phase' = "priority"
          /\ pending' = {} /\ unranked' = candidates
       \/ /\ phase = "priority" /\ phase' = "recommendations"
          /\ pending' = RecommendationRule /\ unranked' = {}
       \/ /\ phase = "recommendations" /\ phase' = "scoring"
          /\ pending' = {} /\ unranked' = {}
    /\ UNCHANGED <<facts, candidates, findings, recommendations, limitations, failures,
                   scores>>

\* The scorer runs once; what it throws ends the analysis.
Score(s) ==
    /\ phase = "scoring"
    /\ \/ s.end = "throws" /\ phase' = "aborted" /\ scores' = scores
       \/ s.end = "returns" /\ phase' = "assembly" /\ scores' = s
    /\ UNCHANGED <<pending, unranked, facts, candidates, findings, recommendations,
                   limitations, failures>>

(***************************************************************************)
(* validateReport: what the schema requires of the assembled report.       *)
(***************************************************************************)
UniqueIds == \A S \in {facts, findings, recommendations, limitations, failures} : Distinct(S)

FactsResolve == KnownEvidence(facts)

FindingResolves(f) ==
    /\ f.facts \subseteq Ids(facts)
    /\ f.limitations \subseteq Ids(limitations)
    /\ f.basis = "heuristic" => f.confidence \subseteq f.facts
FindingsResolve == KnownEvidence(findings) /\ \A f \in findings : FindingResolves(f)

RecommendationsResolve ==
    /\ KnownEvidence(recommendations)
    /\ \A rec \in recommendations :
          /\ rec.findings \subseteq Ids(findings)
          /\ BasisAgrees(rec, findings)
          /\ rec.basis = "heuristic" => rec.confidence \subseteq Ids(facts)

\* The four requirements no stage of the pipeline has checked before.
FactorsResolve == \A f \in findings : f.factors \subseteq Evidence
ChecksResolve ==
    \A f \in facts : f.details = "check" =>
        SchemaVersion = 2 /\ f.cites \subseteq Ids(limitations)
SourcesResolve == \A l \in limitations : l.sources \subseteq Source
ScoresResolve ==
    /\ scores.findings \subseteq Ids(findings)
    /\ scores.facts \subseteq Ids(facts)
    /\ scores.evidence \subseteq Evidence
    /\ scores.limitations \subseteq Ids(limitations)

Unchecked == FactorsResolve /\ ChecksResolve /\ SourcesResolve /\ ScoresResolve

ReportAccepted ==
    UniqueIds /\ FactsResolve /\ FindingsResolve /\ RecommendationsResolve /\ Unchecked

Assemble ==
    /\ phase = "assembly"
    /\ phase' = IF ReportAccepted THEN "reported" ELSE "rejected"
    /\ UNCHANGED <<pending, unranked, facts, candidates, findings, recommendations,
                   limitations, failures, scores>>

Next ==
    \/ \E r \in FactRule, out \in FactOutput : FactRuleRuns(r, out)
    \/ \E r \in FindingRule, out \in FindingOutput : FindingRuleRuns(r, out)
    \/ \E c \in unranked, p \in Priority : Prioritize(c, p)
    \/ \E r \in RecommendationRule, out \in RecommendationOutput :
           RecommendationRuleRuns(r, out)
    \/ NextStage
    \/ \E s \in Scores : Score(s)
    \/ Assemble

Spec == Init /\ [][Next]_vars
(***************************************************************************)
(* Correctness.                                                            *)
(***************************************************************************)
PipelineTypeOK ==
    /\ phase \in Phase
    /\ pending \subseteq Rule
    /\ unranked \subseteq candidates
    /\ facts \subseteq Fact
    /\ candidates \subseteq Finding /\ findings \subseteq Finding
    /\ recommendations \subseteq Recommendation
    /\ limitations \subseteq Limitation /\ IsFiniteSet(limitations)
    /\ failures \subseteq PartialFailure /\ IsFiniteSet(failures)

\* The stages fill their collections in order.
StagesInOrder ==
    /\ phase = "facts" => candidates = {} /\ pending \subseteq FactRule
    /\ phase = "findings" => pending \subseteq FindingRule
    /\ phase \in {"facts", "findings"} => findings = {} /\ unranked = {}
    /\ phase \in {"facts", "findings", "priority"} => recommendations = {}
    /\ phase = "recommendations" => pending \subseteq RecommendationRule
    /\ phase \notin {"facts", "findings", "recommendations"} => pending = {}
    /\ phase # "priority" => unranked = {}

CandidatesResolve ==
    /\ Distinct(candidates)
    /\ KnownEvidence(candidates) /\ \A f \in candidates : FindingResolves(f)

\* Rules that have not run yet.
Waiting ==
    pending \cup (IF phase = "facts" THEN FindingRule \cup RecommendationRule
                  ELSE IF phase \in {"findings", "priority"} THEN RecommendationRule
                  ELSE {})

SpokeAlone(r) == {l \in limitations : l.rules = {r}}
Entities == facts \cup candidates \cup recommendations
Emitted(r) == {e \in Entities : e.rule = r}

\* Nobody speaks for a rule before it runs: neither its own outputs nor its failure exist.
WaitingIsSilent ==
    \A r \in Waiting : /\ Emitted(r) = {} /\ r \notin {p.rule : p \in failures}
                       /\ \A l \in limitations : l.rules # {r}

\* README of analyzer-core: the outputs of a rule that throws or emits invalid output are
\* omitted, all of them, and one partial failure and one limitation of the rule's own say
\* so, whatever the rule managed to put into its output before the part that was wrong.
FailedRuleLeavesNothing ==
    \A p \in failures : p.rule \notin {NoRule, Prioritizer} =>
        /\ Emitted(p.rule) = {}
        /\ \A q \in failures : q.rule = p.rule => q = p
        /\ \E l \in limitations : l.kind = "partial_failure" /\ SpokeAlone(p.rule) = {l}

\* A finding whose priority failed is omitted and accounted for: past the priority stage
\* every candidate is either published or the subject of one limitation, never both and
\* never neither, even when preferred identifiers collide.
NothingDroppedSilently ==
    \A c \in candidates \ unranked : phase \notin {"facts", "findings"} =>
        (c.id \in Ids(findings) <=> ~\E l \in limitations : l.about = c.id)

\* What prioritization has said so far is about candidates it has taken.
RankingIsOrderly ==
    /\ Ids(findings) \subseteq Ids(candidates \ unranked)
    /\ \A l \in limitations : l.about # NoSubject =>
          phase \notin {"facts", "findings"} /\ l.about \in Ids(candidates \ unranked)

\* The final integrity boundary never meets a report that is broken in anything the stages
\* check: unknown or omitted facts, findings, limitations and evidence, clashing
\* identifiers, bases that disagree.  A report is lost only to what no stage has checked.
RejectedOnlyByUnchecked == phase = "rejected" => ~Unchecked

\* The inductive invariant of RulePipeline_proofs.
PipelineInv ==
    /\ PipelineTypeOK
    /\ StagesInOrder
    /\ UniqueIds
    /\ FactsResolve /\ CandidatesResolve /\ FindingsResolve /\ RecommendationsResolve
    /\ WaitingIsSilent
    /\ FailedRuleLeavesNothing
    /\ RankingIsOrderly
    /\ NothingDroppedSilently
    /\ RejectedOnlyByUnchecked
=============================================================================
