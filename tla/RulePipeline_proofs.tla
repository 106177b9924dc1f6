------------------------ MODULE RulePipeline_proofs ------------------------
(* The rule pipeline for every rule set and everything its rules may return. *)
EXTENDS RulePipeline, FiniteSetTheorems, WellFoundedInduction, TLAPS

\* Among n preferred identifiers with different counters, one is free in a set of n - 1.
LEMMA SomeCounterIsFree ==
  ASSUME NEW S, IsFiniteSet(S), NEW name
  PROVE  \E n \in 1..(Cardinality(S) + 1) : <<name, n>> \notin Ids(S)
<1> DEFINE k == Cardinality(S) + 1
           f == [n \in 1..k |-> CHOOSE x \in S : x.id = <<name, n>>]
<1>1. Cardinality(S) \in Nat
  BY FS_CardinalityType
<1>2. SUFFICES ASSUME \A n \in 1..k : <<name, n>> \in Ids(S) PROVE FALSE
  OBVIOUS
<1>3. \A n \in 1..k : f[n] \in S /\ f[n].id = <<name, n>>
  <2> TAKE n \in 1..k
  <2>1. \E x \in S : x.id = <<name, n>>
    BY <1>2 DEF Ids
  <2> QED
    BY <2>1
<1>4. f \in Injection(1..k, S)
  <2> HIDE DEF f
  <2>1. f \in [1..k -> S]
    <3>1. f = [n \in 1..k |-> f[n]]
      BY DEF f
    <3> QED
      BY <1>3, <3>1
  <2>2. \A m, n \in 1..k : f[m] = f[n] => m = n
    <3> TAKE m \in 1..k, n \in 1..k
    <3> HAVE f[m] = f[n]
    <3>1. <<name, m>> = <<name, n>>
      BY <1>3
    <3> QED
      BY <3>1
  <2> QED
    BY <2>1, <2>2 DEF Injection, IsInjective
<1>5. Cardinality(1..k) <= Cardinality(S)
  BY <1>4, FS_Injection
<1>6. Cardinality(1..k) = k
  <2>1. 1 \in Int /\ k \in Int /\ ~(1 > k)
    BY <1>1
  <2> QED
    BY <1>1, <2>1, FS_Interval
<1> QED
  BY <1>1, <1>5, <1>6

\* The loop of allocateIdentifier ends, and with an identifier nobody has.
THEOREM AllocatedIsFresh ==
  ASSUME NEW S, IsFiniteSet(S), NEW name
  PROVE  /\ AllocateIdentifier(name, S) \notin Ids(S)
         /\ \E n \in Nat \ {0} : AllocateIdentifier(name, S) = <<name, n>>
<1> DEFINE Free == {n \in 1..(Cardinality(S) + 1) : <<name, n>> \notin Ids(S)}
<1>1. Cardinality(S) \in Nat
  BY FS_CardinalityType
<1>2. Free # {} /\ Free \subseteq Nat
  BY <1>1, SomeCounterIsFree
<1>3. PICK n \in Free : \A m \in Free : ~(<<m, n>> \in OpToRel(<, Nat))
  BY <1>2, WFMin, NatLessThanWellFounded
<1>4. \A m \in 1..(n - 1) : <<name, m>> \in Ids(S)
  <2> SUFFICES ASSUME NEW m \in 1..(n - 1), <<name, m>> \notin Ids(S) PROVE FALSE
    OBVIOUS
  <2>1. m \in Free /\ m \in Nat /\ n \in Nat /\ m < n
    BY <1>1
  <2>2. <<m, n>> \in OpToRel(<, Nat)
    BY <2>1 DEF OpToRel
  <2> QED
    BY <1>3, <2>1, <2>2
<1>5. PICK n0 \in 1..(Cardinality(S) + 1) :
          /\ AllocateIdentifier(name, S) = <<name, n0>>
          /\ <<name, n0>> \notin Ids(S)
  BY <1>4 DEF AllocateIdentifier
<1> QED
  BY <1>1, <1>5

(***************************************************************************)
(* What is common to the rules of the three stages: an output is kept as a *)
(* whole, or omitted as a whole.                                           *)
(***************************************************************************)
\* The bookkeeping an evaluation may disturb whatever its stage.
Books == /\ limitations \subseteq Limitation /\ IsFiniteSet(limitations)
         /\ failures \subseteq PartialFailure /\ IsFiniteSet(failures)
         /\ Distinct(limitations) /\ Distinct(failures)

LEMMA OmitKeepsBooks ==
  ASSUME Books, NEW code \in FailureCode, NEW r \in Rule, NEW subject \in Id \cup {NoSubject},
         Omit(code, r, subject)
  PROVE  /\ Books'
         /\ \E l \in limitations' :
               /\ limitations' = limitations \cup {l} /\ l \notin limitations
               /\ l.kind = "partial_failure" /\ l.rules = {r} /\ l.about = subject
         /\ \E p \in failures' :
               /\ failures' = failures \cup {p} /\ p \notin failures /\ p.rule = r
<1> DEFINE name == Truncate(<<code, r, subject>>)
           l == FailureLimitation(code, r, subject)
           p == FailureRecord(code, r, subject)
<1>1. name \in Name
  BY NameAssumption
<1>2. AllocateIdentifier(name, limitations) \in LimitationId \ Ids(limitations)
  BY <1>1, AllocatedIsFresh DEF Books, LimitationId
<1>3. AllocateIdentifier(name, failures) \in LimitationId \ Ids(failures)
  BY <1>1, AllocatedIsFresh DEF Books, LimitationId
<1>4. /\ l \in Limitation /\ l.id \notin Ids(limitations)
      /\ l.kind = "partial_failure" /\ l.rules = {r} /\ l.about = subject
  BY <1>2 DEF FailureLimitation, Limitation
<1>5. p \in PartialFailure /\ p.id \notin Ids(failures) /\ p.rule = r
  BY <1>3 DEF FailureRecord, PartialFailure
<1>6. limitations' = limitations \cup {l} /\ failures' = failures \cup {p}
  BY DEF Omit
<1> HIDE DEF l, p
<1>7. IsFiniteSet(limitations') /\ IsFiniteSet(failures')
  BY <1>6, FS_AddElement DEF Books
<1>8. Distinct(limitations')
  BY <1>4, <1>6 DEF Books, Distinct, Ids
<1>9. Distinct(failures')
  BY <1>5, <1>6 DEF Books, Distinct, Ids
<1>10. limitations' \subseteq Limitation /\ failures' \subseteq PartialFailure
  BY <1>4, <1>5, <1>6 DEF Books
<1>11. l \notin limitations /\ p \notin failures
  BY <1>4, <1>5 DEF Ids
<1> QED
  BY <1>4, <1>5, <1>6, <1>7, <1>8, <1>9, <1>10, <1>11 DEF Books

\* What an evaluation leaves of the invariant, its stage's own part aside.
Accounts == Books' /\ limitations \subseteq limitations' /\ WaitingIsSilent' /\ FailedRuleLeavesNothing'
            /\ \A l \in limitations' : l \in limitations \/ l.about = NoSubject

LEMMA OmittedIsAccounted ==
  ASSUME PipelineInv, NEW r \in Waiting, NEW out, r \in Rule \ {Prioritizer},
         Omit(RuleFailure(out), r, NoSubject),
         Waiting' \subseteq Waiting \ {r}, Entities' = Entities
  PROVE  Accounts
<1>1. Books
  BY DEF PipelineInv, PipelineTypeOK, UniqueIds, Books
<1>2. RuleFailure(out) \in FailureCode
  BY DEF RuleFailure, FailureCode, RuleFailureCode
<1>3. PICK l \in limitations' :
         /\ limitations' = limitations \cup {l} /\ l \notin limitations
         /\ l.kind = "partial_failure" /\ l.rules = {r} /\ l.about = NoSubject
  BY <1>1, <1>2, OmitKeepsBooks
<1>4. PICK p \in failures' :
         failures' = failures \cup {p} /\ p \notin failures /\ p.rule = r
  BY <1>1, <1>2, OmitKeepsBooks
<1>5. Books'
  BY <1>1, <1>2, OmitKeepsBooks
<1>6. /\ Emitted(r) = {} /\ \A q \in failures : q.rule # r
      /\ \A k \in limitations : k.rules # {r}
  BY DEF PipelineInv, WaitingIsSilent
<1>7. \A s : Emitted(s)' = Emitted(s)
  BY DEF Emitted
<1>8. WaitingIsSilent'
  BY <1>3, <1>4, <1>7 DEF PipelineInv, WaitingIsSilent
<1>9. FailedRuleLeavesNothing'
  <2> SUFFICES ASSUME NEW q \in failures', q.rule \notin {NoRule, Prioritizer}
               PROVE  /\ Emitted(q.rule) = {}
                      /\ \A t \in failures' : t.rule = q.rule => t = q
                      /\ \E k \in limitations' :
                            k.kind = "partial_failure" /\ SpokeAlone(q.rule)' = {k}
    BY <1>7 DEF FailedRuleLeavesNothing
  <2>1. CASE q = p
    <3>1. SpokeAlone(r)' = {l}
      BY <1>3, <1>6 DEF SpokeAlone
    <3> QED
      BY <2>1, <3>1, <1>3, <1>4, <1>6
  <2>2. CASE q # p
    <3>1. q \in failures /\ q.rule # r
      BY <2>2, <1>4, <1>6
    <3>2. SpokeAlone(q.rule)' = SpokeAlone(q.rule)
      BY <3>1, <1>3 DEF SpokeAlone
    <3> QED
      BY <3>1, <3>2, <1>3, <1>4 DEF PipelineInv, FailedRuleLeavesNothing
  <2> QED
    BY <2>1, <2>2
<1> QED
  BY <1>3, <1>5, <1>8, <1>9 DEF Accounts

LEMMA KeptIsAccounted ==
  ASSUME PipelineInv, NEW r \in Waiting, NEW out, r \in Rule \ {Prioritizer},
         out.limitations \subseteq Limitation, IsFiniteSet(out.limitations),
         \A l \in out.limitations : l.about = NoSubject,
         Owned(r, out), Fresh(limitations, out.limitations),
         Keep(out),
         Waiting' \subseteq Waiting \ {r},
         \A e \in Entities' : e \in Entities \/ e.rule = r
  PROVE  Accounts
<1>1. Books
  BY DEF PipelineInv, PipelineTypeOK, UniqueIds, Books
<1>2. limitations' = limitations \cup out.limitations /\ failures' = failures
  BY DEF Keep
<1>3. Books'
  <2>1. IsFiniteSet(limitations')
    BY <1>1, <1>2, FS_Union DEF Books
  <2>2. Distinct(limitations')
    BY <1>1, <1>2 DEF Books, Fresh, Distinct, Ids
  <2> QED
    BY <1>1, <1>2, <2>1, <2>2 DEF Books, Distinct
<1>4. \A l \in out.limitations : r \in l.rules
  BY DEF Owned
<1>5. /\ \A e \in Entities : e.rule # r
      /\ \A q \in failures : q.rule # r
  BY DEF PipelineInv, WaitingIsSilent, Emitted
<1>6. \A s : s # r => SpokeAlone(s)' = SpokeAlone(s) /\ Emitted(s)' \subseteq Emitted(s)
  BY <1>2, <1>4 DEF SpokeAlone, Emitted
<1>7. WaitingIsSilent'
  <2> SUFFICES ASSUME NEW s \in Waiting \ {r}
               PROVE  /\ Emitted(s)' = {} /\ s \notin {q.rule : q \in failures}
                      /\ \A l \in limitations' : l.rules # {s}
    BY <1>2 DEF WaitingIsSilent
  <2>1. \A l \in limitations' : l.rules # {s}
    BY <1>2, <1>4 DEF PipelineInv, WaitingIsSilent
  <2> QED
    BY <2>1, <1>6 DEF PipelineInv, WaitingIsSilent
<1>8. FailedRuleLeavesNothing'
  <2> SUFFICES ASSUME NEW q \in failures, q.rule \notin {NoRule, Prioritizer}
               PROVE  /\ Emitted(q.rule)' = {}
                      /\ \A t \in failures : t.rule = q.rule => t = q
                      /\ \E k \in limitations' :
                            k.kind = "partial_failure" /\ SpokeAlone(q.rule)' = {k}
    BY <1>2 DEF FailedRuleLeavesNothing
  <2>1. q.rule # r
    BY <1>5
  <2> QED
    BY <2>1, <1>2, <1>6 DEF PipelineInv, FailedRuleLeavesNothing
<1> QED
  BY <1>2, <1>3, <1>7, <1>8 DEF Accounts

(***************************************************************************)
(* One lemma per action.                                                   *)
(***************************************************************************)
LEMMA InitPipelineInv == Init => PipelineInv
<1> SUFFICES ASSUME Init PROVE PipelineInv
  OBVIOUS
<1> USE DEF Init
<1>1. PipelineTypeOK
  BY ContextAssumption DEF PipelineTypeOK, Phase, Rule
<1>2. UniqueIds
  BY ContextAssumption DEF UniqueIds, Distinct
<1>3. StagesInOrder
  BY DEF StagesInOrder
<1>4. FactsResolve /\ CandidatesResolve /\ FindingsResolve /\ RecommendationsResolve
  BY DEF FactsResolve, CandidatesResolve, FindingsResolve, RecommendationsResolve,
         KnownEvidence, Distinct
<1>5. WaitingIsSilent
  <2>1. Waiting \subseteq Rule /\ \A r \in Rule : r # NoRule
    BY RuleAssumption DEF Waiting, Rule
  <2> QED
    BY <2>1, ContextAssumption DEF WaitingIsSilent, Emitted, Entities
<1>6. FailedRuleLeavesNothing
  BY ContextAssumption DEF FailedRuleLeavesNothing
<1>7. RankingIsOrderly /\ NothingDroppedSilently
  BY ContextAssumption DEF RankingIsOrderly, NothingDroppedSilently, Ids
<1>8. RejectedOnlyByUnchecked
  BY DEF RejectedOnlyByUnchecked
<1> QED
  BY <1>1, <1>2, <1>3, <1>4, <1>5, <1>6, <1>7, <1>8 DEF PipelineInv

\* A fact rule adds facts that are grounded in the evidence, or nothing.
LEMMA FactRunKeeps ==
  ASSUME PipelineInv, NEW r \in FactRule, NEW out \in FactOutput, FactRuleRuns(r, out)
  PROVE  PipelineInv'
<1>1. /\ phase = "facts" /\ phase' = "facts" /\ r \in pending /\ pending' = pending \ {r}
      /\ UNCHANGED <<unranked, candidates, findings, recommendations, scores>>
  BY DEF FactRuleRuns, Evaluated, Due
<1>2. /\ out.entities \subseteq Fact /\ out.limitations \subseteq Limitation
      /\ IsFiniteSet(out.limitations) /\ \A l \in out.limitations : l.about = NoSubject
  BY OutputAssumption DEF Output
<1>3. r \in Waiting /\ r \in Rule \ {Prioritizer} /\ Waiting' \subseteq Waiting \ {r}
  BY <1>1, RuleAssumption DEF Waiting, Rule
<1>4. \/ FactsAccepted(r, out) /\ facts' = facts \cup out.entities /\ Keep(out)
      \/ facts' = facts /\ Omit(RuleFailure(out), r, NoSubject)
  BY DEF FactRuleRuns, Settle
<1>5. Accounts
  <2>1. CASE FactsAccepted(r, out) /\ facts' = facts \cup out.entities /\ Keep(out)
    <3>1. Owned(r, out) /\ Fresh(limitations, out.limitations)
      BY <2>1 DEF FactsAccepted
    <3>2. \A e \in Entities' : e \in Entities \/ e.rule = r
      BY <1>1, <2>1, <3>1 DEF Entities, Owned
    <3> QED
      BY <1>2, <1>3, <2>1, <3>1, <3>2, KeptIsAccounted
  <2>2. CASE facts' = facts /\ Omit(RuleFailure(out), r, NoSubject)
    <3>1. Entities' = Entities
      BY <1>1, <2>2 DEF Entities
    <3> QED
      BY <1>3, <2>2, <3>1, OmittedIsAccounted
  <2> QED
    BY <1>4, <2>1, <2>2
<1>6. PipelineTypeOK'
  BY <1>1, <1>2, <1>4, <1>5 DEF PipelineInv, PipelineTypeOK, Accounts, Books
<1>7. StagesInOrder'
  BY <1>1 DEF PipelineInv, StagesInOrder
<1>8. Distinct(facts')
  BY <1>4 DEF PipelineInv, UniqueIds, FactsAccepted, Fresh, Distinct, Ids
<1>9. UniqueIds'
  BY <1>1, <1>5, <1>8 DEF PipelineInv, UniqueIds, Accounts, Books, Distinct
<1>10. FactsResolve'
  BY <1>4 DEF PipelineInv, FactsResolve, FactsAccepted, KnownEvidence
<1>11. candidates' = {} /\ findings' = {} /\ recommendations' = {}
  BY <1>1 DEF PipelineInv, StagesInOrder
<1>12. CandidatesResolve' /\ FindingsResolve' /\ RecommendationsResolve'
  BY <1>11 DEF CandidatesResolve, FindingsResolve, RecommendationsResolve, KnownEvidence, Distinct
<1>13. RankingIsOrderly' /\ NothingDroppedSilently' /\ RejectedOnlyByUnchecked'
  BY <1>1, <1>5, <1>11 DEF PipelineInv, RankingIsOrderly, NothingDroppedSilently,
                           RejectedOnlyByUnchecked, Accounts, Ids
<1> QED
  BY <1>5, <1>6, <1>7, <1>9, <1>10, <1>12, <1>13 DEF PipelineInv, Accounts

\* References into collections that only grow keep resolving.
LEMMA ResolvesLater ==
  ASSUME NEW f, FindingResolves(f), facts' = facts, limitations \subseteq limitations'
  PROVE  FindingResolves(f)'
BY DEF FindingResolves, Ids

\* A finding rule adds candidates whose references resolve, or nothing.
LEMMA FindingRunKeeps ==
  ASSUME PipelineInv, NEW r \in FindingRule, NEW out \in FindingOutput, FindingRuleRuns(r, out)
  PROVE  PipelineInv'
<1>1. /\ phase = "findings" /\ phase' = "findings" /\ r \in pending /\ pending' = pending \ {r}
      /\ UNCHANGED <<unranked, facts, findings, recommendations, scores>>
  BY DEF FindingRuleRuns, Evaluated, Due
<1>2. /\ out.entities \subseteq Finding /\ out.limitations \subseteq Limitation
      /\ IsFiniteSet(out.limitations) /\ \A l \in out.limitations : l.about = NoSubject
  BY OutputAssumption DEF Output
<1>3. r \in Waiting /\ r \in Rule \ {Prioritizer} /\ Waiting' \subseteq Waiting \ {r}
  BY <1>1, RuleAssumption DEF Waiting, Rule
<1>4. \/ FindingsAccepted(r, out) /\ candidates' = candidates \cup out.entities /\ Keep(out)
      \/ candidates' = candidates /\ Omit(RuleFailure(out), r, NoSubject)
  BY DEF FindingRuleRuns, Settle
<1>5. Accounts
  <2>1. CASE FindingsAccepted(r, out) /\ candidates' = candidates \cup out.entities /\ Keep(out)
    <3>1. Owned(r, out) /\ Fresh(limitations, out.limitations)
      BY <2>1 DEF FindingsAccepted
    <3>2. \A e \in Entities' : e \in Entities \/ e.rule = r
      BY <1>1, <2>1, <3>1 DEF Entities, Owned
    <3> QED
      BY <1>2, <1>3, <2>1, <3>1, <3>2, KeptIsAccounted
  <2>2. CASE candidates' = candidates /\ Omit(RuleFailure(out), r, NoSubject)
    <3>1. Entities' = Entities
      BY <1>1, <2>2 DEF Entities
    <3> QED
      BY <1>3, <2>2, <3>1, OmittedIsAccounted
  <2> QED
    BY <1>4, <2>1, <2>2
<1>6. findings' = {} /\ recommendations' = {} /\ unranked' = {}
  BY <1>1 DEF PipelineInv, StagesInOrder
<1>7. PipelineTypeOK'
  BY <1>1, <1>2, <1>4, <1>5, <1>6 DEF PipelineInv, PipelineTypeOK, Accounts, Books
<1>8. StagesInOrder'
  BY <1>1 DEF PipelineInv, StagesInOrder
<1>9. Distinct(candidates')
  BY <1>4 DEF PipelineInv, CandidatesResolve, FindingsAccepted, Fresh, Distinct, Ids
<1>10. UniqueIds'
  BY <1>1, <1>5, <1>6 DEF PipelineInv, UniqueIds, Accounts, Books, Distinct
<1>11. \A f \in candidates' : FindingResolves(f)'
  <2> SUFFICES ASSUME NEW f \in candidates' PROVE FindingResolves(f)'
    OBVIOUS
  <2>1. CASE f \in candidates
    BY <1>1, <1>5, <2>1, ResolvesLater DEF PipelineInv, CandidatesResolve, Accounts
  <2>2. CASE f \notin candidates
    <3>1. FindingsAccepted(r, out) /\ f \in out.entities
          /\ limitations' = limitations \cup out.limitations
      BY <1>4, <2>2 DEF Keep
    <3> QED
      BY <1>1, <3>1 DEF FindingsAccepted, FindingResolves, Ids
  <2> QED
    BY <2>1, <2>2
<1>12. KnownEvidence(candidates')
  BY <1>4 DEF PipelineInv, CandidatesResolve, FindingsAccepted, KnownEvidence
<1>13. FactsResolve' /\ CandidatesResolve'
  BY <1>1, <1>9, <1>11, <1>12 DEF PipelineInv, FactsResolve, CandidatesResolve, KnownEvidence
<1>14. FindingsResolve' /\ RecommendationsResolve'
  BY <1>6 DEF FindingsResolve, RecommendationsResolve, KnownEvidence
<1>15. RankingIsOrderly' /\ NothingDroppedSilently' /\ RejectedOnlyByUnchecked'
  BY <1>1, <1>5, <1>6 DEF PipelineInv, RankingIsOrderly, NothingDroppedSilently,
                          RejectedOnlyByUnchecked, Accounts, Ids
<1> QED
  BY <1>5, <1>7, <1>8, <1>10, <1>13, <1>14, <1>15 DEF PipelineInv, Accounts

\* A candidate is published with its priority, or omitted and accounted for.
LEMMA PrioritizeKeeps ==
  ASSUME PipelineInv, NEW c \in unranked, NEW p \in Priority, Prioritize(c, p)
  PROVE  PipelineInv'
<1>1. /\ phase = "priority" /\ phase' = "priority" /\ unranked' = unranked \ {c}
      /\ UNCHANGED <<pending, facts, candidates, recommendations, scores>>
  BY DEF Prioritize
<1>2. /\ c \in candidates /\ c \in Finding /\ p.factors \subseteq Id
      /\ pending = {} /\ recommendations = {}
  BY <1>1, OutputAssumption DEF PipelineInv, PipelineTypeOK, StagesInOrder
<1> DEFINE f == [c EXCEPT !.factors = p.factors]
<1>3. f \in Finding /\ f.id = c.id /\ f.evidence = c.evidence
      /\ f.facts = c.facts /\ f.limitations = c.limitations /\ f.basis = c.basis
      /\ f.confidence = c.confidence
  BY <1>2 DEF Finding
<1> HIDE DEF f
<1>4. Books
  BY DEF PipelineInv, PipelineTypeOK, UniqueIds, Books
<1>5. Prioritizer \in Rule /\ c.id \in Id /\ c.id # NoSubject
      /\ PriorityFailure(p) \in FailureCode
  BY <1>2, NameAssumption
     DEF Rule, Finding, PriorityFailure, FailureCode, PriorityFailureCode
<1>6. \/ /\ PriorityAccepted(p, c) /\ findings' = findings \cup {f}
         /\ limitations' = limitations /\ failures' = failures
      \/ /\ Omit(PriorityFailure(p), Prioritizer, c.id) /\ findings' = findings
  BY DEF Prioritize, f
<1>7. \/ /\ PriorityAccepted(p, c) /\ findings' = findings \cup {f}
         /\ limitations' = limitations /\ failures' = failures
      \/ /\ findings' = findings
         /\ \E l \in limitations' :
               /\ limitations' = limitations \cup {l} /\ l.rules = {Prioritizer}
               /\ l.about = c.id
         /\ \E q \in failures' : failures' = failures \cup {q} /\ q.rule = Prioritizer
  <2>1. CASE Omit(PriorityFailure(p), Prioritizer, c.id) /\ findings' = findings
    BY <1>4, <1>5, <2>1, OmitKeepsBooks
  <2> QED
    BY <1>6, <2>1
<1>8. Books' /\ limitations \subseteq limitations'
  <2>1. CASE limitations' = limitations /\ failures' = failures
    BY <1>4, <2>1 DEF Books, Distinct
  <2>2. CASE Omit(PriorityFailure(p), Prioritizer, c.id)
    BY <1>4, <1>5, <2>2, OmitKeepsBooks
  <2> QED
    BY <1>6, <2>1, <2>2
<1>9. PipelineTypeOK'
  BY <1>1, <1>2, <1>3, <1>7, <1>8 DEF PipelineInv, PipelineTypeOK, Books
<1>10. StagesInOrder'
  BY <1>1 DEF PipelineInv, StagesInOrder
<1>11. Distinct(findings')
  BY <1>3, <1>7 DEF PipelineInv, UniqueIds, PriorityAccepted, Distinct, Ids
<1>12. UniqueIds'
  BY <1>1, <1>8, <1>11 DEF PipelineInv, UniqueIds, Books, Distinct
<1>13. CandidatesResolve' /\ FactsResolve'
  <2>1. \A g \in candidates' : FindingResolves(g)'
    BY <1>1, <1>8, ResolvesLater DEF PipelineInv, CandidatesResolve
  <2> QED
    BY <1>1, <2>1 DEF PipelineInv, CandidatesResolve, FactsResolve, KnownEvidence, Distinct
<1>14. FindingsResolve'
  <2>1. \A g \in findings : FindingResolves(g)'
    BY <1>1, <1>8, ResolvesLater DEF PipelineInv, FindingsResolve
  <2>2. FindingResolves(c)'
    BY <1>1, <1>2, <1>8, ResolvesLater DEF PipelineInv, CandidatesResolve
  <2>3. FindingResolves(f)'
    BY <1>3, <2>2 DEF FindingResolves
  <2>4. f.evidence \subseteq Evidence
    BY <1>2, <1>3 DEF PipelineInv, CandidatesResolve, KnownEvidence
  <2> QED
    BY <1>7, <2>1, <2>3, <2>4 DEF PipelineInv, FindingsResolve, KnownEvidence
<1>15. RecommendationsResolve'
  BY <1>1, <1>2 DEF RecommendationsResolve, KnownEvidence
<1>16. Waiting' = Waiting /\ (\A s : Emitted(s)' = Emitted(s)) /\ Prioritizer \notin Waiting
  BY <1>1, <1>2, RuleAssumption DEF Waiting, Emitted, Entities
<1>17. WaitingIsSilent'
  BY <1>7, <1>16 DEF PipelineInv, WaitingIsSilent
<1>18. FailedRuleLeavesNothing'
  <2> SUFFICES ASSUME NEW q \in failures', q.rule \notin {NoRule, Prioritizer}
               PROVE  /\ Emitted(q.rule) = {}
                      /\ \A t \in failures' : t.rule = q.rule => t = q
                      /\ \E k \in limitations' :
                            k.kind = "partial_failure" /\ SpokeAlone(q.rule)' = {k}
    BY <1>16 DEF FailedRuleLeavesNothing
  <2>1. q \in failures /\ \A t \in failures' : t.rule = q.rule => t \in failures
    BY <1>7
  <2>2. SpokeAlone(q.rule)' = SpokeAlone(q.rule)
    BY <1>7 DEF SpokeAlone
  <2> QED
    BY <1>8, <2>1, <2>2 DEF PipelineInv, FailedRuleLeavesNothing
<1>19. Ids(findings') \subseteq Ids(candidates \ unranked')
  BY <1>1, <1>2, <1>3, <1>7 DEF PipelineInv, RankingIsOrderly, Ids
<1>20. \A l \in limitations' : l.about # NoSubject => l.about \in Ids(candidates \ unranked')
  BY <1>1, <1>2, <1>7 DEF PipelineInv, RankingIsOrderly, Ids
<1>21. RankingIsOrderly'
  BY <1>1, <1>19, <1>20 DEF RankingIsOrderly
<1>22. NothingDroppedSilently'
  <2>1. \A x, y \in candidates : x.id = y.id => x = y
    BY DEF PipelineInv, CandidatesResolve, Distinct
  <2>2. c.id \notin Ids(findings) /\ \A l \in limitations : l.about # c.id
    BY <1>2, <1>5, <2>1 DEF PipelineInv, RankingIsOrderly, Ids
  <2>3. \A x \in candidates \ unranked :
            x.id \in Ids(findings) <=> ~\E l \in limitations : l.about = x.id
    BY <1>1 DEF PipelineInv, NothingDroppedSilently
  <2>4. \A x \in candidates \ unranked : x.id # c.id
    BY <1>2, <2>1
  <2>5. \A x \in candidates \ unranked' : x = c \/ x \in candidates \ unranked
    BY <1>1
  <2>6. CASE findings' = findings \cup {f} /\ limitations' = limitations
    <3>1. Ids(findings') = Ids(findings) \cup {c.id}
      BY <1>3, <2>6 DEF Ids
    <3> QED
      BY <1>1, <2>2, <2>3, <2>4, <2>5, <2>6, <3>1 DEF NothingDroppedSilently
  <2>7. ASSUME findings' = findings, NEW l \in limitations',
               limitations' = limitations \cup {l}, l.about = c.id
        PROVE  NothingDroppedSilently'
    BY <1>1, <2>2, <2>3, <2>4, <2>5, <2>7 DEF NothingDroppedSilently
  <2> QED
    BY <1>7, <2>6, <2>7
<1>23. RejectedOnlyByUnchecked'
  BY <1>1 DEF RejectedOnlyByUnchecked
<1> QED
  BY <1>9, <1>10, <1>12, <1>13, <1>14, <1>15, <1>17, <1>18, <1>21, <1>22, <1>23 DEF PipelineInv

\* A recommendation rule cites what is published, or adds nothing.
LEMMA RecommendationRunKeeps ==
  ASSUME PipelineInv, NEW r \in RecommendationRule, NEW out \in RecommendationOutput,
         RecommendationRuleRuns(r, out)
  PROVE  PipelineInv'
<1>1. /\ phase = "recommendations" /\ phase' = "recommendations"
      /\ r \in pending /\ pending' = pending \ {r}
      /\ UNCHANGED <<unranked, facts, candidates, findings, scores>>
  BY DEF RecommendationRuleRuns, Evaluated, Due
<1>2. /\ out.entities \subseteq Recommendation /\ out.limitations \subseteq Limitation
      /\ IsFiniteSet(out.limitations) /\ \A l \in out.limitations : l.about = NoSubject
  BY OutputAssumption DEF Output
<1>3. r \in Waiting /\ r \in Rule \ {Prioritizer} /\ Waiting' \subseteq Waiting \ {r}
  BY <1>1, RuleAssumption DEF Waiting, Rule
<1>4. \/ /\ RecommendationsAccepted(r, out) /\ recommendations' = recommendations \cup out.entities
         /\ Keep(out)
      \/ recommendations' = recommendations /\ Omit(RuleFailure(out), r, NoSubject)
  BY DEF RecommendationRuleRuns, Settle
<1>5. Accounts
  <2>1. CASE /\ RecommendationsAccepted(r, out)
             /\ recommendations' = recommendations \cup out.entities /\ Keep(out)
    <3>1. Owned(r, out) /\ Fresh(limitations, out.limitations)
      BY <2>1 DEF RecommendationsAccepted
    <3>2. \A e \in Entities' : e \in Entities \/ e.rule = r
      BY <1>1, <2>1, <3>1 DEF Entities, Owned
    <3> QED
      BY <1>2, <1>3, <2>1, <3>1, <3>2, KeptIsAccounted
  <2>2. CASE recommendations' = recommendations /\ Omit(RuleFailure(out), r, NoSubject)
    <3>1. Entities' = Entities
      BY <1>1, <2>2 DEF Entities
    <3> QED
      BY <1>3, <2>2, <3>1, OmittedIsAccounted
  <2> QED
    BY <1>4, <2>1, <2>2
<1>6. PipelineTypeOK'
  BY <1>1, <1>2, <1>4, <1>5 DEF PipelineInv, PipelineTypeOK, Accounts, Books
<1>7. StagesInOrder'
  BY <1>1 DEF PipelineInv, StagesInOrder
<1>8. Distinct(recommendations')
  BY <1>4 DEF PipelineInv, UniqueIds, RecommendationsAccepted, Fresh, Distinct, Ids
<1>9. UniqueIds'
  BY <1>1, <1>5, <1>8 DEF PipelineInv, UniqueIds, Accounts, Books, Distinct
<1>10. \A f \in candidates \cup findings : FindingResolves(f)'
  BY <1>1, <1>5, ResolvesLater DEF PipelineInv, CandidatesResolve, FindingsResolve, Accounts
<1>11. FactsResolve' /\ CandidatesResolve' /\ FindingsResolve'
  BY <1>1, <1>10 DEF PipelineInv, FactsResolve, CandidatesResolve, FindingsResolve,
                     KnownEvidence, Distinct
<1>12. RecommendationsResolve'
  BY <1>1, <1>4 DEF PipelineInv, RecommendationsResolve, RecommendationsAccepted, KnownEvidence,
                    BasisAgrees, Ids
<1>13. RankingIsOrderly'
  BY <1>1, <1>5 DEF PipelineInv, RankingIsOrderly, Accounts
<1>14. NothingDroppedSilently'
  <2>1. \A x \in candidates : x.id # NoSubject
    BY NameAssumption DEF PipelineInv, PipelineTypeOK, Finding
  <2> QED
    BY <1>1, <1>5, <2>1 DEF PipelineInv, NothingDroppedSilently, Accounts, Ids
<1>15. RejectedOnlyByUnchecked'
  BY <1>1 DEF RejectedOnlyByUnchecked
<1> QED
  BY <1>5, <1>6, <1>7, <1>9, <1>11, <1>12, <1>13, <1>14, <1>15 DEF PipelineInv, Accounts

\* Moving on, scoring and assembling touch nothing that was published.
LEMMA OtherStepsKeep ==
  ASSUME PipelineInv, NextStage \/ (\E s \in Scores : Score(s)) \/ Assemble \/ UNCHANGED vars
  PROVE  PipelineInv'
<1>1. UNCHANGED <<facts, candidates, findings, recommendations, limitations, failures>>
  BY DEF NextStage, Score, Assemble, vars
<1>2. PipelineTypeOK'
  BY <1>1, RuleAssumption
     DEF PipelineInv, PipelineTypeOK, StagesInOrder, NextStage, Score, Assemble, vars, Phase, Rule
<1>3. StagesInOrder'
  BY <1>1 DEF PipelineInv, StagesInOrder, NextStage, Score, Assemble, vars
<1>4. /\ UniqueIds' /\ FactsResolve' /\ CandidatesResolve' /\ FindingsResolve'
      /\ RecommendationsResolve'
  <2>1. UniqueIds'
    BY <1>1 DEF PipelineInv, UniqueIds, Distinct
  <2>2. \A f : FindingResolves(f)' = FindingResolves(f)
    BY <1>1 DEF FindingResolves
  <2> QED
    BY <1>1, <2>1, <2>2 DEF PipelineInv, FactsResolve, CandidatesResolve, FindingsResolve,
                            RecommendationsResolve, KnownEvidence, Distinct, BasisAgrees
<1>5. Waiting' \subseteq Waiting
  BY DEF NextStage, Score, Assemble, vars, Waiting, PipelineInv, StagesInOrder
<1>6. WaitingIsSilent' /\ FailedRuleLeavesNothing'
  BY <1>1, <1>5 DEF PipelineInv, WaitingIsSilent, FailedRuleLeavesNothing, Emitted, Entities,
                    SpokeAlone
<1>7. RankingIsOrderly' /\ NothingDroppedSilently'
  BY <1>1 DEF PipelineInv, RankingIsOrderly, NothingDroppedSilently, StagesInOrder,
              NextStage, Score, Assemble, vars, Ids
<1>8. RejectedOnlyByUnchecked'
  <2>1. CASE Assemble
    <3>1. Unchecked' = Unchecked
      BY <1>1, <2>1 DEF Assemble, Unchecked, FactorsResolve, ChecksResolve, SourcesResolve,
                        ScoresResolve
    <3> QED
      BY <2>1, <3>1 DEF PipelineInv, Assemble, ReportAccepted, RejectedOnlyByUnchecked
  <2>2. CASE UNCHANGED vars
    BY <2>2 DEF PipelineInv, RejectedOnlyByUnchecked, vars, Unchecked, FactorsResolve,
                ChecksResolve, SourcesResolve, ScoresResolve
  <2>3. CASE NextStage \/ \E s \in Scores : Score(s)
    BY <2>3 DEF NextStage, Score, RejectedOnlyByUnchecked
  <2> QED
    BY <2>1, <2>2, <2>3
<1> QED
  BY <1>2, <1>3, <1>4, <1>6, <1>7, <1>8 DEF PipelineInv

LEMMA NextKeeps == PipelineInv /\ [Next]_vars => PipelineInv'
<1> SUFFICES ASSUME PipelineInv, [Next]_vars PROVE PipelineInv'
  OBVIOUS
<1>1. ASSUME NEW r \in FactRule, NEW out \in FactOutput, FactRuleRuns(r, out) PROVE PipelineInv'
  BY <1>1, FactRunKeeps
<1>2. ASSUME NEW r \in FindingRule, NEW out \in FindingOutput, FindingRuleRuns(r, out)
      PROVE  PipelineInv'
  BY <1>2, FindingRunKeeps
<1>3. ASSUME NEW c \in unranked, NEW p \in Priority, Prioritize(c, p) PROVE PipelineInv'
  BY <1>3, PrioritizeKeeps
<1>4. ASSUME NEW r \in RecommendationRule, NEW out \in RecommendationOutput,
             RecommendationRuleRuns(r, out)
      PROVE  PipelineInv'
  BY <1>4, RecommendationRunKeeps
<1>5. CASE NextStage \/ (\E s \in Scores : Score(s)) \/ Assemble \/ UNCHANGED vars
  BY <1>5, OtherStepsKeep
<1> QED
  BY <1>1, <1>2, <1>3, <1>4, <1>5 DEF Next

(***************************************************************************)
(* The theorems.                                                           *)
(***************************************************************************)
\* Whatever rules return, the pipeline's invariant holds throughout an analysis.
THEOREM Invariant == Spec => []PipelineInv
<1>1. Init => PipelineInv
  BY InitPipelineInv
<1>2. PipelineInv /\ [Next]_vars => PipelineInv'
  BY NextKeeps
<1> QED
  BY <1>1, <1>2, PTL DEF Spec

\* A failed rule is omitted as a whole and accounted for exactly once.
THEOREM FailuresAreWhole == Spec => []FailedRuleLeavesNothing
<1>1. PipelineInv => FailedRuleLeavesNothing
  BY DEF PipelineInv
<1> QED
  BY <1>1, Invariant, PTL

\* Every candidate is published or its omission is reported.
THEOREM OmissionsAreReported == Spec => []NothingDroppedSilently
<1>1. PipelineInv => NothingDroppedSilently
  BY DEF PipelineInv
<1> QED
  BY <1>1, Invariant, PTL

\* The schema never finds a reference broken that a stage has checked.
THEOREM RejectionsAreForUnchecked == Spec => []RejectedOnlyByUnchecked
<1>1. PipelineInv => RejectedOnlyByUnchecked
  BY DEF PipelineInv
<1> QED
  BY <1>1, Invariant, PTL
=============================================================================
