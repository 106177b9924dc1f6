---------------------- MODULE RepositoryAnalysis_proofs ----------------------
(***************************************************************************)
(* For every set of worlds, every registry, every OSV and any bounds: what *)
(* the order of exact versions is, what an ended analysis leaves behind,   *)
(* what the report takes OSV to have told, and then the properties of the  *)
(* report: a dependency called unnecessary is not used, a score and the    *)
(* findings tell one story, no gap is silent, a perfect score is earned,   *)
(* and a part of the evidence never gives a higher score than all of it.   *)
(***************************************************************************)
EXTENDS RepositoryAnalysis, FiniteSetTheorems, WellFoundedInduction, TLAPS

-----------------------------------------------------------------------------
(* The order of exact versions (semver.ts). *)

LEMMA OrderSigns ==
    ASSUME NEW l \in Int, NEW r \in Int
    PROVE  /\ Order(l, r) \in {-1, 0, 1}
           /\ Order(l, r) = 0 - Order(r, l)
           /\ Order(l, r) = 0 <=> l = r
  BY DEF Order

LEMMA IdentifierSigns ==
    ASSUME NEW l \in Identifier, NEW r \in Identifier
    PROVE  /\ CompareIdentifier(l, r) \in {-1, 0, 1}
           /\ CompareIdentifier(l, r) = 0 - CompareIdentifier(r, l)
           /\ CompareIdentifier(l, r) = 0 <=> l = r
<1>1. l = <<l[1], l[2]>> /\ r = <<r[1], r[2]>> /\ {l[1], l[2], r[1], r[2]} \subseteq Int
  BY DEF Identifier
<1>2. CASE l[1] # r[1]
  BY <1>1, <1>2, OrderSigns DEF CompareIdentifier
<1>3. CASE l[1] = r[1]
  <2>1. CompareIdentifier(l, r) = Order(l[2], r[2]) /\ CompareIdentifier(r, l) = Order(r[2], l[2])
    BY <1>3 DEF CompareIdentifier
  <2>2. l = r <=> l[2] = r[2]
    BY <1>1, <1>3
  <2> QED
    BY <1>1, <2>1, <2>2, OrderSigns
<1> QED
  BY <1>2, <1>3

\* The position that decides, when there is one, is the same from both sides.
LEMMA FirstDifference ==
    ASSUME NEW l \in Seq(Identifier), NEW r \in Seq(Identifier), Differing(l, r) # {}
    PROVE  \E i \in 1 .. Len(l) :
              /\ i =< Len(r) /\ l[i] # r[i]
              /\ ComparePrerelease(l, r) = CompareIdentifier(l[i], r[i])
              /\ ComparePrerelease(r, l) = CompareIdentifier(r[i], l[i])
<1> DEFINE first(D) == CHOOSE i \in D : \A j \in D : i =< j
<1>1. Differing(l, r) = Differing(r, l) /\ Differing(l, r) \subseteq Nat
  BY DEF Differing
<1>2. PICK i \in Differing(l, r) : \A j \in Differing(l, r) : ~ (<<j, i>> \in OpToRel(<, Nat))
  BY <1>1, WFMin, NatLessThanWellFounded
<1>3. \A j \in Differing(l, r) : i =< j
  <2> TAKE j \in Differing(l, r)
  <2>1. ~ (<<j, i>> \in OpToRel(<, Nat)) /\ i \in Nat /\ j \in Nat
    BY <1>1, <1>2
  <2>2. ~ (j < i)
    BY <2>1 DEF OpToRel
  <2>3. i \in Int /\ j \in Int
    BY <1>1
  <2> QED
    BY <2>2, <2>3
<1>4. first(Differing(l, r)) \in Differing(l, r)
  BY <1>3
<1>5. /\ ComparePrerelease(l, r) = CompareIdentifier(l[first(Differing(l, r))], r[first(Differing(l, r))])
      /\ ComparePrerelease(r, l) = CompareIdentifier(r[first(Differing(l, r))], l[first(Differing(l, r))])
  BY <1>1 DEF ComparePrerelease
<1>6. PICK k \in Differing(l, r) : k = first(Differing(l, r))
  BY <1>4
<1> HIDE DEF first
<1>7. k \in 1 .. Len(l) /\ k =< Len(r) /\ l[k] # r[k]
  BY <1>6 DEF Differing
<1> QED
  BY <1>5, <1>6, <1>7

LEMMA PrereleaseSigns ==
    ASSUME NEW l \in Seq(Identifier), NEW r \in Seq(Identifier)
    PROVE  /\ ComparePrerelease(l, r) \in {-1, 0, 1}
           /\ ComparePrerelease(l, r) = 0 - ComparePrerelease(r, l)
           /\ ComparePrerelease(l, r) = 0 <=> l = r
<1>1. CASE Differing(l, r) = {}
  <2>1. Differing(r, l) = {} /\ \A i \in DOMAIN l \cap DOMAIN r : l[i] = r[i]
    BY <1>1 DEF Differing
  <2>2. /\ ComparePrerelease(l, r) = Order(Len(l), Len(r))
        /\ ComparePrerelease(r, l) = Order(Len(r), Len(l))
    BY <1>1, <2>1 DEF ComparePrerelease
  <2>3. Len(l) \in Int /\ Len(r) \in Int
    OBVIOUS
  <2>4. Len(l) = Len(r) => l = r
    BY <2>1
  <2> QED
    BY <2>2, <2>3, <2>4, OrderSigns
<1>2. CASE Differing(l, r) # {}
  <2>1. PICK i \in 1 .. Len(l) :
              /\ i =< Len(r) /\ l[i] # r[i]
              /\ ComparePrerelease(l, r) = CompareIdentifier(l[i], r[i])
              /\ ComparePrerelease(r, l) = CompareIdentifier(r[i], l[i])
    BY <1>2, FirstDifference
  <2>2. l[i] \in Identifier /\ r[i] \in Identifier /\ l # r
    BY <2>1
  <2> QED
    BY <2>1, <2>2, IdentifierSigns
<1> QED
  BY <1>1, <1>2

\* compareSemanticVersions answers -1, 0 or 1, swapping its arguments swaps the
\* sign, and only a version itself compares equal to it: an installed version is
\* never both older and newer than the one it is compared with.
THEOREM VersionsAreOrdered ==
    ASSUME NEW l \in SemVer, NEW r \in SemVer
    PROVE  /\ CompareSemanticVersions(l, r) \in {-1, 0, 1}
           /\ CompareSemanticVersions(l, r) = 0 - CompareSemanticVersions(r, l)
           /\ CompareSemanticVersions(l, r) = 0 <=> l = r
<1>1. /\ {l.major, l.minor, l.patch, r.major, r.minor, r.patch} \subseteq Int
      /\ l.pre \in Seq(Identifier) /\ r.pre \in Seq(Identifier)
  BY DEF SemVer
<1>2. l = r <=> l.major = r.major /\ l.minor = r.minor /\ l.patch = r.patch /\ l.pre = r.pre
  BY DEF SemVer
<1>3. CASE l.major # r.major
  BY <1>1, <1>3, OrderSigns DEF CompareSemanticVersions
<1>4. CASE l.major = r.major /\ l.minor # r.minor
  BY <1>1, <1>4, OrderSigns DEF CompareSemanticVersions
<1>5. CASE l.major = r.major /\ l.minor = r.minor /\ l.patch # r.patch
  BY <1>1, <1>5, OrderSigns DEF CompareSemanticVersions
<1>6. CASE l.major = r.major /\ l.minor = r.minor /\ l.patch = r.patch
  <2>1. CASE l.pre = <<>> \/ r.pre = <<>>
    BY <1>2, <1>6, <2>1 DEF CompareSemanticVersions
  <2>2. CASE l.pre # <<>> /\ r.pre # <<>>
    <3>1. /\ CompareSemanticVersions(l, r) = ComparePrerelease(l.pre, r.pre)
          /\ CompareSemanticVersions(r, l) = ComparePrerelease(r.pre, l.pre)
      BY <1>6, <2>2 DEF CompareSemanticVersions
    <3> QED
      BY <1>1, <1>2, <1>6, <3>1, PrereleaseSigns
  <2> QED
    BY <2>1, <2>2
<1> QED
  BY <1>3, <1>4, <1>5, <1>6

\* newerVersionDifference never reports two versions as newer than each other,
\* and reports a difference whenever one is newer.
THEOREM NewerOneWay ==
    ASSUME NEW l \in SemVer, NEW r \in SemVer, l # r
    PROVE  NewerVersionDifference(l, r) = "none" <=> NewerVersionDifference(r, l) # "none"
<1>1. \/ CompareSemanticVersions(l, r) = 1 /\ CompareSemanticVersions(r, l) = -1
      \/ CompareSemanticVersions(l, r) = -1 /\ CompareSemanticVersions(r, l) = 1
  BY VersionsAreOrdered
<1> QED
  BY <1>1 DEF NewerVersionDifference

-----------------------------------------------------------------------------
(* What a perfect score rules out (stack-health-scorer.ts). *)

Severity == {"none", "low", "medium", "high", "critical"}

LEMMA BandValues ==
    /\ \A s \in Severity : Band(s) \in {0, 40, 70, 90, 100}
    /\ \A s \in Severity : Band(s) = 100 => s = "none"
  BY DEF Band, Severity

\* A set of bands that is not empty has a least one.
LEMMA LeastBand ==
    ASSUME NEW S, S \subseteq {0, 40, 70, 90, 100}, S # {}
    PROVE  Min(S) \in S /\ \A x \in S : Min(S) =< x
<1>1. \E m \in S : \A x \in S : m =< x
  <2>1. CASE 0 \in S
    BY <2>1
  <2>2. CASE 0 \notin S /\ 40 \in S
    BY <2>2
  <2>3. CASE 0 \notin S /\ 40 \notin S /\ 70 \in S
    BY <2>3
  <2>4. CASE 0 \notin S /\ 40 \notin S /\ 70 \notin S /\ 90 \in S
    BY <2>4
  <2>5. CASE 0 \notin S /\ 40 \notin S /\ 70 \notin S /\ 90 \notin S
    <3>1. \A x \in S : x = 100
      BY <2>5
    <3>2. PICK m \in S : TRUE
      OBVIOUS
    <3> QED
      BY <3>1, <3>2
  <2> QED
    BY <2>1, <2>2, <2>3, <2>4, <2>5
<1> QED
  BY <1>1 DEF Min

\* A security score of 100 means that no check of the category was unknown and
\* that every one that applies was rated "none"; a dependency score of 100 that
\* none was unknown and none failed.
THEOREM PerfectRiskScore ==
    ASSUME NEW checks, NEW category \in Ceiling, NEW ruleFailed \in BOOLEAN,
           \A c \in checks : c.severity \in Severity,
           CategoryScore(category, checks, ruleFailed) = Available(100),
           NEW c \in checks, c.category = category, c.state # "not_applicable"
    PROVE  /\ c.state # "unknown"
           /\ category = "security" => c.severity = "none"
           /\ category = "dependencies" => c.state # "fail"
<1> DEFINE own        == {x \in checks : x.category = category}
           applicable == own \ InState(own, "not_applicable")
           bands      == {Band(x.severity) : x \in applicable}
<1>1. c \in applicable
  BY DEF InState
<1>2. Available(100) # Insufficient /\ Available(100) # NotApplicable
  BY DEF Available, Insufficient, NotApplicable
<1>3. /\ InState(own, "unknown") = {}
      /\ Available(100) = Available(RiskBand(category, applicable))
  BY <1>1, <1>2 DEF CategoryScore
<1>4. RiskBand(category, applicable) = 100
  BY <1>3 DEF Available
<1>5. c.state # "unknown"
  BY <1>3 DEF InState
<1>6. ASSUME category = "dependencies" PROVE c.state # "fail"
  <2>1. InState(applicable, "fail") = {}
    BY <1>4, <1>6 DEF RiskBand, Band
  <2> QED
    BY <1>1, <2>1 DEF InState
<1>7. ASSUME category = "security" PROVE c.severity = "none"
  <2>1. Min(bands) = 100
    BY <1>4, <1>7 DEF RiskBand
  <2>2. \A x \in applicable : x.severity \in Severity
    OBVIOUS
  <2> HIDE DEF applicable
  <2>3. \A x \in applicable : Band(x.severity) \in {0, 40, 70, 90, 100}
    BY <2>2, BandValues
  <2>4. bands \subseteq {0, 40, 70, 90, 100}
    BY <2>3
  <2>5. Band(c.severity) \in bands
    BY <1>1
  <2> HIDE DEF bands
  <2>6. bands # {}
    BY <2>5
  <2>7. \A x \in bands : Min(bands) =< x
    BY <2>4, <2>6, LeastBand
  <2>8. Band(c.severity) \in {0, 40, 70, 90, 100}
    BY <2>4, <2>5
  <2>9. Min(bands) =< Band(c.severity)
    BY <2>5, <2>7
  <2>10. Band(c.severity) = 100
    BY <2>1, <2>8, <2>9
  <2> QED
    BY <1>1, <2>2, <2>10, BandValues
<1> QED
  BY <1>5, <1>6, <1>7

\* SCORE-003 the other way round: an overall number stands on known evidence
\* only; one unknown check in any category withholds it.
THEOREM NoOverallFromUnknown ==
    ASSUME NEW checks, NEW ruleFailed \in BOOLEAN,
           StackHealth(checks, ruleFailed).overall.status = "available",
           NEW c \in checks, c.category \in Category
    PROVE  c.state # "unknown" /\ ~ruleFailed
<1> DEFINE categories == [k \in Category |-> CategoryScore(k, checks, ruleFailed)]
<1>1. OverallScore(categories).status = "available"
  BY DEF StackHealth
<1>2. categories[c.category].status # "insufficient_evidence"
  <2>1. Insufficient.status # "available"
    BY DEF Insufficient
  <2> QED
    BY <1>1, <2>1 DEF OverallScore
<1>3. CategoryScore(c.category, checks, ruleFailed) # Insufficient
  BY <1>2 DEF Insufficient
<1> QED
  BY <1>3 DEF CategoryScore, InState

-----------------------------------------------------------------------------
(* npm requests: QuietAfterEnd. *)

\* The chain of a batch has one request in flight, and only while its phase lasts.
NpmInv ==
    /\ npm = [todo |-> npm.todo, chain |-> npm.chain, flight |-> npm.flight,
              settled |-> npm.settled, answers |-> npm.answers]
    /\ \A x, y \in npm.flight : x = y
    /\ at # "package_metadata" => npm.flight = {} /\ npm.chain = {}

LEMMA InitNpm == Init => NpmInv
  BY DEF Init, NpmInv

LEMMA SettleNpm ==
    ASSUME NpmInv, NEW payload, SettleNpmRequest(payload)
    PROVE  NpmInv'
<1>1. PICK n \in npm.flight :
        IF aborted
        THEN at' = "thrown" /\ npm' = [npm EXCEPT !.flight = @ \ {n}, !.chain = {}]
        ELSE /\ npm' = [npm EXCEPT !.flight  = @ \ {n},
                                   !.settled = @ \cup {n},
                                   !.answers = Noted(npm.answers, n, payload)]
             /\ UNCHANGED at
  BY DEF SettleNpmRequest
<1> DEFINE answers == Noted(npm.answers, n, payload)
<1>2. at = "package_metadata" /\ npm.flight \ {n} = {}
  BY <1>1 DEF NpmInv
<1>3. CASE aborted
  <2>1. npm' = [npm EXCEPT !.flight = @ \ {n}, !.chain = {}] /\ at' = "thrown"
    BY <1>1, <1>3
  <2> QED
    BY <1>2, <2>1 DEF NpmInv
<1>4. CASE ~aborted
  <2>1. npm' = [npm EXCEPT !.flight = @ \ {n}, !.settled = @ \cup {n}, !.answers = answers] /\ at' = at
    BY <1>1, <1>4
  <2> HIDE DEF answers
  <2> QED
    BY <1>2, <2>1 DEF NpmInv
<1> QED
  BY <1>3, <1>4

LEMMA NextNpm == NpmInv /\ [Next]_vars => NpmInv'
<1> SUFFICES ASSUME NpmInv, [Next]_vars PROVE NpmInv'
  OBVIOUS
<1>1. CASE AcquireRepository
  BY <1>1 DEF AcquireRepository, Recorded, NpmInv
<1>2. CASE ParseManifest
  <2>1. at = "manifest" /\ (npm' = npm \/ npm' = [npm EXCEPT !.todo = SelectedPackages(project)])
    BY <1>2 DEF ParseManifest
  <2> QED
    BY <2>1 DEF NpmInv
<1>3. CASE StartNpmBatch
  BY <1>3 DEF StartNpmBatch, NpmInv
<1>4. CASE RequestNpmMetadata
  BY <1>4 DEF RequestNpmMetadata, NpmInv
<1>5. CASE NpmAnswers
  BY <1>5, SettleNpm DEF NpmAnswers
<1>6. CASE NpmFails
  BY <1>6, SettleNpm DEF NpmFails
<1>7. CASE ProcessBatchResult
  BY <1>7 DEF ProcessBatchResult, NpmInv
<1>8. CASE RequestVulnerabilities
  BY <1>8 DEF RequestVulnerabilities, NpmInv
<1>9. CASE AskOsv
  BY <1>9 DEF AskOsv, NpmInv
<1>10. CASE OsvSettled
  BY <1>10 DEF OsvSettled, Recorded, NpmInv
<1>11. CASE Analyze
  BY <1>11 DEF Analyze, Recorded, NpmInv
<1>12. CASE AnalyzeQuickManifest
  <2>1. at = "quick_manifest" /\ at' \in {"report", "invalid_manifest"} /\ npm' = npm
    BY <1>12 DEF AnalyzeQuickManifest
  <2> QED
    BY <2>1 DEF NpmInv
<1>13. CASE Abort
  BY <1>13 DEF Abort, NpmInv
<1>14. CASE UNCHANGED vars
  BY <1>14 DEF vars, NpmInv
<1> QED
  BY <1>1, <1>2, <1>3, <1>4, <1>5, <1>6, <1>7, <1>8, <1>9, <1>10, <1>11, <1>12, <1>13, <1>14
     DEF Next, Work

\* However an analysis ends, with an abort between any two steps, no npm request
\* of it is outstanding or waiting for its turn.
THEOREM QuietWhenEnded == Spec => []QuietAfterEnd
<1>1. NpmInv => QuietAfterEnd
  BY DEF NpmInv, QuietAfterEnd, Running, Ended
<1> QED
  BY <1>1, InitNpm, NextNpm, PTL DEF Spec

-----------------------------------------------------------------------------
(* What OSV told: OsvNeverOverstates. *)

\* The first n pages of a query.
ToldBy(pages, n) == UNION {Page(pages, i) : i \in 1 .. n}

PagesFor(Q) == [Q -> Seq(SUBSET Advisory)]

\* Nothing is missing from the answers that count as complete.
CompleteIsAll(o, pages) ==
    \A q \in DOMAIN o.matches \cap o.complete : o.matches[q] = UNION Range(pages[q])

\* Only details of what was matched are asked for.
Typed(o) ==
    /\ \A q \in DOMAIN o.matches : o.matches[q] \subseteq Advisory
    /\ o.records \subseteq Matched(o.matches)

InPages(o, pages) ==
    /\ o.round \in Nat /\ o.round < MaxPaginationRounds /\ o.records = {}
    /\ o.pending \subseteq DOMAIN o.matches
    /\ \A q \in DOMAIN o.matches : o.matches[q] \subseteq Advisory
    /\ \A q \in o.pending : o.matches[q] = ToldBy(pages[q], o.round)
    /\ \A q \in (DOMAIN o.matches \cap o.complete) \ o.pending :
          o.matches[q] = UNION Range(pages[q])

InDetails(o, pages) ==
    /\ CompleteIsAll(o, pages) /\ Typed(o)
    /\ o.todo \subseteq Matched(o.matches) /\ o.todo # {}
    /\ o.failures # {} \/ o.records \cup o.todo = Matched(o.matches)

AllTold(o, pages) ==
    /\ CompleteIsAll(o, pages) /\ Typed(o)
    /\ o.failures # {} \/ o.records = Matched(o.matches)

Shape(o) ==
    o = [stage |-> o.stage, matches |-> o.matches, complete |-> o.complete,
         pending |-> o.pending, round |-> o.round, todo |-> o.todo,
         records |-> o.records, failures |-> o.failures]

OsvHolds(o, pages) ==
    /\ Shape(o)
    /\ o.stage \in {"idle", "batch", "details", "available", "unavailable"}
    /\ o.stage = "batch" => InPages(o, pages)
    /\ o.stage = "details" => InDetails(o, pages)
    /\ o.stage = "available" => AllTold(o, pages)

OsvInv ==
    /\ world \in World
    /\ OsvHolds(osv, PagesOf(DOMAIN osv.matches))
    /\ osv.stage = "idle" => osv = OsvIdle
    /\ at \in {"repository", "manifest", "package_metadata", "quick_manifest"} => osv.stage = "idle"
    /\ at \in {"analysis", "report"} => osv.stage \in {"idle", "available", "unavailable"}

LEMMA PagesTyped == world \in World => \A Q : PagesOf(Q) \in PagesFor(Q)
<1> SUFFICES ASSUME world \in World, NEW Q PROVE PagesOf(Q) \in PagesFor(Q)
  OBVIOUS
<1>1. \A q \in Q : PagesOf(Q)[q] \in Seq(SUBSET Advisory)
  <2> TAKE q \in Q
  <2>1. PagesOf(Q)[q] = IF q \in DOMAIN world.pages THEN world.pages[q] ELSE <<>>
    BY DEF PagesOf
  <2>2. <<>> \in Seq(SUBSET Advisory)
    OBVIOUS
  <2> QED
    BY <2>1, <2>2, PagesAssumption
<1> QED
  BY <1>1 DEF PagesFor, PagesOf

LEMMA ToldNext ==
    ASSUME NEW p, NEW n \in Nat
    PROVE  ToldBy(p, n + 1) = ToldBy(p, n) \cup Page(p, n + 1)
<1>1. 1 .. n + 1 = (1 .. n) \cup {n + 1}
  OBVIOUS
<1> QED
  BY <1>1 DEF ToldBy

LEMMA ToldAll ==
    ASSUME NEW p \in Seq(SUBSET Advisory), NEW n \in Nat, ~ (n < Len(p))
    PROVE  ToldBy(p, n) = UNION Range(p)
<1>1. DOMAIN p = 1 .. Len(p) /\ Len(p) \in Nat /\ DOMAIN p \subseteq 1 .. n
  OBVIOUS
<1>2. \A i \in 1 .. n : Page(p, i) = IF i \in DOMAIN p THEN p[i] ELSE {}
  BY DEF Page
<1> QED
  BY <1>1, <1>2 DEF ToldBy, Range

LEMMA PageTyped ==
    ASSUME NEW p \in Seq(SUBSET Advisory), NEW n PROVE Page(p, n) \subseteq Advisory
  BY DEF Page

\* Going on to the details keeps what the pages gave.
LEMMA ToDetailsHolds ==
    ASSUME NEW o, NEW pages, Shape(o), CompleteIsAll(o, pages), o.records = {},
           \A q \in DOMAIN o.matches : o.matches[q] \subseteq Advisory
    PROVE  /\ OsvHolds(ToDetails(o), pages)
           /\ ToDetails(o).matches = o.matches /\ ToDetails(o).stage # "idle"
<1> DEFINE selected == FirstOf(MaxAdvisoryDetails, Matched(o.matches))
           failures == o.failures \cup (IF selected = Matched(o.matches) THEN {}
                                        ELSE {"osv_detail_limit_reached"})
           stage    == IF selected = {} THEN "available" ELSE "details"
<1>1. ToDetails(o) = [o EXCEPT !.stage = stage, !.pending = {}, !.todo = selected,
                              !.failures = failures]
  BY DEF ToDetails
<1>2. selected \subseteq Matched(o.matches)
  BY DEF FirstOf
<1>3. failures # {} \/ selected = Matched(o.matches)
  OBVIOUS
<1>4. selected = {} => stage = "available"
  OBVIOUS
<1>5. selected # {} => stage = "details"
  OBVIOUS
<1> HIDE DEF selected, failures, stage
<1>6. ToDetails(o) = [stage |-> stage, matches |-> o.matches, complete |-> o.complete,
                      pending |-> {}, round |-> o.round, todo |-> selected,
                      records |-> {}, failures |-> failures]
  BY <1>1 DEF Shape
<1> QED
  BY <1>2, <1>3, <1>4, <1>5, <1>6
     DEF OsvHolds, Shape, CompleteIsAll, InPages, InDetails, AllTold, Typed, Matched

\* One round of pages.
LEMMA AnsweredHolds ==
    ASSUME NEW pages \in PagesFor(DOMAIN osv.matches), OsvHolds(osv, pages),
           OsvBatchAnswered(pages)
    PROVE  /\ OsvHolds(osv', pages)
           /\ DOMAIN osv'.matches = DOMAIN osv.matches /\ osv'.stage # "idle"
<1> DEFINE next == osv.round + 1
           matches == [q \in DOMAIN osv.matches |->
                          IF q \in osv.pending THEN osv.matches[q] \cup Page(pages[q], next)
                                               ELSE osv.matches[q]]
           cut(more, repeated) == IF next >= MaxPaginationRounds THEN more ELSE repeated
           failures(stopped) ==
               osv.failures \cup {"osv_pagination_incomplete" : q \in stopped}
           told(stopped, more) ==
               [osv EXCEPT !.matches = matches, !.complete = osv.complete \ stopped,
                           !.pending = more \ stopped, !.round = next,
                           !.failures = failures(stopped)]
<1>1. /\ InPages(osv, pages) /\ osv.stage = "batch" /\ Shape(osv)
      /\ next \in Nat /\ MaxPaginationRounds \in Nat
  BY BoundAssumption DEF OsvBatchAnswered, OsvHolds, InPages
<1>2. PICK more \in SUBSET osv.pending, repeated \in SUBSET osv.pending :
        /\ \A q \in osv.pending : next < Len(pages[q]) => q \in more
        /\ repeated \subseteq IF osv.round = 0 THEN {} ELSE more
        /\ osv' = IF told(cut(more, repeated), more).pending = {}
                  THEN ToDetails(told(cut(more, repeated), more))
                  ELSE told(cut(more, repeated), more)
  BY DEF OsvBatchAnswered
<1> DEFINE stopped == cut(more, repeated)
           o == told(stopped, more)
<1>3. /\ o.matches = matches /\ DOMAIN matches = DOMAIN osv.matches /\ Shape(o) /\ o.records = {}
      /\ o.complete = osv.complete \ stopped /\ o.pending = more \ stopped /\ o.round = next
      /\ o.stage = "batch"
  <2> DEFINE failed == failures(stopped)
  <2>1. o = [osv EXCEPT !.matches = matches, !.complete = osv.complete \ stopped,
                        !.pending = more \ stopped, !.round = next, !.failures = failed]
    OBVIOUS
  <2>2. DOMAIN matches = DOMAIN osv.matches
    OBVIOUS
  <2> HIDE DEF o, matches, stopped, next, failed
  <2> QED
    BY <1>1, <2>1, <2>2 DEF Shape, InPages
<1>4. \A q \in DOMAIN osv.matches : pages[q] \in Seq(SUBSET Advisory)
  BY DEF PagesFor
<1>5. \A q \in DOMAIN matches : matches[q] \subseteq Advisory
  <2> TAKE q \in DOMAIN matches
  <2>1. osv.matches[q] \subseteq Advisory /\ Page(pages[q], next) \subseteq Advisory
    BY <1>1, <1>4, PageTyped DEF InPages
  <2> QED
    BY <2>1
<1>6. \A q \in osv.pending : q \in DOMAIN osv.matches /\ matches[q] = ToldBy(pages[q], next)
  <2> TAKE q \in osv.pending
  <2>1. q \in DOMAIN osv.matches /\ osv.matches[q] = ToldBy(pages[q], osv.round) /\ osv.round \in Nat
    BY <1>1 DEF InPages
  <2>2. matches[q] = osv.matches[q] \cup Page(pages[q], next)
    BY <2>1
  <2> QED
    BY <2>1, <2>2, ToldNext
<1>7. \A q \in (DOMAIN matches \cap o.complete) \ o.pending : matches[q] = UNION Range(pages[q])
  <2> TAKE q \in (DOMAIN matches \cap o.complete) \ o.pending
  <2>1. q \in DOMAIN osv.matches /\ q \in osv.complete /\ q \notin stopped /\ q \notin more
    BY <1>3
  <2>2. CASE q \in osv.pending
    <3>1. ~ (next < Len(pages[q]))
      BY <1>2, <2>1, <2>2
    <3> QED
      BY <1>1, <1>4, <1>6, <2>1, <2>2, <3>1, ToldAll
  <2>3. CASE q \notin osv.pending
    BY <1>1, <2>1, <2>3 DEF InPages
  <2> QED
    BY <2>2, <2>3
<1>8. osv' = IF o.pending = {} THEN ToDetails(o) ELSE o
  BY <1>2, <1>3
<1>9. more \subseteq osv.pending /\ stopped \subseteq osv.pending
      /\ (next >= MaxPaginationRounds => o.pending = {})
  BY <1>2, <1>3
<1> HIDE DEF o, stopped, told, matches
<1>10. CASE o.pending = {}
  <2>1. CompleteIsAll(o, pages)
    BY <1>3, <1>7, <1>10 DEF CompleteIsAll
  <2>2. \A q \in DOMAIN o.matches : o.matches[q] \subseteq Advisory
    BY <1>3, <1>5
  <2> QED
    BY <1>3, <1>8, <1>10, <2>1, <2>2, ToDetailsHolds
<1>11. CASE o.pending # {}
  <2>1. next < MaxPaginationRounds
    BY <1>1, <1>9, <1>11
  <2>2. o.pending \subseteq osv.pending
    BY <1>3, <1>9
  <2>3. InPages(o, pages)
    <3> HIDE DEF next
    <3> QED
      BY <1>1, <1>3, <1>5, <1>6, <1>7, <2>1, <2>2 DEF InPages
  <2>4. osv' = o
    BY <1>8, <1>11
  <2> QED
    BY <1>3, <2>3, <2>4 DEF OsvHolds
<1> QED
  BY <1>10, <1>11

\* A page that does not come.
LEMMA FailedHolds ==
    ASSUME NEW pages, OsvHolds(osv, pages), NEW code, OsvBatchFailed(code)
    PROVE  /\ OsvHolds(osv', pages)
           /\ DOMAIN osv'.matches = DOMAIN osv.matches /\ osv'.stage # "idle"
<1>1. osv.stage = "batch" /\ Shape(osv) /\ InPages(osv, pages)
  BY DEF OsvBatchFailed, OsvHolds
<1>2. CASE osv.round = 0
  <2>1. osv' = [osv EXCEPT !.stage = "unavailable", !.failures = {code}]
    BY <1>2 DEF OsvBatchFailed
  <2> QED
    BY <1>1, <2>1 DEF OsvHolds, Shape
<1>3. CASE osv.round # 0
  <2> DEFINE complete == osv.complete \ osv.pending
             failures == osv.failures \cup {code}
             o        == [osv EXCEPT !.complete = complete, !.failures = failures]
  <2>1. osv' = ToDetails(o)
    BY <1>3 DEF OsvBatchFailed
  <2>2. o.matches = osv.matches /\ o.complete = osv.complete \ osv.pending /\ o.records = {} /\ Shape(o)
    <3>1. o = [osv EXCEPT !.complete = osv.complete \ osv.pending, !.failures = failures]
      OBVIOUS
    <3> HIDE DEF o, failures
    <3> QED
      BY <1>1, <3>1 DEF Shape, InPages
  <2> HIDE DEF o
  <2>3. CompleteIsAll(o, pages)
    BY <1>1, <2>2 DEF CompleteIsAll, InPages
  <2>4. \A q \in DOMAIN o.matches : o.matches[q] \subseteq Advisory
    BY <1>1, <2>2 DEF InPages
  <2> QED
    BY <2>1, <2>2, <2>3, <2>4, ToDetailsHolds
<1> QED
  BY <1>2, <1>3

LEMMA LeastExists ==
    ASSUME NEW S, S \subseteq Nat, S # {}
    PROVE  \E i \in S : \A j \in S : i =< j
<1>1. PICK i \in S : \A j \in S : ~ (<<j, i>> \in OpToRel(<, Nat))
  BY WFMin, NatLessThanWellFounded
<1>2. \A j \in S : i =< j
  <2> TAKE j \in S
  <2>1. ~ (<<j, i>> \in OpToRel(<, Nat)) /\ i \in Nat /\ j \in Nat
    BY <1>1
  <2>2. ~ (j < i)
    BY <2>1 DEF OpToRel
  <2>3. i \in Int /\ j \in Int
    OBVIOUS
  <2> QED
    BY <2>2, <2>3
<1> QED
  BY <1>2

LEMMA LeastNat ==
    ASSUME NEW S, S \subseteq Nat, S # {}
    PROVE  (CHOOSE a \in S : \A b \in S : a =< b) \in S
  BY LeastExists

\* The details of one advisory, or their failure.
LEMMA DetailHolds ==
    ASSUME NEW pages, OsvHolds(osv, pages), NEW failure, OsvDetail(failure)
    PROVE  /\ OsvHolds(osv', pages)
           /\ DOMAIN osv'.matches = DOMAIN osv.matches /\ osv'.stage # "idle"
<1> DEFINE id       == CHOOSE a \in osv.todo : \A b \in osv.todo : a =< b
           todo     == osv.todo \ {id}
           records  == osv.records \cup (IF failure = {} THEN {id} ELSE {})
           failures == osv.failures \cup failure
           stage    == IF osv.todo = {id} THEN "available" ELSE osv.stage
<1>1. osv.stage = "details" /\ Shape(osv) /\ InDetails(osv, pages)
  BY DEF OsvDetail, OsvHolds
<1>2. id \in osv.todo
  <2>1. Matched(osv.matches) \subseteq Advisory
    BY <1>1 DEF InDetails, Typed, Matched
  <2> QED
    BY <1>1, <2>1, LeastNat, AdvisoryAssumption DEF InDetails
<1>3. osv' = [osv EXCEPT !.todo = todo, !.records = records, !.failures = failures, !.stage = stage]
  BY DEF OsvDetail
<1>4. failures # {} \/ records \cup todo = Matched(osv.matches)
  <2>1. CASE osv.failures # {}
    BY <2>1
  <2>2. CASE osv.records \cup osv.todo = Matched(osv.matches)
    <3> HIDE DEF id
    <3> QED
      BY <1>2, <2>2
  <2> QED
    BY <1>1, <2>1, <2>2 DEF InDetails
<1>5. todo \subseteq Matched(osv.matches) /\ records \subseteq Matched(osv.matches) /\ (todo = {} <=> stage = "available") /\ stage \in {"available", "details"}
  <2> HIDE DEF id
  <2> QED
    BY <1>1, <1>2 DEF InDetails, Typed
<1> HIDE DEF id, todo, records, failures, stage
<1>6. osv' = [stage |-> stage, matches |-> osv.matches, complete |-> osv.complete,
              pending |-> osv.pending, round |-> osv.round, todo |-> todo,
              records |-> records, failures |-> failures]
  BY <1>1, <1>3 DEF Shape
<1>7. CompleteIsAll(osv', pages)
  BY <1>1, <1>6 DEF InDetails, CompleteIsAll
<1> QED
  BY <1>1, <1>4, <1>5, <1>6, <1>7 DEF OsvHolds, Shape, InDetails, AllTold, Typed

LEMMA RequestHolds ==
    ASSUME osv = OsvIdle, NEW queries, NEW refused, OsvRequest(queries, refused)
    PROVE  (\A pages : OsvHolds(osv', pages)) /\ osv'.stage # "idle"
<1> SUFFICES ASSUME NEW pages PROVE OsvHolds(osv', pages) /\ osv'.stage # "idle"
  OBVIOUS
<1> DEFINE matches == [q \in queries |-> {}]
<1>1. CASE \E q \in queries : q.name \in refused
  <2>1. osv' = [osv EXCEPT !.stage = "unavailable", !.failures = {"osv_invalid_request"}]
    BY <1>1 DEF OsvRequest
  <2> QED
    BY <2>1 DEF OsvHolds, Shape, OsvIdle
<1>2. CASE ~ \E q \in queries : q.name \in refused
  <2>1. osv' = [osv EXCEPT !.stage = "batch", !.matches = matches, !.complete = queries,
                           !.pending = queries]
    BY <1>2 DEF OsvRequest
  <2>2. \A p : ToldBy(p, 0) = {}
    BY DEF ToldBy
  <2>3. DOMAIN matches = queries /\ \A q \in queries : matches[q] = {}
    OBVIOUS
  <2>4. 0 < MaxPaginationRounds
    BY BoundAssumption
  <2> HIDE DEF matches
  <2>5. osv' = [stage |-> "batch", matches |-> matches, complete |-> queries, pending |-> queries,
                round |-> 0, todo |-> {}, records |-> {}, failures |-> {}]
    BY <2>1 DEF OsvIdle
  <2> QED
    BY <2>2, <2>3, <2>4, <2>5 DEF OsvHolds, Shape, InPages
<1> QED
  BY <1>1, <1>2

LEMMA InitOsv == Init => OsvInv
<1> SUFFICES ASSUME Init PROVE OsvInv
  OBVIOUS
<1>1. osv = OsvIdle /\ world \in World /\ at \in {"repository", "quick_manifest"}
  BY DEF Init
<1>2. \A pages : OsvHolds(OsvIdle, pages)
  BY DEF OsvHolds, Shape, OsvIdle
<1>3. OsvIdle.stage = "idle"
  BY DEF OsvIdle
<1> QED
  BY <1>1, <1>2, <1>3 DEF OsvInv

\* A call of the adapter.
LEMMA AskKeeps ==
    ASSUME OsvInv, AskOsv
    PROVE  OsvInv' /\ DOMAIN osv'.matches = DOMAIN osv.matches
<1> DEFINE pages == PagesOf(DOMAIN osv.matches)
<1>1. /\ at = "vulnerability_data" /\ at' = at /\ world' = world
      /\ \/ OsvBatchAnswered(pages)
         \/ \E code : OsvBatchFailed(code)
         \/ \E failure : OsvDetail(failure)
  BY DEF AskOsv, OsvStep
<1>2. OsvHolds(osv', pages) /\ DOMAIN osv'.matches = DOMAIN osv.matches /\ osv'.stage # "idle"
  <2>1. pages \in PagesFor(DOMAIN osv.matches) /\ OsvHolds(osv, pages)
    BY PagesTyped DEF OsvInv
  <2> HIDE DEF pages
  <2> QED
    BY <1>1, <2>1, AnsweredHolds, FailedHolds, DetailHolds
<1>3. PagesOf(DOMAIN osv.matches)' = pages
  BY <1>1, <1>2 DEF PagesOf
<1> HIDE DEF pages
<1> QED
  BY <1>1, <1>2, <1>3 DEF OsvInv

LEMMA RequestKeeps ==
    ASSUME OsvInv, RequestVulnerabilities
    PROVE  OsvInv'
<1>1. at = "package_metadata" /\ world' = world /\ osv = OsvIdle
  BY DEF RequestVulnerabilities, OsvInv
<1>2. PICK queries \in SelectedQueries(project) :
        IF queries = {}
        THEN Recorded("analysis") /\ UNCHANGED osv
        ELSE /\ Recorded("vulnerability_data")
             /\ IF at' = "thrown" THEN UNCHANGED osv ELSE OsvRequest(queries, world.refused)
  BY DEF RequestVulnerabilities
<1>3. CASE UNCHANGED osv
  <2>1. PagesOf(DOMAIN osv.matches)' = PagesOf(DOMAIN osv.matches)
    BY <1>1, <1>3 DEF PagesOf
  <2>2. at' \in {"analysis", "vulnerability_data", "thrown"} /\ osv.stage = "idle"
    BY <1>1, <1>2 DEF Recorded, OsvIdle
  <2> QED
    BY <1>1, <1>3, <2>1, <2>2 DEF OsvInv
<1>4. CASE at' = "vulnerability_data" /\ OsvRequest(queries, world.refused)
  <2>1. OsvHolds(osv', PagesOf(DOMAIN osv.matches)') /\ osv'.stage # "idle"
    BY <1>1, <1>4, RequestHolds
  <2> QED
    BY <1>1, <1>4, <2>1 DEF OsvInv
<1> QED
  BY <1>2, <1>3, <1>4 DEF Recorded

LEMMA OthersLeaveOsv ==
    ASSUME OsvInv, UNCHANGED <<world, osv>>,
           at' \in {"repository", "manifest", "package_metadata", "quick_manifest"}
               => at \in {"repository", "manifest", "package_metadata", "quick_manifest"},
           at' \in {"analysis", "report"} => osv.stage \in {"idle", "available", "unavailable"}
    PROVE  OsvInv'
<1>1. PagesOf(DOMAIN osv.matches)' = PagesOf(DOMAIN osv.matches)
  BY DEF PagesOf
<1> QED
  BY <1>1 DEF OsvInv

LEMMA NextOsv == OsvInv /\ [Next]_vars => OsvInv'
<1> SUFFICES ASSUME OsvInv, [Next]_vars PROVE OsvInv'
  OBVIOUS
<1> USE OthersLeaveOsv
<1>1. CASE AcquireRepository
  BY <1>1 DEF AcquireRepository, Recorded
<1>2. CASE ParseManifest
  <2>1. at = "manifest" /\ at' \in {"missing_manifest", "invalid_manifest", "package_metadata", "thrown"}
        /\ UNCHANGED <<world, osv>>
    BY <1>2 DEF ParseManifest, Recorded
  <2> QED
    BY <2>1
<1>3. CASE StartNpmBatch
  BY <1>3 DEF StartNpmBatch
<1>4. CASE RequestNpmMetadata
  BY <1>4 DEF RequestNpmMetadata, OsvInv
<1>5. CASE NpmAnswers \/ NpmFails
  <2>1. PICK payload : SettleNpmRequest(payload) /\ UNCHANGED <<world, osv>>
    BY <1>5 DEF NpmAnswers, NpmFails
  <2>2. at' \in {at, "thrown"}
    BY <2>1 DEF SettleNpmRequest
  <2> QED
    BY <2>1, <2>2 DEF OsvInv
<1>6. CASE ProcessBatchResult
  BY <1>6 DEF ProcessBatchResult, Recorded
<1>7. CASE RequestVulnerabilities
  BY <1>7, RequestKeeps
<1>8. CASE AskOsv
  BY <1>8, AskKeeps
<1>9. CASE OsvSettled
  BY <1>9 DEF OsvSettled, Recorded
<1>10. CASE Analyze
  BY <1>10 DEF Analyze, Recorded, OsvInv
<1>11. CASE AnalyzeQuickManifest
  <2>1. at = "quick_manifest" /\ at' \in {"report", "invalid_manifest"} /\ UNCHANGED <<world, osv>>
    BY <1>11 DEF AnalyzeQuickManifest
  <2> QED
    BY <2>1 DEF OsvInv
<1>12. CASE Abort
  BY <1>12 DEF Abort, OsvInv
<1>13. CASE UNCHANGED vars
  BY <1>13 DEF vars, OsvInv
<1> QED
  BY <1>1, <1>2, <1>3, <1>4, <1>5, <1>6, <1>7, <1>8, <1>9, <1>10, <1>11, <1>12, <1>13
     DEF Next, Work

\* For any pages, any tokens OSV repeats or never ends, any failed call and any
\* bounds: what the report counts as a complete answer is one, and a matched
\* advisory without its details goes with a recorded failure.
THEOREM OsvIsNeverOverstated == Spec => []OsvNeverOverstates
<1>1. OsvInv => OsvNeverOverstates
  <2> SUFFICES ASSUME OsvInv, at = "report" PROVE OsvNeverOverstates
    BY DEF OsvNeverOverstates
  <2>1. osv.stage \in {"idle", "available", "unavailable"}
    BY DEF OsvInv
  <2>2. osv.stage = "available" => AllTold(osv, PagesOf(DOMAIN osv.matches))
    BY DEF OsvInv, OsvHolds
  <2> QED
    BY <2>1, <2>2 DEF OsvNeverOverstates, AllTold, CompleteIsAll
<1> QED
  BY <1>1, InitOsv, NextOsv, PTL DEF Spec

-----------------------------------------------------------------------------
(* What an analysis has collected when it reports. *)

Collecting == {"manifest", "package_metadata", "vulnerability_data", "analysis", "report"}

\* The project is the acquired one, and npm and OSV were only believed.
FlowInv ==
    /\ world \in World
    /\ world.kind = "repository" =>
          /\ at # "quick_manifest"
          /\ at \in Collecting => project = Acquired(world.repository, world.lost)
    /\ world.kind # "repository" =>
          /\ at \in {"quick_manifest", "report", "invalid_manifest"}
          /\ at = "report" => project = ManifestOnly(world.repository)
          /\ npm.answers = <<>> /\ osv = OsvIdle
    /\ \A n \in DOMAIN npm.answers :
          npm.answers[n] \in {NoAnswer, ParseNpmPackageMetadata(world.registry[n])}
    /\ DOMAIN osv.matches \subseteq AskableQueries(project)

LEMMA InitFlow == Init => FlowInv
<1> SUFFICES ASSUME Init PROVE FlowInv
  OBVIOUS
<1>1. /\ world \in World /\ osv = OsvIdle /\ DOMAIN osv.matches = {}
      /\ at = IF world.kind = "repository" THEN "repository" ELSE "quick_manifest"
      /\ npm.answers = <<>> /\ DOMAIN npm.answers = {}
  BY DEF Init, OsvIdle
<1> QED
  BY <1>1 DEF FlowInv, Collecting

LEMMA NoAnswerStays == ParseNpmPackageMetadata(NoAnswer) = NoAnswer
  BY DEF ParseNpmPackageMetadata, NoAnswer

\* An answer or a failure is noted for its package alone.
LEMMA SettleAnswers ==
    ASSUME NpmInv, NEW n \in npm.flight, NEW payload,
           IF aborted
           THEN at' = "thrown" /\ npm' = [npm EXCEPT !.flight = @ \ {n}, !.chain = {}]
           ELSE /\ npm' = [npm EXCEPT !.flight  = @ \ {n},
                                      !.settled = @ \cup {n},
                                      !.answers = Noted(npm.answers, n, payload)]
                /\ UNCHANGED at
    PROVE  /\ \A k \in DOMAIN npm'.answers :
                 \/ k \in DOMAIN npm.answers /\ npm'.answers[k] = npm.answers[k]
                 \/ k = n /\ npm'.answers[k] = ParseNpmPackageMetadata(payload)
           /\ at' \in {at, "thrown"}
<1> DEFINE answers == Noted(npm.answers, n, payload)
<1>1. CASE aborted
  BY <1>1 DEF NpmInv
<1>2. CASE ~aborted
  <2>1. npm'.answers = answers
    <3> HIDE DEF answers
    <3>1. npm' = [npm EXCEPT !.flight = @ \ {n}, !.settled = @ \cup {n}, !.answers = answers]
      BY <1>2 DEF answers
    <3> QED
      BY <3>1 DEF NpmInv
  <2> QED
    BY <1>2, <2>1 DEF Noted
<1> QED
  BY <1>1, <1>2

\* Steps that do not touch what was collected.
LEMMA FlowStays ==
    ASSUME FlowInv, UNCHANGED <<world, project>>, npm'.answers = npm.answers,
           DOMAIN osv'.matches = DOMAIN osv.matches,
           world.kind = "repository" =>
              at' # "quick_manifest" /\ (at' \in Collecting => at \in Collecting),
           world.kind # "repository" =>
              at' \in {"quick_manifest", "report", "invalid_manifest"}
              /\ (at' = "report" => at = "report") /\ osv' = osv
    PROVE  FlowInv'
<1>1. AskableQueries(project)' = AskableQueries(project)
  BY DEF AskableQueries, ExactOsvQueries, SelectedPackages, UniquePackageNames
<1> QED
  BY <1>1 DEF FlowInv

LEMMA FlowKept ==
    ASSUME FlowInv, NpmInv, OsvInv, Next, ~AnalyzeQuickManifest, ~AcquireRepository,
           ~NpmAnswers, ~NpmFails, ~RequestVulnerabilities, ~AskOsv
    PROVE  FlowInv'
<1>1. CASE ParseManifest
  <2>1. /\ at = "manifest" /\ UNCHANGED <<world, project, osv>> /\ at' # "quick_manifest"
        /\ npm' \in {npm, [npm EXCEPT !.todo = SelectedPackages(project)]}
    BY <1>1 DEF ParseManifest, Recorded
  <2>2. npm'.answers = npm.answers
    BY <2>1 DEF NpmInv
  <2> QED
    BY <2>1, <2>2, FlowStays DEF Collecting, FlowInv
<1>2. CASE StartNpmBatch
  <2>1. npm'.answers = npm.answers
    BY <1>2 DEF NpmInv, StartNpmBatch
  <2> QED
    BY <1>2, <2>1, FlowStays DEF StartNpmBatch, Collecting, FlowInv
<1>3. CASE RequestNpmMetadata
  <2>1. npm'.answers = npm.answers
    BY <1>3 DEF NpmInv, RequestNpmMetadata
  <2> QED
    BY <1>3, <2>1, FlowStays DEF RequestNpmMetadata, Collecting, FlowInv
<1>4. CASE ProcessBatchResult
  <2>1. npm'.answers = npm.answers
    BY <1>4 DEF NpmInv, ProcessBatchResult
  <2> QED
    BY <1>4, <2>1, FlowStays DEF ProcessBatchResult, Recorded, Collecting, FlowInv
<1>5. CASE OsvSettled
  BY <1>5, FlowStays DEF OsvSettled, Recorded, Collecting, FlowInv
<1>6. CASE Analyze
  BY <1>6, FlowStays DEF Analyze, Recorded, Collecting, FlowInv
<1>7. CASE Abort
  BY <1>7, FlowStays DEF Abort, Collecting, FlowInv
<1> QED
  BY <1>1, <1>2, <1>3, <1>4, <1>5, <1>6, <1>7 DEF Next, Work

LEMMA NextFlow == FlowInv /\ NpmInv /\ OsvInv /\ [Next]_vars => FlowInv'
<1> SUFFICES ASSUME FlowInv, NpmInv, OsvInv, [Next]_vars PROVE FlowInv'
  OBVIOUS
<1>1. CASE AcquireRepository
  <2>1. /\ at = "repository" /\ UNCHANGED <<world, npm, osv>> /\ osv = OsvIdle
        /\ world.kind = "repository"
    BY <1>1 DEF AcquireRepository, OsvInv, FlowInv
  <2>2. /\ at' \in {"manifest", "repository_unavailable", "thrown"}
        /\ at' = "manifest" => project' = Acquired(world.repository, world.lost)
    BY <1>1 DEF AcquireRepository, Recorded
  <2>3. DOMAIN osv'.matches = {}
    BY <2>1 DEF OsvIdle
  <2> QED
    BY <2>1, <2>2, <2>3 DEF FlowInv, Collecting
<1>2. CASE NpmAnswers \/ NpmFails
  <2>1. PICK n \in npm.flight :
          \E payload \in {world.registry[n], NoAnswer} :
            IF aborted
            THEN at' = "thrown" /\ npm' = [npm EXCEPT !.flight = @ \ {n}, !.chain = {}]
            ELSE /\ npm' = [npm EXCEPT !.flight  = @ \ {n},
                                       !.settled = @ \cup {n},
                                       !.answers = Noted(npm.answers, n, payload)]
                 /\ UNCHANGED at
    <3>1. CASE NpmAnswers
      <4>1. PICK k \in npm.flight : SettleNpmRequest(world.registry[k])
        BY <3>1 DEF NpmAnswers
      <4>2. \A k2 \in npm.flight : k2 = k
        BY <4>1 DEF NpmInv
      <4> QED
        BY <4>1, <4>2 DEF SettleNpmRequest
    <3>2. CASE NpmFails
      BY <3>2 DEF NpmFails, SettleNpmRequest
    <3> QED
      BY <1>2, <3>1, <3>2
  <2>2. UNCHANGED <<world, project, osv>>
    BY <1>2 DEF NpmAnswers, NpmFails
  <2>3. at = "package_metadata"
    BY <2>1 DEF NpmInv
  <2>4. PICK payload \in {world.registry[n], NoAnswer} :
          /\ \A k \in DOMAIN npm'.answers :
                \/ k \in DOMAIN npm.answers /\ npm'.answers[k] = npm.answers[k]
                \/ k = n /\ npm'.answers[k] = ParseNpmPackageMetadata(payload)
          /\ at' \in {at, "thrown"}
    BY <2>1, SettleAnswers
  <2>5. \A k \in DOMAIN npm'.answers :
           npm'.answers[k] \in {NoAnswer, ParseNpmPackageMetadata(world.registry[k])}
    BY <2>4, NoAnswerStays DEF FlowInv
  <2>6. AskableQueries(project)' = AskableQueries(project)
    BY <2>2 DEF AskableQueries, ExactOsvQueries, SelectedPackages, UniquePackageNames
  <2> QED
    BY <2>2, <2>3, <2>4, <2>5, <2>6 DEF FlowInv, Collecting
<1>3. CASE RequestVulnerabilities
  <2>1. /\ at = "package_metadata" /\ UNCHANGED <<world, project, npm>> /\ osv = OsvIdle
        /\ world.kind = "repository"
    BY <1>3 DEF RequestVulnerabilities, OsvInv, FlowInv
  <2>2. PICK queries \in SelectedQueries(project) :
          IF queries = {}
          THEN Recorded("analysis") /\ UNCHANGED osv
          ELSE /\ Recorded("vulnerability_data")
               /\ IF at' = "thrown" THEN UNCHANGED osv ELSE OsvRequest(queries, world.refused)
    BY <1>3 DEF RequestVulnerabilities
  <2>3. queries \subseteq AskableQueries(project)
    BY DEF SelectedQueries
  <2>4. DOMAIN osv'.matches \subseteq queries
    <3>1. DOMAIN osv.matches = {}
      BY <2>1 DEF OsvIdle
    <3>2. CASE UNCHANGED osv
      BY <3>1, <3>2
    <3>3. CASE OsvRequest(queries, world.refused)
      <4> DEFINE matches == [q \in queries |-> {}]
      <4>1. DOMAIN matches = queries
        OBVIOUS
      <4>2. osv' \in {[osv EXCEPT !.stage = "unavailable", !.failures = {"osv_invalid_request"}],
                     [osv EXCEPT !.stage = "batch", !.matches = matches, !.complete = queries,
                                 !.pending = queries]}
        BY <3>3 DEF OsvRequest
      <4> HIDE DEF matches
      <4>3. osv'.matches \in {osv.matches, matches}
        BY <2>1, <4>2 DEF OsvIdle
      <4> QED
        BY <3>1, <4>1, <4>3
    <3> QED
      BY <2>2, <3>2, <3>3
  <2>5. AskableQueries(project)' = AskableQueries(project)
    BY <2>1 DEF AskableQueries, ExactOsvQueries, SelectedPackages, UniquePackageNames
  <2>6. at' \in {"analysis", "vulnerability_data", "thrown"}
    BY <2>2 DEF Recorded
  <2> QED
    BY <2>1, <2>3, <2>4, <2>5, <2>6 DEF FlowInv, Collecting
<1>4. CASE AskOsv
  BY <1>4, AskKeeps, FlowStays DEF AskOsv, Collecting, FlowInv
<1>5. CASE AnalyzeQuickManifest
  <2>1. /\ at = "quick_manifest" /\ UNCHANGED <<world, npm, osv>> /\ osv = OsvIdle
        /\ world.kind # "repository"
    BY <1>5 DEF AnalyzeQuickManifest, OsvInv, FlowInv
  <2>2. /\ at' \in {"report", "invalid_manifest"}
        /\ at' = "report" => project' = ManifestOnly(world.repository)
    BY <1>5 DEF AnalyzeQuickManifest
  <2>3. DOMAIN osv'.matches = {}
    BY <2>1 DEF OsvIdle
  <2> QED
    BY <2>1, <2>2, <2>3 DEF FlowInv
<1>6. CASE UNCHANGED vars
  BY <1>6, FlowStays DEF vars, FlowInv
<1> QED
  BY <1>1, <1>2, <1>3, <1>4, <1>5, <1>6, FlowKept

CollectedInv == FlowInv /\ NpmInv /\ OsvInv

LEMMA AlwaysCollected == Spec => []CollectedInv
<1>1. Init => CollectedInv
  BY InitFlow, InitNpm, InitOsv DEF CollectedInv
<1>2. CollectedInv /\ [Next]_vars => CollectedInv'
  BY NextFlow, NextNpm, NextOsv DEF CollectedInv
<1> QED
  BY <1>1, <1>2, PTL DEF Spec

-----------------------------------------------------------------------------
(* Snapshots and their members. *)

OnePerPath(s) ==
    /\ \E m \in s.manifests : m.path = Root
    /\ \A m, n \in s.manifests : m.path = n.path => m = n

LEMMA RootIsOne ==
    ASSUME NEW s, OnePerPath(s)
    PROVE  RootManifest(s) \in s.manifests /\ RootManifest(s).path = Root
  BY DEF OnePerPath, RootManifest

LEMMA ManifestsExist ==
    ASSUME NEW s, OnePerPath(s)
    PROVE  Manifests(s) \subseteq s.manifests /\ RootManifest(s) \in Manifests(s)
  BY RootIsOne DEF Manifests, Selected

Role(s, m) ==
    IF m.path = Root /\ Cardinality(Manifests(s)) > 1 /\ m.files \cap OwnSource = {}
    THEN "orchestrator" ELSE "package"

LockOf(s, m) ==
    NormalizeResolvedDependencies(
        s.manager, s.locks, {d \in Declarations(s, m) : IsExternalDependency(d)}, m.path)

LEMMA MemberFields ==
    ASSUME NEW s, NEW m
    PROVE  /\ Member(s, m).path = m.path
           /\ Member(s, m).packageName = m.packageName
           /\ Member(s, m).declarations = Declarations(s, m)
           /\ Member(s, m).files = m.files
           /\ Member(s, m).scripts = m.scripts
           /\ Member(s, m).uses = m.uses
           /\ Member(s, m).role = Role(s, m)
           /\ Member(s, m).lock = LockOf(s, m)
<1> DEFINE role == Role(s, m)
           lock == LockOf(s, m)
<1>1. Member(s, m) =
        [path |-> m.path, packageName |-> m.packageName, declarations |-> Declarations(s, m),
         files |-> m.files, scripts |-> m.scripts, uses |-> m.uses, role |-> role, lock |-> lock]
  BY DEF Member, Role, LockOf
<1> HIDE DEF role, lock
<1>2. /\ Member(s, m).role = role /\ Member(s, m).lock = lock
      /\ Member(s, m).path = m.path /\ Member(s, m).packageName = m.packageName
      /\ Member(s, m).declarations = Declarations(s, m) /\ Member(s, m).files = m.files
      /\ Member(s, m).scripts = m.scripts /\ Member(s, m).uses = m.uses
  BY <1>1
<1> QED
  BY <1>2 DEF role, lock

\* A path tells the member.
LEMMA MembersOnce ==
    ASSUME NEW s, OnePerPath(s)
    PROVE  /\ \A m \in Manifests(s) : MemberAt(Members(s), m.path) = Member(s, m)
           /\ \A m, n \in Manifests(s) : Member(s, m).path = Member(s, n).path => m = n
           /\ MemberAt(Members(s), Root) \in Members(s) /\ MemberAt(Members(s), Root).path = Root
<1>1. \A m, n \in Manifests(s) : Member(s, m).path = Member(s, n).path => m = n
  BY ManifestsExist, MemberFields DEF OnePerPath
<1>2. \A m \in Manifests(s) : MemberAt(Members(s), m.path) = Member(s, m)
  <2> TAKE m \in Manifests(s)
  <2>1. Member(s, m) \in Members(s) /\ Member(s, m).path = m.path
    BY MemberFields DEF Members
  <2>2. \A x \in Members(s) : x.path = m.path => x = Member(s, m)
    BY <1>1, <2>1 DEF Members
  <2> QED
    BY <2>1, <2>2 DEF MemberAt
<1>3. MemberAt(Members(s), Root) = Member(s, RootManifest(s))
  BY <1>2, RootIsOne, ManifestsExist
<1>4. Member(s, RootManifest(s)) \in Members(s) /\ Member(s, RootManifest(s)).path = Root
  BY RootIsOne, ManifestsExist, MemberFields DEF Members
<1> QED
  BY <1>1, <1>2, <1>3, <1>4

LEMMA DeclaredNamesOf ==
    ASSUME NEW s, NEW m PROVE DeclaredNames(Member(s, m)) = {d.name : d \in m.raw}
<1> DEFINE declared(d) == [name |-> d.name, spec |-> d.spec, group |-> d.group,
                           link |-> LinkOf(s, d, m.path)]
<1>1. Declarations(s, m) = {declared(d) : d \in m.raw}
  BY DEF Declarations
<1>2. \A d : declared(d).name = d.name
  OBVIOUS
<1> HIDE DEF declared
<1>3. {x.name : x \in Declarations(s, m)} = {d.name : d \in m.raw}
  BY <1>1, <1>2
<1> QED
  BY <1>3, MemberFields DEF DeclaredNames

-----------------------------------------------------------------------------
(* What the acquisition keeps of a repository. *)

LEMMA RepositoryOnce == ASSUME NEW w \in World PROVE OnePerPath(w.repository)
  BY WorldAssumption DEF OnePerPath

LEMMA AcquiredFields ==
    ASSUME NEW w \in World, NEW s, s = Acquired(w.repository, w.lost)
    PROVE  /\ s.manager = w.repository.manager /\ s.pin = w.repository.pin
           /\ s.known = TRUE
           /\ s.locks = (IF "lockfile" \in w.lost THEN {} ELSE w.repository.locks)
           /\ s.patterns = (IF "workspace_file" \in w.lost THEN "none" ELSE w.repository.patterns)
           /\ s.manifests = {AcquiredManifest(m, w.lost) :
                                m \in {x \in w.repository.manifests :
                                          x.path = Root \/ "tree" \notin w.lost}}
           /\ s.complete = (w.lost \subseteq {"lockfile"})
           /\ s.discovered = (w.lost \cap {"tree", "workspace_file"} = {})
<1> DEFINE r == w.repository
           locks == IF "lockfile" \in w.lost THEN {} ELSE r.locks
           patterns == IF "workspace_file" \in w.lost THEN "none" ELSE r.patterns
           manifests == {AcquiredManifest(m, w.lost) :
                            m \in {x \in r.manifests : x.path = Root \/ "tree" \notin w.lost}}
           complete == w.lost \subseteq {"lockfile"}
           discovered == w.lost \cap {"tree", "workspace_file"} = {}
<1>1. s = [r EXCEPT !.locks = locks, !.patterns = patterns, !.manifests = manifests,
                    !.complete = complete, !.discovered = discovered]
  BY DEF Acquired
<1>2. /\ r = [manager |-> r.manager, pin |-> r.pin, locks |-> r.locks, manifests |-> r.manifests,
              patterns |-> r.patterns, complete |-> r.complete, discovered |-> r.discovered,
              known |-> r.known]
      /\ r.known = TRUE
  BY WorldAssumption DEF IsSnapshot
<1> HIDE DEF r, locks, patterns, manifests, complete, discovered
<1>3. s = [manager |-> r.manager, pin |-> r.pin, locks |-> locks, manifests |-> manifests,
           patterns |-> patterns, complete |-> complete, discovered |-> discovered,
           known |-> TRUE]
  BY <1>1, <1>2
<1>4. /\ s.manager = r.manager /\ s.pin = r.pin /\ s.known = TRUE /\ s.locks = locks
      /\ s.patterns = patterns /\ s.manifests = manifests
      /\ s.complete = complete /\ s.discovered = discovered
  BY <1>3
<1> QED
  BY <1>4 DEF r, locks, patterns, manifests, complete, discovered

LEMMA AcquiredManifestFields ==
    ASSUME NEW m, IsManifest(m), NEW lost, NEW x, x = AcquiredManifest(m, lost)
    PROVE  /\ x.path = m.path /\ x.packageName = m.packageName /\ x.raw = m.raw
           /\ x.excluded = m.excluded /\ x.scripts = m.scripts
           /\ x.files = m.files \ LostFiles(lost)
           /\ x.uses = (IF "source" \in lost THEN {} ELSE m.uses)
           /\ x.state = (IF "manifest" \in lost /\ m.path # Root THEN "missing" ELSE m.state)
           /\ lost \subseteq {"lockfile"} => x = m
<1> DEFINE files == m.files \ LostFiles(lost)
           uses  == IF "source" \in lost THEN {} ELSE m.uses
           state == IF "manifest" \in lost /\ m.path # Root THEN "missing" ELSE m.state
<1>1. x = [m EXCEPT !.files = files, !.uses = uses, !.state = state]
  BY DEF AcquiredManifest
<1>2. lost \subseteq {"lockfile"} => files = m.files /\ uses = m.uses /\ state = m.state
  <2>1. lost \subseteq {"lockfile"} =>
           {"source", "tests", "configuration", "manifest"} \cap lost = {}
    OBVIOUS
  <2> QED
    BY <2>1 DEF LostFiles
<1> HIDE DEF files, uses, state
<1>3. x = [path |-> m.path, packageName |-> m.packageName, state |-> state, raw |-> m.raw,
           excluded |-> m.excluded, files |-> files, scripts |-> m.scripts, uses |-> uses]
  BY <1>1 DEF IsManifest
<1>4. /\ x.path = m.path /\ x.packageName = m.packageName /\ x.raw = m.raw
      /\ x.excluded = m.excluded /\ x.scripts = m.scripts
      /\ x.files = files /\ x.uses = uses /\ x.state = state
  BY <1>3
<1>5. lost \subseteq {"lockfile"} => x = m
  BY <1>2, <1>3 DEF IsManifest
<1> QED
  BY <1>4, <1>5 DEF files, uses, state

LEMMA AcquiredOnce ==
    ASSUME NEW w \in World, NEW s, s = Acquired(w.repository, w.lost)
    PROVE  /\ OnePerPath(s)
           /\ \A x \in s.manifests : \E m \in w.repository.manifests :
                 /\ x = AcquiredManifest(m, w.lost)
                 /\ m.path = Root \/ "tree" \notin w.lost
           /\ RootManifest(s) = AcquiredManifest(RootManifest(w.repository), w.lost)
<1> DEFINE r == w.repository
<1>1. \A m \in r.manifests : IsManifest(m)
  BY WorldAssumption DEF IsSnapshot
<1>2. OnePerPath(r) /\ RootManifest(r) \in r.manifests /\ RootManifest(r).path = Root
  BY RepositoryOnce, RootIsOne
<1> DEFINE kept == {m \in r.manifests : m.path = Root \/ "tree" \notin w.lost}
<1>3. s.manifests = {AcquiredManifest(m, w.lost) : m \in kept}
  BY AcquiredFields
<1>4. \A m \in r.manifests : AcquiredManifest(m, w.lost).path = m.path
  BY <1>1, AcquiredManifestFields
<1>5. \A x \in s.manifests : \E m \in r.manifests :
         /\ x = AcquiredManifest(m, w.lost) /\ x.path = m.path
         /\ m.path = Root \/ "tree" \notin w.lost
  BY <1>3, <1>4
<1>6. /\ AcquiredManifest(RootManifest(r), w.lost) \in s.manifests
      /\ AcquiredManifest(RootManifest(r), w.lost).path = Root
  BY <1>2, <1>3, <1>4
<1>7. OnePerPath(s)
  <2>1. \A x, y \in s.manifests : x.path = y.path => x = y
    BY <1>2, <1>5 DEF OnePerPath
  <2> QED
    BY <1>6, <2>1 DEF OnePerPath
<1>8. RootManifest(s) = AcquiredManifest(RootManifest(r), w.lost)
  BY <1>6, <1>7, RootIsOne DEF OnePerPath
<1> QED
  BY <1>5, <1>7, <1>8

\* Without its lockfiles a repository is still read completely.
LEMMA CompleteManifests ==
    ASSUME NEW w \in World, NEW s, s = Acquired(w.repository, w.lost), s.complete
    PROVE  /\ s.manifests = w.repository.manifests
           /\ Manifests(s) = Manifests(w.repository)
<1> DEFINE r == w.repository
<1>1. w.lost \subseteq {"lockfile"}
  BY AcquiredFields
<1>2. "tree" \notin w.lost /\ "workspace_file" \notin w.lost
  BY <1>1
<1>3. \A m \in r.manifests : AcquiredManifest(m, w.lost) = m
  <2>1. \A m \in r.manifests : IsManifest(m)
    BY WorldAssumption DEF IsSnapshot
  <2> QED
    BY <1>1, <2>1, AcquiredManifestFields
<1>4. s.manifests = r.manifests
  <2> DEFINE kept == {m \in r.manifests : m.path = Root \/ "tree" \notin w.lost}
  <2>1. s.manifests = {AcquiredManifest(m, w.lost) : m \in kept} /\ kept = r.manifests
    BY <1>2, AcquiredFields
  <2> HIDE DEF r, kept
  <2> QED
    BY <1>3, <2>1
<1>5. s.patterns = r.patterns
  BY <1>2, AcquiredFields
<1> QED
  BY <1>4, <1>5 DEF Manifests, Selected, RootManifest

-----------------------------------------------------------------------------
(* The parts of a report. *)

ReportChecks == InspectionChecks(project, Members(project), Registry, OsvSnapshot)

ReportRules == AllOutputs(project, Members(project), Registry, OsvSnapshot, ReportChecks)

LEMMA ReportFields ==
    /\ Report.outputs = UNION {Accepted(ReportRules[r]) : r \in DOMAIN ReportRules}
    /\ Report.recommended = Recommended(Report.outputs)
    /\ Report.rejected = {r \in DOMAIN ReportRules : ~DistinctIds(ReportRules[r])}
    /\ Report.issues = WorkspaceIssues(project)
    /\ Report.discovered = project.discovered
    /\ Report.paths = {m.path : m \in Members(project)}
    /\ Report.checks = ReportChecks
    /\ Report.osv = OsvSnapshot
    /\ Report.scores = StackHealth(ReportChecks, FALSE)
<1> DEFINE kept     == UNION {Accepted(ReportRules[r]) : r \in DOMAIN ReportRules}
           advised  == Recommended(kept)
           rejected == {r \in DOMAIN ReportRules : ~DistinctIds(ReportRules[r])}
           issues   == WorkspaceIssues(project)
           found    == project.discovered
           paths    == {m.path : m \in Members(project)}
           snapshot == OsvSnapshot
           scores   == StackHealth(ReportChecks, FALSE)
<1>1. Report = [outputs |-> kept, recommended |-> advised, rejected |-> rejected,
                issues |-> issues, discovered |-> found, paths |-> paths,
                checks |-> ReportChecks, osv |-> snapshot, scores |-> scores]
  BY DEF Report, RunAnalyzer, Evaluated, Assembled, ReportChecks, ReportRules
<1> HIDE DEF kept, advised, rejected, issues, found, paths, snapshot, scores
<1>2. /\ Report.outputs = kept /\ Report.recommended = advised /\ Report.rejected = rejected
      /\ Report.issues = issues /\ Report.discovered = found /\ Report.paths = paths
      /\ Report.checks = ReportChecks /\ Report.osv = snapshot /\ Report.scores = scores
  BY <1>1
<1> QED
  BY <1>2 DEF kept, advised, rejected, issues, found, paths, snapshot, scores

LEMMA RulesAlone ==
    ASSUME NEW s, NEW members, NEW registry, NEW o, NEW checks, s.known = FALSE
    PROVE  AllOutputs(s, members, registry, o, checks) =
              [overlap |-> UNION {DependencyOverlap(s, m) : m \in members}]
  BY DEF AllOutputs, ProjectOutputs

LEMMA Rules ==
    ASSUME NEW s, NEW members, NEW registry, NEW o, NEW checks, s.known = TRUE,
           NEW rules, rules = AllOutputs(s, members, registry, o, checks)
    PROVE  /\ DOMAIN rules = {"deprecated", "outdated", "migration", "vulnerable", "health",
                              "unnecessary", "overlap", "setup"}
           /\ rules["deprecated"] = Deprecated(members, registry)
           /\ rules["outdated"]   = Outdated(members, registry)
           /\ rules["migration"]  = Migrations(members, registry)
           /\ rules["vulnerable"] = Vulnerable(members, o)
           /\ rules["health"]     = Health(members, registry)
<1> DEFINE own      == RuleOutputs(members, registry, o)
           projects == ProjectOutputs(s, members, checks)
<1>1. rules = [r \in DOMAIN own \cup DOMAIN projects |->
                  IF r \in DOMAIN own THEN own[r] ELSE projects[r]]
  BY DEF AllOutputs
<1>2. DOMAIN own = {"deprecated", "outdated", "migration", "vulnerable", "health"}
  BY DEF RuleOutputs
<1>3. DOMAIN projects = {"unnecessary", "overlap", "setup"}
  BY DEF ProjectOutputs
<1>4. /\ own["deprecated"] = Deprecated(members, registry)
      /\ own["outdated"] = Outdated(members, registry)
      /\ own["migration"] = Migrations(members, registry)
      /\ own["vulnerable"] = Vulnerable(members, o)
      /\ own["health"] = Health(members, registry)
  BY DEF RuleOutputs
<1> HIDE DEF own, projects
<1> QED
  BY <1>1, <1>2, <1>3, <1>4

AllUnnecessary(s, members) == UNION {PotentiallyUnnecessary(s, members, m) : m \in members}
AllOverlaps(s, members)    == UNION {DependencyOverlap(s, m) : m \in members}
AllSetup(members, checks)  == UNION {SetupFindings(checks, m) : m \in members}

LEMMA RulesOfMembers ==
    ASSUME NEW s, NEW members, NEW registry, NEW o, NEW checks, s.known = TRUE,
           NEW rules, rules = AllOutputs(s, members, registry, o, checks)
    PROVE  /\ rules["unnecessary"] = AllUnnecessary(s, members)
           /\ rules["overlap"]     = AllOverlaps(s, members)
           /\ rules["setup"]       = AllSetup(members, checks)
<1> DEFINE own      == RuleOutputs(members, registry, o)
           projects == ProjectOutputs(s, members, checks)
<1>1. rules = [r \in DOMAIN own \cup DOMAIN projects |->
                  IF r \in DOMAIN own THEN own[r] ELSE projects[r]]
  BY DEF AllOutputs
<1>2. DOMAIN own = {"deprecated", "outdated", "migration", "vulnerable", "health"}
  BY DEF RuleOutputs
<1>3. projects = [unnecessary |-> AllUnnecessary(s, members), overlap |-> AllOverlaps(s, members),
                  setup |-> AllSetup(members, checks)]
  BY DEF ProjectOutputs, AllUnnecessary, AllOverlaps, AllSetup
<1> HIDE DEF own, projects
<1> QED
  BY <1>1, <1>2, <1>3

-----------------------------------------------------------------------------
(* Outputs and their codes. *)

LEMMA OutputFields ==
    ASSUME NEW m, NEW b, NEW kind, NEW code, NEW name, NEW version, NEW advisory,
           NEW o, o = Output(kind, m, b, Identity(code, name, version, advisory))
    PROVE  /\ o.kind = kind /\ o.at = m.path /\ o.basis = b
           /\ o.id = Identity(code, name, version, advisory)
           /\ o.id.code = code /\ o.id.name = name /\ o.id.version = version
           /\ o.id.advisory = advisory
  BY DEF Output, Identity

LEMMA FindingFields ==
    ASSUME NEW m, NEW b, NEW code, NEW version, NEW advisory,
           NEW o \in Finding(m, b, code, version, advisory)
    PROVE  /\ o.kind = "finding" /\ o.at = m.path /\ o.basis = b
           /\ o.id.code = code /\ o.id.name = b.name /\ o.id.version = version
           /\ o.id.advisory = advisory
           /\ o.id = Identity(code, b.name, version, advisory)
  BY OutputFields DEF Finding

LEMMA LimitationFields ==
    ASSUME NEW m, NEW b, NEW code, NEW version, NEW o \in Limitation(m, b, code, version)
    PROVE  /\ o.kind = "limitation" /\ o.at = m.path /\ o.basis = b
           /\ o.id.code = code /\ o.id.name = b.name /\ o.id.version = version
  BY OutputFields DEF Limitation

NpmCode ==
    {"npm-resolved-version-required", "npm-metadata-missing", "npm-current-version-missing",
     "npm-latest-tag-missing", "npm-comparison-version-missing", "npm-comparison-version-invalid",
     "npm-latest-version-missing", "migration-resolved-version-required",
     "migration-latest-tag-missing", "migration-target-version-missing",
     "deprecated", "outdated", "migration", "health"}

OsvCode ==
    {"osv-resolved-version-missing", "osv-exact-version-missing", "osv-query-incomplete",
     "osv-advisory-withdrawn", "osv-source-unavailable", "vulnerability"}

LEMMA NpmCodes ==
    ASSUME NEW m, NEW b, NEW registry
    PROVE  /\ \A o \in DeprecatedDependency(m, b, registry) : o.id.code \in NpmCode
           /\ \A o \in OutdatedDependency(m, b, registry) : o.id.code \in NpmCode
           /\ \A o \in MigrationOpportunity(m, b, registry) : o.id.code \in NpmCode
           /\ \A o \in NpmRegistryHealth(m, b.name, registry) : o.id.code \in NpmCode
<1>1. \A o \in DeprecatedDependency(m, b, registry) : o.id.code \in NpmCode
  BY LimitationFields, FindingFields DEF DeprecatedDependency, NpmCode
<1>2. \A o \in OutdatedDependency(m, b, registry) : o.id.code \in NpmCode
  BY LimitationFields, FindingFields DEF OutdatedDependency, NpmCode
<1>3. \A o \in MigrationOpportunity(m, b, registry) : o.id.code \in NpmCode
  BY LimitationFields, FindingFields DEF MigrationOpportunity, NpmCode
<1>4. \A o \in NpmRegistryHealth(m, b.name, registry) : o.id.code \in NpmCode
  BY LimitationFields, OutputFields DEF NpmRegistryHealth, NpmCode
<1> QED
  BY <1>1, <1>2, <1>3, <1>4

\* Merging keeps one of the outputs with an identity.
LEMMA MergedOutputs ==
    ASSUME NEW outputs
    PROVE  /\ Merged(outputs) \subseteq outputs
           /\ \A p \in outputs : \E o \in Merged(outputs) : o.id = p.id /\ o.at = p.at
<1> DEFINE same(p) == CHOOSE o \in outputs : o.id = p.id /\ o.at = p.at
<1>1. \A p \in outputs : same(p) \in outputs /\ same(p).id = p.id /\ same(p).at = p.at
  OBVIOUS
<1>2. Merged(outputs) = {same(p) : p \in outputs}
  BY DEF Merged
<1> HIDE DEF same
<1> QED
  BY <1>1, <1>2

LEMMA KnownVulnerabilityCases ==
    ASSUME NEW m, NEW b, NEW osnap, NEW o \in KnownVulnerability(m, b, osnap)
    PROVE  LET v == Effective(m, b)
           IN  \/ o \in Limitation(m, b, "osv-resolved-version-missing", b.spec)
               \/ o \in Limitation(m, b, "osv-exact-version-missing", v)
               \/ o \in Limitation(m, b, "osv-query-incomplete", v)
               \/ \E a \in Matches(osnap, b.name, v) \cap Withdrawn \cap osnap.records :
                     o = Output("limitation", m, b, Identity("osv-advisory-withdrawn", b.name, v, a))
               \/ \E a \in Matches(osnap, b.name, v) \ (Withdrawn \cap osnap.records) :
                     o \in Finding(m, b, "vulnerability", v, Representative(osnap.records, a))
<1> DEFINE v == Effective(m, b)
           queries == Queries(osnap, b.name, v)
<1>1. CASE ~osnap.known
  BY <1>1 DEF KnownVulnerability
<1>2. CASE osnap.known /\ (v = NoVersion \/ queries = {})
  BY <1>2 DEF KnownVulnerability
<1>3. CASE osnap.known /\ v # NoVersion /\ queries # {}
  BY <1>3 DEF KnownVulnerability
<1> QED
  BY <1>1, <1>2, <1>3

LEMMA KnownVulnerabilityIs ==
    ASSUME NEW m, NEW b, NEW osnap, NEW o \in KnownVulnerability(m, b, osnap)
    PROVE  /\ o.id.code \in OsvCode /\ o.at = m.path /\ o.basis = b /\ o.id.name = b.name
           /\ o.kind \in {"limitation", "finding"}
           /\ o.kind = "finding" =>
                 \E a \in Matches(osnap, b.name, Effective(m, b)) \ (Withdrawn \cap osnap.records) :
                    o \in Finding(m, b, "vulnerability", Effective(m, b), Representative(osnap.records, a))
<1> DEFINE v == Effective(m, b)
           active == Matches(osnap, b.name, v) \ (Withdrawn \cap osnap.records)
<1>1. \/ o \in Limitation(m, b, "osv-resolved-version-missing", b.spec)
      \/ o \in Limitation(m, b, "osv-exact-version-missing", v)
      \/ o \in Limitation(m, b, "osv-query-incomplete", v)
      \/ \E a \in Matches(osnap, b.name, v) \cap Withdrawn \cap osnap.records :
            o = Output("limitation", m, b, Identity("osv-advisory-withdrawn", b.name, v, a))
      \/ \E a \in active : o \in Finding(m, b, "vulnerability", v, Representative(osnap.records, a))
  BY KnownVulnerabilityCases
<1> HIDE DEF v, active
<1>2. CASE \E a \in Matches(osnap, b.name, v) \cap Withdrawn \cap osnap.records :
            o = Output("limitation", m, b, Identity("osv-advisory-withdrawn", b.name, v, a))
  BY <1>2, OutputFields DEF OsvCode
<1>3. CASE \E a \in active : o \in Finding(m, b, "vulnerability", v, Representative(osnap.records, a))
  BY <1>3, FindingFields DEF OsvCode, active, v
<1> QED
  BY <1>1, <1>2, <1>3, LimitationFields DEF OsvCode

\* What the vulnerability rule emits was made for a declaration, or says that
\* there is no source.
LEMMA VulnerableOutputs ==
    ASSUME NEW members, NEW osnap, NEW o \in Vulnerable(members, osnap)
    PROVE  \/ o.id.code = "osv-source-unavailable" /\ o.kind = "limitation"
           \/ \E m \in members : \E b \in DependencyFactBases(m) : o \in KnownVulnerability(m, b, osnap)
<1> DEFINE all == UNION {KnownVulnerability(s.member, s.basis, osnap) : s \in ScopedBases(members)}
<1>1. OnePerFinding(all) \subseteq all
  BY MergedOutputs DEF OnePerFinding
<1>2. \A x \in all : \E m \in members : \E b \in DependencyFactBases(m) :
         x \in KnownVulnerability(m, b, osnap)
  BY DEF ScopedBases
<1>3. o \in OnePerFinding(all) \/ \E m \in members : o \in OsvUnavailable(m, osnap)
  BY DEF Vulnerable
<1>4. ASSUME NEW m \in members, o \in OsvUnavailable(m, osnap)
      PROVE  o.id.code = "osv-source-unavailable" /\ o.kind = "limitation"
  BY <1>4, LimitationFields DEF OsvUnavailable
<1> HIDE DEF all
<1> QED
  BY <1>1, <1>2, <1>3, <1>4

LEMMA VulnerableCodes ==
    ASSUME NEW members, NEW osnap, NEW o \in Vulnerable(members, osnap)
    PROVE  o.id.code \in OsvCode
  BY VulnerableOutputs, KnownVulnerabilityIs DEF OsvCode

LEMMA NpmRuleCodes ==
    ASSUME NEW members, NEW registry,
           NEW o \in Deprecated(members, registry) \cup Outdated(members, registry)
                        \cup Migrations(members, registry) \cup Health(members, registry)
    PROVE  o.id.code \in NpmCode
<1> DEFINE all == UNION {MigrationOpportunity(s.member, s.basis, registry) : s \in ScopedBases(members)}
<1>1. \/ \E s \in ScopedBases(members) :
            \/ o \in DeprecatedDependency(s.member, s.basis, registry)
            \/ o \in OutdatedDependency(s.member, s.basis, registry)
            \/ o \in NpmRegistryHealth(s.member, s.basis.name, registry)
      \/ o \in Merged(all)
  BY DEF Deprecated, Outdated, Migrations, Health
<1>2. Merged(all) \subseteq all
  BY MergedOutputs
<1>3. o \in Merged(all) => \E s \in ScopedBases(members) :
         o \in MigrationOpportunity(s.member, s.basis, registry)
  BY <1>2
<1> HIDE DEF all
<1> QED
  BY <1>1, <1>3, NpmCodes

-----------------------------------------------------------------------------
(* The checks of a report. *)

LEMMA InspectionCheckFields ==
    ASSUME NEW m, NEW category, NEW of, NEW state,
           NEW c, c = InspectionCheck(m, category, of, state)
    PROVE  c.at = m.path /\ c.category = category /\ c.of = of /\ c.state = state
  BY DEF InspectionCheck

LEMMA DependencyCheckFields ==
    ASSUME NEW m, NEW category, NEW of, NEW state, NEW severity, NEW d,
           NEW c, c = DependencyCheck(m, category, of, d, state, severity)
    PROVE  /\ c.at = m.path /\ c.category = category /\ c.of = of /\ c.state = state
           /\ c.severity = severity
  BY DEF DependencyCheck

LEMMA AllChecks ==
    ASSUME NEW s, NEW members, NEW registry, NEW o, NEW c
    PROVE  c \in InspectionChecks(s, members, registry, o) <=>
              \/ \E m \in members : c \in DependencyChecks(m, registry, o)
              \/ \E m \in members : c \in MemberChecks(s, members, m)
              \/ c \in RootChecks(s, members, WorkspaceIssues(s))
  BY DEF InspectionChecks

CheckState == {"pass", "fail", "unknown", "not_applicable"}

SetupCategory == {"maintainability", "testing", "tooling"}

LEMMA TraceStates ==
    ASSUME NEW members, NEW m, NEW purpose
    PROVE  TraceScripts(members, m, purpose).state \in {"pass", "fail", "unknown"}
<1> DEFINE start   == {<<m.path, s.name>> : s \in SelectedScripts(m, purpose)}
           visited == Visited(members, start)
           found   == Executions(members, visited)
           state   == IF \/ CycleOrBound(members, start)
                         \/ \E x \in visited : ScriptUnresolved(members, x)
                      THEN "unknown"
                      ELSE IF \E e \in found : Purpose(e.tool) = purpose THEN "pass" ELSE "fail"
<1>1. TraceScripts(members, m, purpose) = [executions |-> found, state |-> state]
  BY DEF TraceScripts
<1>2. state \in {"pass", "fail", "unknown"}
  OBVIOUS
<1> HIDE DEF found, state
<1> QED
  BY <1>1, <1>2

LEMMA MemberCheckStates ==
    ASSUME NEW s, NEW members, NEW m, NEW c \in MemberChecks(s, members, m)
    PROVE  /\ c.at = m.path /\ c.category \in {"maintainability", "testing"}
           /\ c.of \in {"lint", "typecheck", "test.execution", "test.files"}
           /\ c.state \in CheckState
<1>1. LintCheck(s, members, m) \in CheckState
  BY TraceStates DEF LintCheck, CheckState
<1>2. TypeCheck(s, members, m) \in CheckState
  BY TraceStates DEF TypeCheck, CheckState
<1>3. TestExecutionCheck(s, members, m) \in CheckState
  BY TraceStates DEF TestExecutionCheck, CheckState
<1>4. TestFilesCheck(s, members, m) \in CheckState
  <2>1. \A executions : TestFileState(s, m, executions) \in CheckState
    BY DEF TestFileState, NodeTestState, CheckState
  <2> QED
    BY <2>1 DEF TestFilesCheck, CheckState
<1>5. \/ c = InspectionCheck(m, "maintainability", "lint", LintCheck(s, members, m))
      \/ c = InspectionCheck(m, "maintainability", "typecheck", TypeCheck(s, members, m))
      \/ c = InspectionCheck(m, "testing", "test.execution", TestExecutionCheck(s, members, m))
      \/ c = InspectionCheck(m, "testing", "test.files", TestFilesCheck(s, members, m))
  BY DEF MemberChecks
<1> QED
  BY <1>1, <1>2, <1>3, <1>4, <1>5, InspectionCheckFields

LEMMA RootCheckStates ==
    ASSUME NEW s, NEW members, NEW issues, NEW c \in RootChecks(s, members, issues)
    PROVE  /\ c.at = MemberAt(members, Root).path /\ c.state \in CheckState
           /\ c.of \in {"package-manager", "lockfile", "workspace.discovery", "workspace.resolution"}
           /\ c.category \in {"dependencies", "security"} => c.state = "unknown"
<1> DEFINE root == MemberAt(members, Root)
<1>1. PackageManagerCheck(s) \in CheckState
  BY DEF PackageManagerCheck, CheckState
<1>2. LockfileCheck(s, members, issues) \in CheckState
  BY DEF LockfileCheck, CheckState
<1>3. \/ c = InspectionCheck(root, "tooling", "package-manager", PackageManagerCheck(s))
      \/ c = InspectionCheck(root, "tooling", "lockfile", LockfileCheck(s, members, issues))
      \/ \E category, of : /\ of \in {"workspace.discovery", "workspace.resolution"}
                           /\ c = InspectionCheck(root, category, of, "unknown")
  BY DEF RootChecks
<1> HIDE DEF root
<1>4. CASE \E category, of : /\ of \in {"workspace.discovery", "workspace.resolution"}
                           /\ c = InspectionCheck(root, category, of, "unknown")
  <2>1. PICK category, of : /\ of \in {"workspace.discovery", "workspace.resolution"}
                            /\ c = InspectionCheck(root, category, of, "unknown")
    BY <1>4
  <2>2. c.at = root.path /\ c.of = of /\ c.state = "unknown"
    BY <2>1, InspectionCheckFields
  <2> QED
    BY <2>1, <2>2 DEF root, CheckState
<1>5. CASE \E of \in {"package-manager", "lockfile"}, state \in CheckState :
             c = InspectionCheck(root, "tooling", of, state)
  <2>1. PICK of \in {"package-manager", "lockfile"}, state \in CheckState :
             c = InspectionCheck(root, "tooling", of, state)
    BY <1>5
  <2>2. c.at = root.path /\ c.of = of /\ c.state = state /\ c.category = "tooling"
    BY <2>1, InspectionCheckFields
  <2> QED
    BY <2>1, <2>2 DEF root
<1> QED
  BY <1>1, <1>2, <1>3, <1>4, <1>5

\* Every check of a declaration is made, and a check of these categories is made
\* for a declaration, for none, or knows nothing.
LEMMA DeclarationChecks ==
    ASSUME NEW s, NEW members, NEW registry, NEW o,
           NEW checks, checks = InspectionChecks(s, members, registry, o)
    PROVE  /\ \A m \in members : \A d \in ExternalDeclarations(m) :
                 /\ DependencyCheck(m, "dependencies", "deprecation", d,
                                    DeprecationCheck(m, d, registry), "none") \in checks
                 /\ DependencyCheck(m, "security", "advisories", d, AdvisoryCheck(m, d, o),
                                    ObservedSeverity(m, d, o)) \in checks
           /\ \A c \in checks : c.category \in Ceiling =>
                 \/ c.state \in {"unknown", "not_applicable"}
                 \/ \E m \in members : \E d \in ExternalDeclarations(m) :
                       \/ c = DependencyCheck(m, "dependencies", "deprecation", d,
                                              DeprecationCheck(m, d, registry), "none")
                       \/ c = DependencyCheck(m, "security", "advisories", d, AdvisoryCheck(m, d, o),
                                              ObservedSeverity(m, d, o))
<1>1. ASSUME NEW m \in members, NEW d \in ExternalDeclarations(m)
      PROVE  /\ DependencyCheck(m, "dependencies", "deprecation", d,
                                DeprecationCheck(m, d, registry), "none") \in checks
             /\ DependencyCheck(m, "security", "advisories", d, AdvisoryCheck(m, d, o),
                                ObservedSeverity(m, d, o)) \in checks
  <2>1. \A c \in DependencyChecks(m, registry, o) : c \in checks
    BY AllChecks
  <2>2. ExternalDeclarations(m) # {}
    OBVIOUS
  <2> QED
    BY <2>1, <2>2 DEF DependencyChecks
<1>2. ASSUME NEW c \in checks, c.category \in Ceiling
      PROVE  \/ c.state \in {"unknown", "not_applicable"}
             \/ \E m \in members : \E d \in ExternalDeclarations(m) :
                   \/ c = DependencyCheck(m, "dependencies", "deprecation", d,
                                          DeprecationCheck(m, d, registry), "none")
                   \/ c = DependencyCheck(m, "security", "advisories", d, AdvisoryCheck(m, d, o),
                                          ObservedSeverity(m, d, o))
  <2>1. \/ \E m \in members : c \in DependencyChecks(m, registry, o)
        \/ \E m \in members : c \in MemberChecks(s, members, m)
        \/ c \in RootChecks(s, members, WorkspaceIssues(s))
    BY AllChecks
  <2>2. CASE \E m \in members : c \in MemberChecks(s, members, m)
    BY <1>2, <2>2, MemberCheckStates DEF Ceiling
  <2>3. CASE c \in RootChecks(s, members, WorkspaceIssues(s))
    BY <1>2, <2>3, RootCheckStates DEF Ceiling
  <2>4. CASE \E m \in members : c \in DependencyChecks(m, registry, o)
    <3>1. PICK m \in members : c \in DependencyChecks(m, registry, o)
      BY <2>4
    <3>2. CASE ExternalDeclarations(m) = {}
      <4>1. \E category : c = InspectionCheck(m, category, "external-dependencies", "not_applicable")
        BY <3>1, <3>2 DEF DependencyChecks
      <4> QED
        BY <4>1, InspectionCheckFields
    <3>3. CASE ExternalDeclarations(m) # {}
      BY <3>1, <3>3 DEF DependencyChecks
    <3> QED
      BY <3>2, <3>3
  <2> QED
    BY <2>1, <2>2, <2>3, <2>4
<1> QED
  BY <1>1, <1>2

\* A check of the setup belongs to a member, and its name is none of a rule's.
LEMMA SetupChecks ==
    ASSUME NEW s, NEW members, NEW registry, NEW o, MemberAt(members, Root) \in members,
           NEW c \in InspectionChecks(s, members, registry, o), c.category \in SetupCategory
    PROVE  /\ \E m \in members : c.at = m.path
           /\ c.state \in CheckState
           /\ c.of \in {"lint", "typecheck", "test.execution", "test.files", "package-manager",
                        "lockfile", "workspace.discovery", "workspace.resolution"}
<1>1. \/ \E m \in members : c \in DependencyChecks(m, registry, o)
      \/ \E m \in members : c \in MemberChecks(s, members, m)
      \/ c \in RootChecks(s, members, WorkspaceIssues(s))
  BY AllChecks
<1>2. \A m \in members : c \notin DependencyChecks(m, registry, o)
  <2> SUFFICES ASSUME NEW m \in members, c \in DependencyChecks(m, registry, o) PROVE FALSE
    OBVIOUS
  <2>1. c.category \in {"dependencies", "security"}
    <3>1. CASE ExternalDeclarations(m) = {}
      <4>1. \E category \in {"dependencies", "security"} :
               c = InspectionCheck(m, category, "external-dependencies", "not_applicable")
        BY <3>1 DEF DependencyChecks
      <4> QED
        BY <4>1, InspectionCheckFields
    <3>2. CASE ExternalDeclarations(m) # {}
      <4>1. \E category \in {"dependencies", "security"} : \E of, d, state, severity :
               c = DependencyCheck(m, category, of, d, state, severity)
        BY <3>2 DEF DependencyChecks
      <4> QED
        BY <4>1, DependencyCheckFields
    <3> QED
      BY <3>1, <3>2
  <2> QED
    BY <2>1 DEF SetupCategory
<1>3. CASE \E m \in members : c \in MemberChecks(s, members, m)
  BY <1>3, MemberCheckStates
<1>4. CASE c \in RootChecks(s, members, WorkspaceIssues(s))
  BY <1>4, RootCheckStates
<1> QED
  BY <1>1, <1>2, <1>3, <1>4

LEMMA SetupFindingsAre ==
    ASSUME NEW s, NEW members, NEW registry, NEW o, MemberAt(members, Root) \in members,
           NEW mm \in members, NEW x \in SetupFindings(InspectionChecks(s, members, registry, o), mm)
    PROVE  /\ x.id.code \in {"lint", "typecheck", "test.execution", "test.files", "package-manager",
                             "lockfile", "workspace.discovery", "workspace.resolution"}
           /\ x = [kind |-> "finding", at |-> x.at, basis |-> NameBasis(NoName), id |-> x.id]
<1>1. PICK c \in InspectionChecks(s, members, registry, o) :
        /\ c.category \in SetupCategory
        /\ x \in Finding(mm, NameBasis(NoName), c.of, NoVersion, NoAdvisory)
  BY DEF SetupFindings, SetupCategory
<1>2. x.id.code = c.of
  BY <1>1, FindingFields
<1>3. x = [kind |-> "finding", at |-> x.at, basis |-> NameBasis(NoName), id |-> x.id]
  BY <1>1 DEF Finding, Output
<1> QED
  BY <1>1, <1>2, <1>3, SetupChecks

LEMMA OverlapCode ==
    ASSUME NEW s, NEW m, NEW x \in DependencyOverlap(s, m)
    PROVE  x.id.code = "overlap"
  BY FindingFields DEF DependencyOverlap

\* Which rule an output comes from.
LEMMA CodesTellRules ==
    ASSUME NEW s, NEW members, NEW registry, NEW o, MemberAt(members, Root) \in members,
           NEW checks, checks = InspectionChecks(s, members, registry, o), s.known = TRUE,
           NEW rules, rules = AllOutputs(s, members, registry, o, checks)
    PROVE  \A r \in DOMAIN rules : \A x \in rules[r] :
              /\ x.id.code = "unnecessary" =>
                    \E m \in members : x \in PotentiallyUnnecessary(s, members, m)
              /\ x.id.code = "vulnerability" => x \in Vulnerable(members, o)
<1>1. DOMAIN rules = {"deprecated", "outdated", "migration", "vulnerable", "health",
                      "unnecessary", "overlap", "setup"}
  BY Rules
<1>2. rules["deprecated"] = Deprecated(members, registry)
  BY Rules
<1>3. rules["outdated"] = Outdated(members, registry)
  BY Rules
<1>4. rules["migration"] = Migrations(members, registry)
  BY Rules
<1>5. rules["vulnerable"] = Vulnerable(members, o)
  BY Rules
<1>6. rules["health"] = Health(members, registry)
  BY Rules
<1>7. rules["unnecessary"] = AllUnnecessary(s, members)
  BY RulesOfMembers
<1>8. rules["overlap"] = AllOverlaps(s, members)
  BY RulesOfMembers
<1>9. rules["setup"] = AllSetup(members, checks)
  BY RulesOfMembers
<1> SUFFICES ASSUME NEW r \in DOMAIN rules, NEW x \in rules[r]
             PROVE  /\ x.id.code = "unnecessary" =>
                          \E m \in members : x \in PotentiallyUnnecessary(s, members, m)
                    /\ x.id.code = "vulnerability" => x \in Vulnerable(members, o)
  OBVIOUS
<1>10. CASE r \in {"deprecated", "outdated", "migration", "health"}
  <2>1. x \in Deprecated(members, registry) \cup Outdated(members, registry)
                \cup Migrations(members, registry) \cup Health(members, registry)
    BY <1>2, <1>3, <1>4, <1>6, <1>10
  <2>2. x.id.code \in NpmCode
    BY <2>1, NpmRuleCodes
  <2> QED
    BY <2>2 DEF NpmCode
<1>11. CASE r = "vulnerable"
  <2>1. x \in Vulnerable(members, o)
    BY <1>5, <1>11
  <2>2. x.id.code \in OsvCode
    BY <2>1, VulnerableCodes
  <2> QED
    BY <2>1, <2>2 DEF OsvCode
<1>12. CASE r = "overlap"
  <2>1. \E m \in members : x \in DependencyOverlap(s, m)
    BY <1>8, <1>12 DEF AllOverlaps
  <2> QED
    BY <2>1, OverlapCode
<1>13. CASE r = "setup"
  <2>1. \E m \in members : x \in SetupFindings(checks, m)
    BY <1>9, <1>13 DEF AllSetup
  <2> QED
    BY <2>1, SetupFindingsAre
<1>14. CASE r = "unnecessary"
  <2>1. \E m \in members : x \in PotentiallyUnnecessary(s, members, m)
    BY <1>7, <1>14 DEF AllUnnecessary
  <2>2. x.id.code = "unnecessary"
    BY <2>1, FindingFields DEF PotentiallyUnnecessary
  <2> QED
    BY <2>1, <2>2
<1> QED
  BY <1>1, <1>10, <1>11, <1>12, <1>13, <1>14

LEMMA CodesOfAManifest ==
    ASSUME NEW s, NEW members, NEW registry, NEW o, NEW checks, s.known = FALSE,
           NEW rules, rules = AllOutputs(s, members, registry, o, checks),
           NEW r \in DOMAIN rules, NEW x \in rules[r]
    PROVE  x.id.code = "overlap"
<1>1. rules = [overlap |-> UNION {DependencyOverlap(s, m) : m \in members}]
  BY RulesAlone
<1>2. \E m \in members : x \in DependencyOverlap(s, m)
  BY <1>1
<1> QED
  BY <1>2, OverlapCode

-----------------------------------------------------------------------------
(* Unused dependencies. *)

\* Whatever an acquisition did not bring back is an issue of every member.
LEMMA IssuesOfIncomplete ==
    ASSUME NEW s, NEW members, NEW m, SharedIssues(s, members, m) = {}
    PROVE  s.complete
<1> SUFFICES ASSUME ~s.complete PROVE FALSE
  OBVIOUS
<1>1. "acquisition" \in UsageIssues(s, m)
  BY DEF UsageIssues
<1>2. CASE m.role = "orchestrator"
  BY <1>1, <1>2 DEF SharedIssues
<1>3. CASE m.role # "orchestrator"
  BY <1>1, <1>3 DEF SharedIssues
<1> QED
  BY <1>2, <1>3

\* A member of one snapshot, seen in another with the same packages.
LEMMA SameMember ==
    ASSUME NEW s, NEW t, Manifests(s) = Manifests(t), NEW p,
           NEW x, x = Member(t, p), NEW y, y = Member(s, p)
    PROVE  /\ x.path = y.path /\ x.role = y.role /\ x.uses = y.uses
           /\ References(x) = References(y) /\ TrueUses(x) = TrueUses(y)
           /\ DeclaredNames(x) = DeclaredNames(y)
<1>1. /\ x.path = y.path /\ x.role = y.role /\ x.uses = y.uses /\ x.scripts = y.scripts
  BY MemberFields DEF Role
<1>2. DeclaredNames(x) = DeclaredNames(y)
  BY DeclaredNamesOf
<1>3. ScriptUses(x) = ScriptUses(y)
  BY <1>1 DEF ScriptUses, CommandsIn
<1> QED
  BY <1>1, <1>2, <1>3 DEF References, TrueUses

LEMMA UnnecessaryIs ==
    ASSUME NEW s, NEW members, NEW m, NEW f \in PotentiallyUnnecessary(s, members, m)
    PROVE  /\ SharedIssues(s, members, m) = {}
           /\ f.at = m.path
           /\ f.basis.name \in DeclaredNames(m) \ UsedPackages(members, m)
<1>1. SharedIssues(s, members, m) = {}
  BY DEF PotentiallyUnnecessary
<1>2. PICK n \in InstalledNames(m) \ UsedPackages(members, m) :
        f \in Finding(m, NameBasis(n), "unnecessary", NoVersion, NoAdvisory)
  BY DEF PotentiallyUnnecessary
<1>3. f.at = m.path /\ f.basis = NameBasis(n)
  BY <1>2, FindingFields
<1>4. f.basis.name = n
  BY <1>3 DEF NameBasis
<1>5. n \in DeclaredNames(m)
  BY <1>2 DEF InstalledNames, DeclaredNames, ExternalDeclarations
<1> QED
  BY <1>1, <1>2, <1>3, <1>4, <1>5

LEMMA UnseenIsAnIssue ==
    ASSUME NEW s, NEW m, NEW n, n \in TrueUses(m), n \notin References(m)
    PROVE  "unseen_reference" \in UsageIssues(s, m)
  BY DEF TrueUses, References, UsageIssues

LEMMA UnseenIsShared ==
    ASSUME NEW s, NEW members, NEW m, NEW x \in members, SharedIssues(s, members, m) = {},
           "unseen_reference" \in UsageIssues(s, x)
    PROVE  m.role # "orchestrator" /\ m # x
<1>1. CASE m.role = "orchestrator"
  <2>1. CASE x = m
    BY <1>1, <2>1 DEF SharedIssues
  <2>2. CASE x # m
    BY <1>1, <2>2 DEF SharedIssues
  <2> QED
    BY <2>1, <2>2
<1>2. CASE m.role # "orchestrator"
  BY <1>2 DEF SharedIssues
<1> QED
  BY <1>1, <1>2

\* The rule on one snapshot against what is true in another with the same packages.
LEMMA UnusedIn ==
    ASSUME NEW s, NEW t, OnePerPath(s), OnePerPath(t), Manifests(s) = Manifests(t),
           NEW mm \in Members(s), NEW f \in PotentiallyUnnecessary(s, Members(s), mm),
           NEW owner, owner = MemberAt(Members(t), f.at),
           NEW x \in Members(t), owner \in Ancestors(Members(t), x),
           x = owner \/ f.basis.name \notin DeclaredNames(x), f.basis.name \in TrueUses(x)
    PROVE  owner.role = "package" /\ x # owner /\ f.basis.name \notin References(x)
<1> DEFINE n == f.basis.name
<1>1. PICK p \in Manifests(s) : mm = Member(s, p)
  BY DEF Members
<1>2. PICK q \in Manifests(t) : x = Member(t, q)
  BY DEF Members
<1>3. PICK y : y = Member(s, q)
  OBVIOUS
<1>4. /\ SharedIssues(s, Members(s), mm) = {} /\ f.at = mm.path
      /\ n \in DeclaredNames(mm) \ UsedPackages(Members(s), mm)
  BY UnnecessaryIs
<1>5. mm.path = p.path
  BY <1>1, MemberFields
<1>6. owner = Member(t, p)
  BY <1>4, <1>5, MembersOnce
<1>7. /\ owner.path = mm.path /\ owner.role = mm.role
  BY <1>1, <1>6, SameMember
<1>8. /\ x.path = y.path /\ References(x) = References(y) /\ TrueUses(x) = TrueUses(y)
      /\ DeclaredNames(x) = DeclaredNames(y)
  BY <1>2, <1>3, SameMember
<1>9. y \in Members(s)
  BY <1>2, <1>3 DEF Members
<1>10. x = owner <=> y = mm
  <2>1. x = owner => p = q
    BY <1>2, <1>6, MembersOnce
  <2>2. y = mm => p = q
    BY <1>1, <1>2, <1>3, MembersOnce
  <2> QED
    BY <1>1, <1>2, <1>3, <1>6, <2>1, <2>2
<1> HIDE DEF n
<1>11. mm \in Ancestors(Members(s), y)
  BY <1>7, <1>8 DEF Ancestors
<1>12. n \notin References(y)
  <2>1. mm = y \/ n \notin DeclaredNames(y)
    BY <1>8, <1>10 DEF n
  <2>2. n \in DeclaredNames(mm) /\ n \notin UsedPackages(Members(s), mm)
    BY <1>4
  <2> QED
    BY <1>9, <1>11, <2>1, <2>2 DEF UsedPackages
<1>13. n \in TrueUses(y)
  BY <1>8 DEF n
<1>14. mm.role # "orchestrator" /\ mm # y
  BY <1>4, <1>9, <1>12, <1>13, UnseenIsAnIssue, UnseenIsShared
<1>15. mm.role \in {"orchestrator", "package"}
  BY <1>1, MemberFields DEF Role
<1> QED
  BY <1>7, <1>8, <1>10, <1>12, <1>14, <1>15 DEF n

\* A pasted manifest is a snapshot of one manifest.
LEMMA ManifestFields ==
    ASSUME NEW w \in World, NEW s, s = ManifestOnly(w.repository),
           NEW r, r = RootManifest(w.repository)
    PROVE  /\ s.manager = w.repository.manager /\ s.pin = w.repository.pin
           /\ s.locks = {} /\ s.patterns = "none" /\ s.complete = FALSE /\ s.known = FALSE
           /\ s.discovered = w.repository.discovered
           /\ s.manifests = {[r EXCEPT !.files = {}, !.uses = {}]}
<1> DEFINE manifests == {[r EXCEPT !.files = {}, !.uses = {}]}
<1>1. PICK t : t = w.repository
  OBVIOUS
<1>2. s = [t EXCEPT !.locks = {}, !.patterns = "none", !.manifests = manifests,
                    !.complete = FALSE, !.known = FALSE]
  BY <1>1 DEF ManifestOnly
<1>3. t = [manager |-> t.manager, pin |-> t.pin, locks |-> t.locks, manifests |-> t.manifests,
           patterns |-> t.patterns, complete |-> t.complete, discovered |-> t.discovered,
           known |-> t.known]
  BY <1>1, WorldAssumption DEF IsSnapshot
<1> HIDE DEF manifests
<1>4. s = [manager |-> t.manager, pin |-> t.pin, locks |-> {}, manifests |-> manifests,
           patterns |-> "none", complete |-> FALSE, discovered |-> t.discovered,
           known |-> FALSE]
  BY <1>2, <1>3
<1>5. /\ s.manager = t.manager /\ s.pin = t.pin /\ s.locks = {} /\ s.patterns = "none"
      /\ s.complete = FALSE /\ s.known = FALSE /\ s.discovered = t.discovered
      /\ s.manifests = manifests
  BY <1>4
<1> QED
  BY <1>1, <1>5 DEF manifests

\* The project of a report.
LEMMA ReportedProject ==
    ASSUME FlowInv, at = "report"
    PROVE  /\ world \in World
           /\ world.kind = "repository" =>
                 project = Acquired(world.repository, world.lost) /\ Truth = world.repository
           /\ world.kind # "repository" =>
                 /\ project = ManifestOnly(world.repository) /\ Truth = project
                 /\ npm.answers = <<>> /\ osv = OsvIdle
  BY DEF FlowInv, Collecting, Truth

\* A dependency is called unnecessary only when all that refers to it was seen:
\* a use the parser cannot see, in any member below, stops the rule.
THEOREM UnusedIsNeverUsed == Spec => []UnusedIsUnused
<1>1. CollectedInv => UnusedIsUnused
  <2> SUFFICES ASSUME CollectedInv, at = "report",
                      NEW f \in Report.outputs, f.id.code = "unnecessary",
                      NEW owner, owner = MemberAt(Members(Truth), f.at),
                      NEW x \in Members(Truth), owner \in Ancestors(Members(Truth), x),
                      x = owner \/ f.basis.name \notin DeclaredNames(x),
                      f.basis.name \in TrueUses(x)
               PROVE  owner.role = "package" /\ x # owner /\ f.basis.name \notin References(x)
    BY DEF UnusedIsUnused
  <2>1. /\ world \in World
        /\ world.kind = "repository" =>
              project = Acquired(world.repository, world.lost) /\ Truth = world.repository
        /\ world.kind # "repository" => project = ManifestOnly(world.repository)
    BY ReportedProject DEF CollectedInv
  <2>2. PICK r \in DOMAIN ReportRules : f \in ReportRules[r]
    BY ReportFields DEF Accepted
  <2>3. world.kind = "repository"
    <3> SUFFICES ASSUME world.kind # "repository" PROVE FALSE
      OBVIOUS
    <3>1. project.known = FALSE
      BY <2>1, ManifestFields
    <3>2. f.id.code = "overlap"
      BY <2>2, <3>1, CodesOfAManifest DEF ReportRules
    <3> QED
      BY <3>2
  <2>4. project.known = TRUE /\ OnePerPath(project) /\ OnePerPath(Truth)
    BY <2>1, <2>3, AcquiredFields, AcquiredOnce, RepositoryOnce
  <2>5. PICK mm \in Members(project) : f \in PotentiallyUnnecessary(project, Members(project), mm)
    BY <2>2, <2>4, CodesTellRules, MembersOnce DEF ReportRules, ReportChecks
  <2>6. project.complete
    BY <2>5, UnnecessaryIs, IssuesOfIncomplete
  <2>7. Manifests(project) = Manifests(Truth)
    BY <2>1, <2>3, <2>6, CompleteManifests
  <2> QED
    BY <2>4, <2>5, <2>7, UnusedIn
<1> QED
  BY <1>1, AlwaysCollected, PTL

-----------------------------------------------------------------------------
(* Alias groups (AdvisoryAliasGroup, Representative). *)

LEMMA NamesAreAdvisories ==
    ASSUME NEW r \in Advisory PROVE Names(r) \subseteq Advisory /\ r \in Names(r)
  BY AdvisoryAssumption DEF Names

LEMMA IdentifiersHave ==
    ASSUME NEW records, NEW a \in Advisory
    PROVE  a \in Identifiers(records, a) /\ Identifiers(records, a) \subseteq Advisory
  BY DEF Identifiers

LEMMA IdentifiersClosed ==
    ASSUME NEW records, records \subseteq Advisory, NEW a
    PROVE  ClosedUnder(records, Identifiers(records, a))
<1> SUFFICES ASSUME NEW r \in records, NEW x \in Names(r), x \in Identifiers(records, a),
                    NEW y \in Names(r)
             PROVE  y \in Identifiers(records, a)
  BY DEF ClosedUnder
<1>1. y \in Advisory
  BY NamesAreAdvisories
<1>2. \A S \in SUBSET Advisory : a \in S /\ ClosedUnder(records, S) => y \in S
  BY DEF Identifiers, ClosedUnder
<1> QED
  BY <1>1, <1>2 DEF Identifiers

LEMMA IdentifiersLeast ==
    ASSUME NEW records, NEW a, NEW S \in SUBSET Advisory, a \in S, ClosedUnder(records, S)
    PROVE  Identifiers(records, a) \subseteq S
  BY DEF Identifiers

LEMMA SameIdentifiers ==
    ASSUME NEW records, records \subseteq Advisory, NEW a \in Advisory,
           NEW b \in Identifiers(records, a)
    PROVE  Identifiers(records, b) = Identifiers(records, a)
<1> DEFINE A == Identifiers(records, a)
           B == Identifiers(records, b)
<1>1. /\ A \subseteq Advisory /\ a \in A /\ b \in Advisory
      /\ ClosedUnder(records, A)
  BY IdentifiersHave, IdentifiersClosed
<1>2. /\ B \subseteq Advisory /\ b \in B /\ ClosedUnder(records, B)
  BY <1>1, IdentifiersHave, IdentifiersClosed
<1>3. B \subseteq A
  BY <1>1, IdentifiersLeast
<1>4. a \in B
  <2> SUFFICES ASSUME a \notin B PROVE FALSE
    OBVIOUS
  <2>1. ClosedUnder(records, A \ B)
    <3> SUFFICES ASSUME NEW r \in records, Names(r) \cap (A \ B) # {}
                 PROVE  Names(r) \subseteq A \ B
      BY DEF ClosedUnder
    <3> HIDE DEF A, B
    <3>1. Names(r) \subseteq A
      BY <1>1 DEF ClosedUnder
    <3>2. Names(r) \cap B = {}
      BY <1>2 DEF ClosedUnder
    <3> QED
      BY <3>1, <3>2
  <2>2. A \subseteq A \ B
    BY <1>1, <2>1, IdentifiersLeast
  <2> QED
    BY <1>2, <2>2
<1>5. A \subseteq B
  BY <1>2, <1>4, IdentifiersLeast
<1> QED
  BY <1>3, <1>5

\* More records link more.
LEMMA IdentifiersGrow ==
    ASSUME NEW records, NEW more, records \subseteq more, NEW a
    PROVE  Identifiers(records, a) \subseteq Identifiers(more, a)
<1>1. \A S : ClosedUnder(more, S) => ClosedUnder(records, S)
  BY DEF ClosedUnder
<1> QED
  BY <1>1 DEF Identifiers

LEMMA GroupsGrow ==
    ASSUME NEW records, NEW more, records \subseteq more, NEW a
    PROVE  AdvisoryAliasGroup(records, a) \subseteq AdvisoryAliasGroup(more, a)
  BY IdentifiersGrow DEF AdvisoryAliasGroup

LEMMA RepresentativeIn ==
    ASSUME NEW records, records \subseteq Advisory, NEW a
    PROVE  \/ AdvisoryAliasGroup(records, a) = {} /\ Representative(records, a) = a
           \/ Representative(records, a) \in AdvisoryAliasGroup(records, a)
<1>1. AdvisoryAliasGroup(records, a) \subseteq Nat
  BY AdvisoryAssumption DEF AdvisoryAliasGroup
<1> QED
  BY <1>1, LeastNat DEF Representative

\* An advisory and the one it is reported under have one severity.
LEMMA SameSeverity ==
    ASSUME NEW records, records \subseteq Advisory, NEW a \in Advisory
    PROVE  AdvisorySeverity(records, Representative(records, a)) = AdvisorySeverity(records, a)
<1> DEFINE b == Representative(records, a)
<1>1. CASE b \in AdvisoryAliasGroup(records, a)
  <2>1. b \in records /\ Names(b) \cap Identifiers(records, a) # {}
    BY <1>1 DEF AdvisoryAliasGroup
  <2> HIDE DEF b
  <2>2. b \in Identifiers(records, a)
    BY <2>1, IdentifiersClosed, NamesAreAdvisories DEF ClosedUnder
  <2>3. Identifiers(records, b) = Identifiers(records, a)
    BY <2>2, SameIdentifiers
  <2>4. AdvisoryAliasGroup(records, b) = AdvisoryAliasGroup(records, a)
    BY <2>3 DEF AdvisoryAliasGroup
  <2> QED
    BY <2>4 DEF AdvisorySeverity, b
<1>2. CASE b = a
  BY <1>2
<1> QED
  BY <1>1, <1>2, RepresentativeIn

LEMMA Severities ==
    ASSUME NEW records, NEW a
    PROVE  AdvisorySeverity(records, a) \in {"unknown", "none", "low", "medium", "high", "critical"}
  BY DEF AdvisorySeverity

-----------------------------------------------------------------------------
(* The worst rating of a dependency (ObservedSeverity). *)

Scale == <<"none", "low", "medium", "high", "critical">>

LEMMA ScaleIs ==
    /\ Scale[1] = "none" /\ Scale[2] = "low" /\ Scale[3] = "medium"
    /\ Scale[4] = "high" /\ Scale[5] = "critical" /\ DOMAIN Scale = 1 .. 5
  BY DEF Scale

LEMMA GreatestIndex ==
    ASSUME NEW S, S \subseteq 1 .. 5, S # {}, NEW k, k = (CHOOSE i \in S : \A j \in S : j =< i)
    PROVE  k \in S /\ \A j \in S : j =< k
<1>1. \E m \in S : \A x \in S : x =< m
  <2>1. CASE 5 \in S
    BY <2>1
  <2>2. CASE 5 \notin S /\ 4 \in S
    BY <2>2
  <2>3. CASE 5 \notin S /\ 4 \notin S /\ 3 \in S
    BY <2>3
  <2>4. CASE 5 \notin S /\ 4 \notin S /\ 3 \notin S /\ 2 \in S
    BY <2>4
  <2>5. CASE 5 \notin S /\ 4 \notin S /\ 3 \notin S /\ 2 \notin S
    <3>1. \A x \in S : x = 1
      BY <2>5
    <3>2. PICK m \in S : TRUE
      OBVIOUS
    <3> QED
      BY <3>1, <3>2
  <2> QED
    BY <2>1, <2>2, <2>3, <2>4, <2>5
<1> QED
  BY <1>1

\* The advisories the rating is taken over.
Active(m, d, o) == (Matches(o, d.name, Effective(m, d)) \cap o.records) \ Withdrawn

LEMMA ObservedIs ==
    ASSUME NEW m, NEW d, NEW o, NEW severity, severity = ObservedSeverity(m, d, o)
    PROVE  /\ severity \in Severity
           /\ severity # "none" =>
                 \E a \in Active(m, d, o) : AdvisorySeverity(o.records, a) = severity
           /\ \A a \in Active(m, d, o) : AdvisorySeverity(o.records, a) # "unknown" =>
                 Band(severity) =< Band(AdvisorySeverity(o.records, a))
<1> DEFINE active  == Active(m, d, o)
           ratings == {i \in DOMAIN Scale :
                          i = 1 \/ \E a \in active : AdvisorySeverity(o.records, a) = Scale[i]}
<1>1. PICK k : k = (CHOOSE i \in ratings : \A j \in ratings : j =< i)
  OBVIOUS
<1>2. severity = Scale[k]
  BY <1>1 DEF ObservedSeverity, Scale, Active
<1>3. ratings \subseteq 1 .. 5 /\ 1 \in ratings
  BY ScaleIs
<1>4. \A i \in ratings : i = 1 \/ \E a \in active : AdvisorySeverity(o.records, a) = Scale[i]
  OBVIOUS
<1>5. \A i \in 1 .. 5 : \A a \in active : AdvisorySeverity(o.records, a) = Scale[i] => i \in ratings
  BY ScaleIs
<1> HIDE DEF ratings, active
<1>6. k \in ratings /\ \A j \in ratings : j =< k
  BY <1>1, <1>3, GreatestIndex
<1>7. k \in 1 .. 5
  BY <1>3, <1>6
<1>8. severity \in Severity
  BY <1>2, <1>7, ScaleIs DEF Severity
<1>9. severity # "none" => \E a \in active : AdvisorySeverity(o.records, a) = severity
  BY <1>2, <1>4, <1>6, ScaleIs
<1>10. ASSUME NEW a \in active, AdvisorySeverity(o.records, a) # "unknown"
       PROVE  Band(severity) =< Band(AdvisorySeverity(o.records, a))
  <2>1. PICK j \in 1 .. 5 : AdvisorySeverity(o.records, a) = Scale[j]
    <3>1. AdvisorySeverity(o.records, a) \in {"none", "low", "medium", "high", "critical"}
      BY <1>10, Severities
    <3> QED
      BY <3>1, ScaleIs
  <2>2. j =< k
    BY <1>5, <1>6, <2>1
  <2>3. \A i, l \in 1 .. 5 : l =< i => Band(Scale[i]) =< Band(Scale[l])
    BY ScaleIs DEF Band
  <2> QED
    BY <1>2, <1>7, <2>1, <2>2, <2>3
<1> QED
  BY <1>8, <1>9, <1>10 DEF active

-----------------------------------------------------------------------------
(* What the report knows of OSV. *)

\* A snapshot of OSV: details are of advisories, queries of exact versions.
SoundOsv(o) ==
    /\ o.records \subseteq Advisory
    /\ \A q \in o.queries : o.known = TRUE /\ q.version # NoVersion /\ q.matches \subseteq Advisory

LEMMA OsvFields ==
    ASSUME NEW o, o = OsvSnapshot
    PROVE  /\ osv.stage # "available" => o.known = FALSE /\ o.queries = {} /\ o.records = {}
           /\ osv.stage = "available" =>
                 /\ o.known = TRUE /\ o.records = osv.records
                 /\ o.queries = {[name |-> q.name, version |-> q.version, matches |-> osv.matches[q],
                                  complete |-> q \in osv.complete] : q \in DOMAIN osv.matches}
<1> DEFINE queries == {[name |-> q.name, version |-> q.version, matches |-> osv.matches[q],
                        complete |-> q \in osv.complete] : q \in DOMAIN osv.matches}
<1>1. o = IF osv.stage # "available" THEN [known |-> FALSE, queries |-> {}, records |-> {}]
          ELSE [known |-> TRUE, queries |-> queries, records |-> osv.records]
  BY DEF OsvSnapshot
<1> HIDE DEF queries
<1>2. osv.stage = "available" => o.known = TRUE /\ o.records = osv.records /\ o.queries = queries
  BY <1>1
<1>3. osv.stage # "available" => o.known = FALSE /\ o.queries = {} /\ o.records = {}
  BY <1>1
<1> QED
  BY <1>2, <1>3 DEF queries

LEMMA QueriesAre ==
    ASSUME NEW o, o = OsvSnapshot, NEW x \in o.queries
    PROVE  /\ osv.stage = "available" /\ o.known = TRUE
           /\ \E q \in DOMAIN osv.matches :
                 /\ x.name = q.name /\ x.version = q.version /\ x.matches = osv.matches[q]
                 /\ x.complete => q \in osv.complete
<1>1. osv.stage = "available"
  BY OsvFields
<1>2. /\ o.known = TRUE
      /\ o.queries = {[name |-> q.name, version |-> q.version, matches |-> osv.matches[q],
                        complete |-> q \in osv.complete] : q \in DOMAIN osv.matches}
  BY <1>1, OsvFields
<1>3. PICK q \in DOMAIN osv.matches :
        x = [name |-> q.name, version |-> q.version, matches |-> osv.matches[q],
             complete |-> q \in osv.complete]
  BY <1>2
<1>4. /\ x.name = q.name /\ x.version = q.version /\ x.matches = osv.matches[q]
      /\ x.complete => q \in osv.complete
  BY <1>3
<1> QED
  BY <1>1, <1>2, <1>4

LEMMA OsvIsSound ==
    ASSUME CollectedInv, at = "report", NEW o, o = OsvSnapshot PROVE SoundOsv(o)
<1>1. \A q \in DOMAIN osv.matches : q.version # NoVersion
  BY DEF CollectedInv, FlowInv, AskableQueries
<1>2. osv.stage = "available" => Typed(osv)
  BY DEF CollectedInv, OsvInv, OsvHolds, AllTold
<1>3. osv.stage = "available" => osv.records \subseteq Advisory
  BY <1>2 DEF Typed, Matched
<1>4. o.records \subseteq Advisory
  BY <1>3, OsvFields
<1>5. \A q \in o.queries : o.known = TRUE /\ q.version # NoVersion /\ q.matches \subseteq Advisory
  BY <1>1, <1>2, QueriesAre DEF Typed
<1> QED
  BY <1>4, <1>5 DEF SoundOsv

\* Where something matched, there is a query of a known version.
LEMMA MatchesTyped ==
    ASSUME NEW o, SoundOsv(o), NEW name, NEW version, NEW a \in Matches(o, name, version)
    PROVE  a \in Advisory /\ version # NoVersion /\ Queries(o, name, version) # {} /\ o.known = TRUE
<1>1. PICK q \in Queries(o, name, version) : a \in q.matches
  BY DEF Matches
<1>2. q \in o.queries /\ q.version = version
  BY <1>1 DEF Queries
<1> QED
  BY <1>1, <1>2 DEF SoundOsv

-----------------------------------------------------------------------------
(* The findings of the vulnerability rule. *)

Basis(d) == [name |-> d.name, spec |-> d.spec]

LEMMA BasisIs ==
    ASSUME NEW m, NEW d
    PROVE  Basis(d).name = d.name /\ Basis(d).spec = d.spec
           /\ Effective(m, Basis(d)) = Effective(m, d)
  BY DEF Basis, Effective

LEMMA BasesAre ==
    ASSUME NEW m
    PROVE  /\ \A d \in ExternalDeclarations(m) : Basis(d) \in DependencyFactBases(m)
           /\ \A b \in DependencyFactBases(m) : \E d \in ExternalDeclarations(m) : b = Basis(d)
  BY DEF DependencyFactBases, Basis

\* One output of each identity leaves the rule.
LEMMA VulnerableKeeps ==
    ASSUME NEW members, NEW o, NEW m \in members, NEW b \in DependencyFactBases(m),
           NEW x \in KnownVulnerability(m, b, o)
    PROVE  \E y \in Vulnerable(members, o) : y.id = x.id /\ y.at = x.at /\ y.kind = x.kind
<1> DEFINE all == UNION {KnownVulnerability(s.member, s.basis, o) : s \in ScopedBases(members)}
           findings == {y \in all : y.kind = "finding"}
<1>1. [member |-> m, basis |-> b] \in ScopedBases(members)
  BY DEF ScopedBases
<1>2. x \in all
  BY <1>1
<1>3. OnePerFinding(all) = {y \in all : y.kind = "limitation"} \cup Merged(findings)
  BY DEF OnePerFinding
<1>4. OnePerFinding(all) \subseteq Vulnerable(members, o)
  BY DEF Vulnerable
<1>5. x.kind \in {"limitation", "finding"}
  BY KnownVulnerabilityIs
<1> HIDE DEF all
<1>6. CASE x.kind = "limitation"
  BY <1>2, <1>3, <1>4, <1>6
<1>7. CASE x.kind = "finding"
  <2>1. x \in findings
    BY <1>2, <1>7
  <2>2. \A y \in findings : y.kind = "finding"
    OBVIOUS
  <2> HIDE DEF findings
  <2>3. PICK y \in Merged(findings) : y.id = x.id /\ y.at = x.at
    BY <2>1, MergedOutputs
  <2>4. y.kind = "finding"
    BY <2>2, MergedOutputs
  <2> QED
    BY <1>3, <1>4, <1>7, <2>3, <2>4
<1> QED
  BY <1>5, <1>6, <1>7

\* An active advisory of an asked version is found.
LEMMA FoundUnder ==
    ASSUME NEW m, NEW b, NEW o, SoundOsv(o),
           NEW a \in Matches(o, b.name, Effective(m, b)) \ (Withdrawn \cap o.records)
    PROVE  Finding(m, b, "vulnerability", Effective(m, b), Representative(o.records, a))
              \subseteq KnownVulnerability(m, b, o)
<1> DEFINE v == Effective(m, b)
<1>1. v # NoVersion /\ Queries(o, b.name, v) # {} /\ o.known = TRUE
  BY MatchesTyped
<1> QED
  BY <1>1 DEF KnownVulnerability

\* A finding of the rule is about an active advisory of a declaration.
LEMMA FoundFor ==
    ASSUME NEW members, NEW o, NEW x \in Vulnerable(members, o), x.id.code = "vulnerability"
    PROVE  /\ x.kind = "finding"
           /\ \E m \in members : \E d \in ExternalDeclarations(m) :
                 \E a \in Matches(o, d.name, Effective(m, d)) \ (Withdrawn \cap o.records) :
                    /\ x.at = m.path /\ x.basis = Basis(d)
                    /\ x.id = Identity("vulnerability", d.name, Effective(m, d),
                                       Representative(o.records, a))
                    /\ x.id.advisory = Representative(o.records, a)
<1>1. \E m \in members : \E b \in DependencyFactBases(m) : x \in KnownVulnerability(m, b, o)
  BY VulnerableOutputs
<1>2. PICK m \in members : \E b \in DependencyFactBases(m) : x \in KnownVulnerability(m, b, o)
  BY <1>1
<1>3. PICK b \in DependencyFactBases(m) : x \in KnownVulnerability(m, b, o)
  BY <1>2
<1>4. PICK d \in ExternalDeclarations(m) : b = Basis(d)
  BY BasesAre
<1>5. \/ x \in Limitation(m, b, "osv-resolved-version-missing", b.spec)
      \/ x \in Limitation(m, b, "osv-exact-version-missing", Effective(m, b))
      \/ x \in Limitation(m, b, "osv-query-incomplete", Effective(m, b))
      \/ \E a \in Matches(o, b.name, Effective(m, b)) \cap Withdrawn \cap o.records :
            x = Output("limitation", m, b, Identity("osv-advisory-withdrawn", b.name, Effective(m, b), a))
      \/ x.kind = "finding"
  BY <1>3, KnownVulnerabilityCases, FindingFields
<1>6. x.kind = "finding"
  BY <1>5, LimitationFields, OutputFields
<1>7. PICK a \in Matches(o, b.name, Effective(m, b)) \ (Withdrawn \cap o.records) :
        x \in Finding(m, b, "vulnerability", Effective(m, b), Representative(o.records, a))
  BY <1>3, <1>6, KnownVulnerabilityIs
<1>8. /\ x.at = m.path /\ x.basis = b
      /\ x.id = Identity("vulnerability", b.name, Effective(m, b), Representative(o.records, a))
      /\ x.id.advisory = Representative(o.records, a)
  BY <1>7, FindingFields
<1>9. b.name = d.name /\ Effective(m, b) = Effective(m, d)
  BY <1>4, BasisIs
<1>10. a \in Matches(o, d.name, Effective(m, d)) \ (Withdrawn \cap o.records)
  BY <1>9
<1>11. /\ x.at = m.path /\ x.basis = Basis(d)
      /\ x.id = Identity("vulnerability", d.name, Effective(m, d), Representative(o.records, a))
      /\ x.id.advisory = Representative(o.records, a)
  BY <1>4, <1>8, <1>9
<1> QED
  BY <1>6, <1>10, <1>11

-----------------------------------------------------------------------------
(* The score of the report and its findings. *)

\* The score of a category in a report: no rule the scorer needs has failed.
Scored(category, checks) == CategoryScore(category, checks, FALSE)

LEMMA ScoreIs ==
    ASSUME NEW checks, NEW category, NEW own, own = {c \in checks : c.category = category},
           NEW applicable, applicable = own \ InState(own, "not_applicable"),
           Scored(category, checks).status = "available"
    PROVE  /\ InState(own, "unknown") = {} /\ applicable # {}
           /\ Scored(category, checks) =
                 Available(IF category \in Ceiling THEN RiskBand(category, applicable)
                                                   ELSE Readiness(applicable))
<1>1. Scored(category, checks) =
        IF own = {} \/ InState(own, "unknown") # {} THEN Insufficient
        ELSE IF applicable = {} THEN NotApplicable
        ELSE Available(IF category \in Ceiling THEN RiskBand(category, applicable)
                                               ELSE Readiness(applicable))
  BY DEF Scored, CategoryScore
<1>2. Insufficient.status # "available" /\ NotApplicable.status # "available"
  BY DEF Insufficient, NotApplicable
<1> QED
  BY <1>1, <1>2

LEMMA AvailableIs ==
    ASSUME NEW v PROVE Available(v).status = "available" /\ Available(v).value = v
  BY DEF Available

\* A check of advisories that passed or failed rests on complete answers.
LEMMA AdvisoryKnown ==
    ASSUME NEW m, NEW d, NEW o, AdvisoryCheck(m, d, o) # "unknown"
    PROVE  /\ o.known /\ Queries(o, d.name, Effective(m, d)) # {}
           /\ \A q \in Queries(o, d.name, Effective(m, d)) : q.complete
           /\ \A a \in Matches(o, d.name, Effective(m, d)) : a \in o.records
           /\ \A a \in Matches(o, d.name, Effective(m, d)) \ Withdrawn :
                 AdvisorySeverity(o.records, a) # "unknown"
  BY DEF AdvisoryCheck

LEMMA AdvisoryStates ==
    ASSUME NEW m, NEW d, NEW o PROVE AdvisoryCheck(m, d, o) \in {"unknown", "fail", "pass"}
  BY DEF AdvisoryCheck

\* The checks that the security score is taken from.
LEMMA SecurityChecks ==
    ASSUME NEW s, NEW members, NEW registry, NEW o,
           NEW checks, checks = InspectionChecks(s, members, registry, o),
           NEW c \in checks, c.category = "security",
           c.state # "unknown", c.state # "not_applicable"
    PROVE  \E m \in members : \E d \in ExternalDeclarations(m) :
              c.severity = ObservedSeverity(m, d, o) /\ c.state = AdvisoryCheck(m, d, o)
<1>1. c.category \in Ceiling
  BY DEF Ceiling
<1>2. PICK m \in members : \E d \in ExternalDeclarations(m) :
        \/ c = DependencyCheck(m, "dependencies", "deprecation", d,
                               DeprecationCheck(m, d, registry), "none")
        \/ c = DependencyCheck(m, "security", "advisories", d, AdvisoryCheck(m, d, o),
                               ObservedSeverity(m, d, o))
  BY <1>1, DeclarationChecks
<1>3. PICK d \in ExternalDeclarations(m) :
        \/ c = DependencyCheck(m, "dependencies", "deprecation", d,
                               DeprecationCheck(m, d, registry), "none")
        \/ c = DependencyCheck(m, "security", "advisories", d, AdvisoryCheck(m, d, o),
                               ObservedSeverity(m, d, o))
  BY <1>2
<1>4. c = DependencyCheck(m, "security", "advisories", d, AdvisoryCheck(m, d, o),
                          ObservedSeverity(m, d, o))
  BY <1>3, DependencyCheckFields
<1> QED
  BY <1>4, DependencyCheckFields

\* A rating that an advisory brings into the checks is that of a finding.
LEMMA RatingIsFound ==
    ASSUME NEW members, NEW o, SoundOsv(o), NEW m \in members, NEW d \in ExternalDeclarations(m),
           ObservedSeverity(m, d, o) # "none"
    PROVE  \E f \in Vulnerable(members, o) :
              /\ f.kind = "finding" /\ f.id.code = "vulnerability"
              /\ AdvisorySeverity(o.records, f.id.advisory) = ObservedSeverity(m, d, o)
<1>1. PICK a \in Active(m, d, o) : AdvisorySeverity(o.records, a) = ObservedSeverity(m, d, o)
  BY ObservedIs
<1>2. PICK b : b = Basis(d)
  OBVIOUS
<1>3. b \in DependencyFactBases(m) /\ b.name = d.name /\ Effective(m, b) = Effective(m, d)
  BY <1>2, BasesAre, BasisIs
<1>4. a \in Matches(o, b.name, Effective(m, b)) \ (Withdrawn \cap o.records)
  BY <1>1, <1>3 DEF Active
<1>5. a \in Advisory /\ o.records \subseteq Advisory
  BY <1>4, MatchesTyped DEF SoundOsv
<1>6. PICK x : x = Output("finding", m, b, Identity("vulnerability", b.name, Effective(m, b),
                                                    Representative(o.records, a)))
  OBVIOUS
<1>7. x \in Finding(m, b, "vulnerability", Effective(m, b), Representative(o.records, a))
  BY <1>6 DEF Finding
<1>8. x \in KnownVulnerability(m, b, o)
  BY <1>4, <1>7, FoundUnder
<1>9. PICK f \in Vulnerable(members, o) : f.id = x.id /\ f.at = x.at /\ f.kind = x.kind
  BY <1>3, <1>8, VulnerableKeeps
<1>10. /\ x.kind = "finding" /\ x.id.code = "vulnerability"
       /\ x.id.advisory = Representative(o.records, a)
  BY <1>7, FindingFields
<1>11. AdvisorySeverity(o.records, Representative(o.records, a)) = AdvisorySeverity(o.records, a)
  BY <1>5, SameSeverity
<1> QED
  BY <1>1, <1>9, <1>10, <1>11

\* The rating of a finding is not below that of a check, once all checks are known.
LEMMA FindingIsRated ==
    ASSUME NEW s, NEW members, NEW registry, NEW o, SoundOsv(o),
           NEW checks, checks = InspectionChecks(s, members, registry, o),
           \A c \in checks : c.category = "security" => c.state # "unknown",
           NEW f \in Vulnerable(members, o), f.id.code = "vulnerability"
    PROVE  /\ AdvisorySeverity(o.records, f.id.advisory) \in Severity
           /\ \E c \in checks :
                 /\ c.category = "security" /\ c.state # "not_applicable"
                 /\ Band(c.severity) =< Band(AdvisorySeverity(o.records, f.id.advisory))
<1>1. PICK m \in members : \E d \in ExternalDeclarations(m) :
        \E a \in Matches(o, d.name, Effective(m, d)) \ (Withdrawn \cap o.records) :
           f.id.advisory = Representative(o.records, a)
  BY FoundFor
<1>2. PICK d \in ExternalDeclarations(m) :
        \E a \in Matches(o, d.name, Effective(m, d)) \ (Withdrawn \cap o.records) :
           f.id.advisory = Representative(o.records, a)
  BY <1>1
<1>3. PICK a \in Matches(o, d.name, Effective(m, d)) \ (Withdrawn \cap o.records) :
        f.id.advisory = Representative(o.records, a)
  BY <1>2
<1>4. PICK c : c = DependencyCheck(m, "security", "advisories", d, AdvisoryCheck(m, d, o),
                                   ObservedSeverity(m, d, o))
  OBVIOUS
<1>5. c \in checks
  BY <1>4, DeclarationChecks
<1>6. /\ c.category = "security" /\ c.state = AdvisoryCheck(m, d, o)
      /\ c.severity = ObservedSeverity(m, d, o)
  BY <1>4, DependencyCheckFields
<1>7. AdvisoryCheck(m, d, o) # "unknown" /\ c.state # "not_applicable"
  BY <1>5, <1>6, AdvisoryStates
<1>8. a \in o.records /\ a \notin Withdrawn
  BY <1>3, <1>7, AdvisoryKnown
<1>9. AdvisorySeverity(o.records, a) # "unknown"
  BY <1>3, <1>7, <1>8, AdvisoryKnown
<1>10. a \in Active(m, d, o)
  BY <1>3, <1>8 DEF Active
<1>11. Band(c.severity) =< Band(AdvisorySeverity(o.records, a))
  BY <1>6, <1>9, <1>10, ObservedIs
<1>12. a \in Advisory /\ o.records \subseteq Advisory
  BY <1>3, MatchesTyped DEF SoundOsv
<1>13. AdvisorySeverity(o.records, f.id.advisory) = AdvisorySeverity(o.records, a)
  BY <1>3, <1>12, SameSeverity
<1>14. AdvisorySeverity(o.records, a) \in Severity
  BY <1>9, Severities DEF Severity
<1> QED
  BY <1>5, <1>6, <1>7, <1>11, <1>13, <1>14

\* Two sets of bands with the same least one.
LEMMA SameLeastBand ==
    ASSUME NEW S, NEW T, S \subseteq {0, 40, 70, 90, 100}, T \subseteq {0, 40, 70, 90, 100},
           S # {}, S \subseteq T, \A t \in T : \E x \in S : x =< t
    PROVE  Min(S) = Min(T)
<1>1. Min(S) \in S /\ \A x \in S : Min(S) =< x
  BY LeastBand
<1>2. Min(T) \in T /\ \A x \in T : Min(T) =< x
  BY LeastBand
<1>3. Min(T) =< Min(S)
  BY <1>1, <1>2
<1>4. PICK x \in S : x =< Min(T)
  BY <1>2
<1>5. Min(S) =< x
  BY <1>1
<1>6. Min(S) \in {0, 40, 70, 90, 100} /\ Min(T) \in {0, 40, 70, 90, 100} /\ x \in {0, 40, 70, 90, 100}
  BY <1>1, <1>2
<1> QED
  BY <1>3, <1>4, <1>5, <1>6

Ratings(records, found) == {AdvisorySeverity(records, f.id.advisory) : f \in found}
WorstBand(ratings)      == Min({100} \cup {Band(r) : r \in ratings})

\* All the vulnerabilities the rule finds, and nothing else.
Vulnerabilities(found, members, o) ==
    /\ \A f \in found : f \in Vulnerable(members, o) /\ f.id.code = "vulnerability"
    /\ \A f \in Vulnerable(members, o) :
          f.kind = "finding" /\ f.id.code = "vulnerability" => f \in found

LEMMA SecurityExplained ==
    ASSUME NEW s, NEW members, NEW registry, NEW o, NEW found,
           Scored("security", InspectionChecks(s, members, registry, o)).status
              = "available",
           SoundOsv(o), Vulnerabilities(found, members, o)
    PROVE  Scored("security", InspectionChecks(s, members, registry, o)).value
              = WorstBand(Ratings(o.records, found))
<1>1. PICK checks : checks = InspectionChecks(s, members, registry, o)
  OBVIOUS
<1>2. PICK score : score = Scored("security", checks)
  OBVIOUS
<1> DEFINE own        == {c \in checks : c.category = "security"}
           applicable == own \ InState(own, "not_applicable")
           S          == {Band(c.severity) : c \in applicable}
           ratings    == {AdvisorySeverity(o.records, f.id.advisory) : f \in found}
           T          == {100} \cup {Band(r) : r \in ratings}
<1>3. /\ InState(own, "unknown") = {} /\ applicable # {}
      /\ score = Available(IF "security" \in Ceiling THEN RiskBand("security", applicable)
                                                     ELSE Readiness(applicable))
  BY <1>1, <1>2, ScoreIs
<1>4. score.value = Min(S)
  <2>1. score = Available(RiskBand("security", applicable))
    BY <1>3 DEF Ceiling
  <2>2. RiskBand("security", applicable) = Min(S)
    BY DEF RiskBand
  <2> QED
    BY <2>1, <2>2, AvailableIs
<1>5. \A c \in applicable : /\ c \in checks /\ c.category = "security"
                            /\ c.state # "unknown" /\ c.state # "not_applicable"
  BY <1>3 DEF InState
<1>6. \A c \in checks : c.category = "security" => c.state # "unknown"
  BY <1>3 DEF InState
<1>7. \A c \in checks : c.category = "security" /\ c.state # "not_applicable" => c \in applicable
  BY DEF InState
<1>8. ASSUME NEW c \in applicable
      PROVE  c.severity \in Severity /\ (c.severity # "none" => c.severity \in ratings)
  <2>1. PICK m \in members : \E d \in ExternalDeclarations(m) : c.severity = ObservedSeverity(m, d, o)
    BY <1>1, <1>5, <1>8, SecurityChecks
  <2>2. PICK d \in ExternalDeclarations(m) : c.severity = ObservedSeverity(m, d, o)
    BY <2>1
  <2>3. c.severity \in Severity
    BY <2>2, ObservedIs
  <2>4. c.severity # "none" =>
          \E f \in found : AdvisorySeverity(o.records, f.id.advisory) = c.severity
    BY <2>2, RatingIsFound DEF Vulnerabilities
  <2> QED
    BY <2>3, <2>4
<1>9. ASSUME NEW r \in ratings
      PROVE  r \in Severity /\ \E c \in applicable : Band(c.severity) =< Band(r)
  <2>1. PICK f \in found : r = AdvisorySeverity(o.records, f.id.advisory)
    BY <1>9
  <2>2. f \in Vulnerable(members, o) /\ f.id.code = "vulnerability"
    BY DEF Vulnerabilities
  <2>3. /\ AdvisorySeverity(o.records, f.id.advisory) \in Severity
        /\ \E c \in checks :
              /\ c.category = "security" /\ c.state # "not_applicable"
              /\ Band(c.severity) =< Band(AdvisorySeverity(o.records, f.id.advisory))
    BY <1>1, <1>6, <2>2, FindingIsRated
  <2> QED
    BY <1>7, <2>1, <2>3
<1> HIDE DEF own, applicable, ratings
<1>10. S \subseteq {0, 40, 70, 90, 100} /\ T \subseteq {0, 40, 70, 90, 100}
  BY <1>8, <1>9, BandValues
<1>11. S # {}
  BY <1>3
<1>12. S \subseteq T
  <2>1. \A c \in applicable : Band(c.severity) = 100 \/ c.severity \in ratings
    BY <1>8 DEF Band
  <2> QED
    BY <2>1
<1>13. ASSUME NEW t \in T PROVE \E x \in S : x =< t
  <2>1. \/ t = 100
        \/ \E r \in ratings : t = Band(r)
    OBVIOUS
  <2>2. CASE t = 100
    BY <1>10, <1>11, <2>2
  <2>3. CASE \E r \in ratings : t = Band(r)
    BY <1>9, <2>3
  <2> QED
    BY <2>1, <2>2, <2>3
<1> HIDE DEF S, T
<1>14. Min(S) = Min(T)
  BY <1>10, <1>11, <1>12, <1>13, SameLeastBand
<1>15. score.value = Min(T)
  BY <1>4, <1>14
<1> QED
  BY <1>1, <1>2, <1>15 DEF T, ratings, WorstBand, Ratings

-----------------------------------------------------------------------------
(* A category whose checks all pass has every point. *)

LEMMA FiniteValues ==
    ASSUME NEW f, IsFiniteSet(DOMAIN f), NEW T, T = {f[x] : x \in DOMAIN f}, f = [x \in DOMAIN f |-> f[x]]
    PROVE  IsFiniteSet(T)
<1>1. f \in Surjection(DOMAIN f, T)
  BY DEF Surjection
<1> QED
  BY <1>1, FS_Surjection

LEMMA FiniteMembers ==
    ASSUME NEW w \in World, NEW s, s = Acquired(w.repository, w.lost)
    PROVE  IsFiniteSet(Members(s))
<1> DEFINE kept == {m \in w.repository.manifests : m.path = Root \/ "tree" \notin w.lost}
           f    == [m \in kept |-> AcquiredManifest(m, w.lost)]
           g    == [m \in Manifests(s) |-> Member(s, m)]
<1>1. IsFiniteSet(w.repository.manifests)
  BY WorldAssumption
<1>2. IsFiniteSet(kept)
  BY <1>1, FS_Subset
<1>3. s.manifests = {AcquiredManifest(m, w.lost) : m \in kept}
  BY AcquiredFields
<1>4. IsFiniteSet(s.manifests)
  <2>1. DOMAIN f = kept /\ s.manifests = {f[m] : m \in DOMAIN f} /\ f = [m \in DOMAIN f |-> f[m]]
    BY <1>3
  <2> HIDE DEF f
  <2> QED
    BY <1>2, <2>1, FiniteValues
<1>5. IsFiniteSet(Manifests(s))
  BY <1>4, AcquiredOnce, ManifestsExist, FS_Subset
<1> QED
  <2>1. DOMAIN g = Manifests(s) /\ Members(s) = {g[m] : m \in DOMAIN g} /\ g = [m \in DOMAIN g |-> g[m]]
    BY DEF Members
  <2> HIDE DEF g
  <2> QED
    BY <1>5, <2>1, FiniteValues

LEMMA CategoryOfDependencyChecks ==
    ASSUME NEW m, NEW registry, NEW o, NEW c \in DependencyChecks(m, registry, o)
    PROVE  c.category \in {"dependencies", "security"}
<1>1. CASE ExternalDeclarations(m) = {}
  <2>1. \E category \in {"dependencies", "security"} :
           c = InspectionCheck(m, category, "external-dependencies", "not_applicable")
    BY <1>1 DEF DependencyChecks
  <2> QED
    BY <2>1, InspectionCheckFields
<1>2. CASE ExternalDeclarations(m) # {}
  <2>1. \E category \in {"dependencies", "security"} : \E of, d, state, severity :
           c = DependencyCheck(m, category, of, d, state, severity)
    BY <1>2 DEF DependencyChecks
  <2> QED
    BY <2>1, DependencyCheckFields
<1> QED
  BY <1>1, <1>2

LEMMA KnownRootChecks ==
    ASSUME NEW s, NEW members, NEW issues, NEW c \in RootChecks(s, members, issues),
           c.state # "unknown"
    PROVE  LET root == MemberAt(members, Root)
           IN  \/ c = InspectionCheck(root, "tooling", "package-manager", PackageManagerCheck(s))
               \/ c = InspectionCheck(root, "tooling", "lockfile", LockfileCheck(s, members, issues))
<1> DEFINE root == MemberAt(members, Root)
<1>1. \/ c = InspectionCheck(root, "tooling", "package-manager", PackageManagerCheck(s))
      \/ c = InspectionCheck(root, "tooling", "lockfile", LockfileCheck(s, members, issues))
      \/ \E category, of : c = InspectionCheck(root, category, of, "unknown")
  BY DEF RootChecks
<1>2. ~\E category, of : c = InspectionCheck(root, category, of, "unknown")
  BY InspectionCheckFields
<1> QED
  BY <1>1, <1>2

LEMMA FiniteFew ==
    ASSUME NEW a, NEW b, NEW c, NEW d
    PROVE  IsFiniteSet({a, b}) /\ IsFiniteSet({a, b, c, d})
<1>1. IsFiniteSet({a} \cup {b})
  BY FS_Singleton, FS_AddElement
<1>2. IsFiniteSet(({a} \cup {b}) \cup {c})
  BY <1>1, FS_AddElement
<1>3. IsFiniteSet((({a} \cup {b}) \cup {c}) \cup {d})
  BY <1>2, FS_AddElement
<1>4. {a, b} = {a} \cup {b} /\ {a, b, c, d} = (({a} \cup {b}) \cup {c}) \cup {d}
  OBVIOUS
<1> QED
  BY <1>1, <1>3, <1>4

LEMMA FiniteMemberChecks ==
    ASSUME NEW s, NEW members, IsFiniteSet(members)
    PROVE  IsFiniteSet(UNION {MemberChecks(s, members, m) : m \in members})
<1> DEFINE f == [m \in members |-> MemberChecks(s, members, m)]
           T == {MemberChecks(s, members, m) : m \in members}
<1>1. IsFiniteSet(T)
  <2>1. DOMAIN f = members /\ T = {f[m] : m \in DOMAIN f} /\ f = [m \in DOMAIN f |-> f[m]]
    OBVIOUS
  <2> HIDE DEF f, T
  <2> QED
    BY <2>1, FiniteValues
<1>2. \A m \in members : IsFiniteSet(MemberChecks(s, members, m))
  BY FiniteFew DEF MemberChecks
<1>3. \A x \in T : IsFiniteSet(x)
  BY <1>2
<1> HIDE DEF T
<1>4. IsFiniteSet(UNION T)
  BY <1>1, <1>3, FS_UNION
<1> QED
  BY <1>4 DEF T

\* The checks of the setup that know something are finitely many.
LEMMA FiniteSetup ==
    ASSUME NEW s, NEW members, NEW registry, NEW o, IsFiniteSet(members),
           NEW some, some \subseteq InspectionChecks(s, members, registry, o),
           \A c \in some : c.category \in SetupCategory /\ c.state # "unknown"
    PROVE  IsFiniteSet(some)
<1> DEFINE root    == MemberAt(members, Root)
           issues  == WorkspaceIssues(s)
           manager == InspectionCheck(root, "tooling", "package-manager", PackageManagerCheck(s))
           lock    == InspectionCheck(root, "tooling", "lockfile", LockfileCheck(s, members, issues))
           ofAll   == UNION {MemberChecks(s, members, m) : m \in members}
<1>1. ASSUME NEW c \in some PROVE c \in ofAll \/ c \in {manager, lock}
  <2>1. \/ \E m \in members : c \in DependencyChecks(m, registry, o)
        \/ \E m \in members : c \in MemberChecks(s, members, m)
        \/ c \in RootChecks(s, members, issues)
    BY AllChecks
  <2>2. \A m \in members : c \notin DependencyChecks(m, registry, o)
    BY <1>1, CategoryOfDependencyChecks DEF SetupCategory
  <2>3. ASSUME c \in RootChecks(s, members, issues) PROVE c \in {manager, lock}
    BY <1>1, <2>3, KnownRootChecks
  <2> QED
    BY <2>1, <2>2, <2>3
<1>2. IsFiniteSet(ofAll)
  BY FiniteMemberChecks
<1>3. IsFiniteSet({manager, lock})
  BY FiniteFew
<1> HIDE DEF ofAll, manager, lock
<1>4. IsFiniteSet(ofAll \cup {manager, lock})
  BY <1>2, <1>3, FS_Union
<1>5. some \in SUBSET (ofAll \cup {manager, lock})
  BY <1>1
<1> QED
  BY <1>4, <1>5, FS_Subset

LEMMA AllOfAll ==
    ASSUME NEW n \in Nat, n # 0 PROVE (100 * n) \div n = 100
  OBVIOUS

\* Points are missing only where a check fails.
LEMMA PointsAreLost ==
    ASSUME NEW s, NEW members, NEW registry, NEW o, IsFiniteSet(members),
           MemberAt(members, Root) \in members,
           NEW checks, checks = InspectionChecks(s, members, registry, o),
           NEW category \in SetupCategory,
           NEW score, score = Scored(category, checks), score.status = "available",
           score.value < 100
    PROVE  \E c \in checks : c.category = category /\ c.state = "fail"
<1> SUFFICES ASSUME \A c \in checks : c.category = category => c.state # "fail" PROVE FALSE
  OBVIOUS
<1> DEFINE own        == {c \in checks : c.category = category}
           applicable == own \ InState(own, "not_applicable")
<1>1. /\ InState(own, "unknown") = {} /\ applicable # {}
      /\ score = Available(IF category \in Ceiling THEN RiskBand(category, applicable)
                                                   ELSE Readiness(applicable))
  BY ScoreIs
<1>2. score = Available(Readiness(applicable))
  BY <1>1 DEF Ceiling, SetupCategory
<1>3. \A c \in applicable : /\ c \in checks /\ c.category = category
                            /\ c.state # "unknown" /\ c.state # "not_applicable"
  BY <1>1 DEF InState
<1> HIDE DEF applicable
<1>4. \A c \in applicable : c.state = "pass"
  BY <1>3, SetupChecks DEF CheckState
<1>5. InState(applicable, "pass") = applicable
  BY <1>4 DEF InState
<1>6. IsFiniteSet(applicable)
  BY <1>3, FiniteSetup
<1>7. Cardinality(applicable) \in Nat /\ Cardinality(applicable) # 0
  BY <1>1, <1>6, FS_CardinalityType, FS_EmptySet
<1>8. Readiness(applicable) = 100
  BY <1>5, <1>7, AllOfAll DEF Readiness
<1>9. score = Available(100)
  BY <1>2, <1>8
<1>10. score.value = 100
  BY <1>9, AvailableIs
<1>11. 100 < 100
  BY <1>10, Zenon
<1> QED
  BY <1>11

\* The dependency band is that of a deprecated version.
LEMMA DeprecationIsFound ==
    ASSUME NEW s, NEW members, NEW registry, NEW o,
           NEW checks, checks = InspectionChecks(s, members, registry, o),
           Scored("dependencies", checks) = Available(70)
    PROVE  \E x \in Deprecated(members, registry) : x.kind = "finding" /\ x.id.code = "deprecated"
<1> DEFINE own        == {c \in checks : c.category = "dependencies"}
           applicable == own \ InState(own, "not_applicable")
<1>1. Scored("dependencies", checks).status = "available"
  BY AvailableIs
<1>2. Scored("dependencies", checks) =
         Available(IF "dependencies" \in Ceiling THEN RiskBand("dependencies", applicable)
                                                 ELSE Readiness(applicable))
  BY <1>1, ScoreIs
<1>3. RiskBand("dependencies", applicable) = 70
  <2>1. Available(70) = Available(RiskBand("dependencies", applicable))
    BY <1>2 DEF Ceiling
  <2> HIDE DEF applicable
  <2> QED
    BY <2>1, AvailableIs
<1>4. InState(applicable, "fail") # {}
  BY <1>3 DEF RiskBand, Band
<1>5. PICK c \in checks : c.category = "dependencies" /\ c.state = "fail"
  BY <1>4 DEF InState
<1>6. c.category \in Ceiling
  BY <1>5 DEF Ceiling
<1>7. PICK m \in members : \E d \in ExternalDeclarations(m) :
        \/ c = DependencyCheck(m, "dependencies", "deprecation", d,
                               DeprecationCheck(m, d, registry), "none")
        \/ c = DependencyCheck(m, "security", "advisories", d, AdvisoryCheck(m, d, o),
                               ObservedSeverity(m, d, o))
  BY <1>5, <1>6, DeclarationChecks
<1>8. PICK d \in ExternalDeclarations(m) :
        \/ c = DependencyCheck(m, "dependencies", "deprecation", d,
                               DeprecationCheck(m, d, registry), "none")
        \/ c = DependencyCheck(m, "security", "advisories", d, AdvisoryCheck(m, d, o),
                               ObservedSeverity(m, d, o))
  BY <1>7
<1>9. DeprecationCheck(m, d, registry) = "fail"
  BY <1>5, <1>8, DependencyCheckFields
<1>10. PICK b : b = Basis(d)
  OBVIOUS
<1>11. b \in DependencyFactBases(m) /\ b.name = d.name /\ Effective(m, b) = Effective(m, d)
  BY <1>10, BasesAre, BasisIs
<1>12. /\ Effective(m, b) # NoVersion /\ Effective(m, b) \in registry[b.name].versions
       /\ Effective(m, b) \in registry[b.name].deprecated
  BY <1>9, <1>11 DEF DeprecationCheck
<1>13. registry[b.name] # NoAnswer
  <2>1. NoAnswer.versions = {}
    BY DEF NoAnswer
  <2> QED
    BY <1>12, <2>1
<1>14. PICK x : x = Output("finding", m, b, Identity("deprecated", b.name, Effective(m, b), NoAdvisory))
  OBVIOUS
<1>15. x \in Finding(m, b, "deprecated", Effective(m, b), NoAdvisory)
  BY <1>14 DEF Finding
<1>16. x \in DeprecatedDependency(m, b, registry)
  BY <1>12, <1>13, <1>15 DEF DeprecatedDependency
<1>17. x \in Deprecated(members, registry)
  <2>1. [member |-> m, basis |-> b] \in ScopedBases(members)
    BY <1>11 DEF ScopedBases
  <2> QED
    BY <1>16, <2>1 DEF Deprecated
<1> QED
  BY <1>15, <1>17, FindingFields

-----------------------------------------------------------------------------
(* ScoreIsExplained. *)

\* What the analyzer takes from a rule it does not reject.
LEMMA RuleIsReported ==
    ASSUME NEW r \in DOMAIN ReportRules, r \notin Report.rejected
    PROVE  ReportRules[r] \subseteq Report.outputs
<1>1. DistinctIds(ReportRules[r])
  BY ReportFields
<1>2. Accepted(ReportRules[r]) = ReportRules[r]
  BY <1>1 DEF Accepted
<1> QED
  BY <1>2, ReportFields

LEMMA ReportedByRule ==
    ASSUME NEW x \in Report.outputs
    PROVE  \E r \in DOMAIN ReportRules : x \in ReportRules[r]
  BY ReportFields DEF Accepted

LEMMA ScoresAre ==
    ASSUME NEW c \in Category
    PROVE  Report.scores.categories[c] = Scored(c, ReportChecks)
<1>1. Report.scores.categories = [k \in Category |-> Scored(k, ReportChecks)]
  BY ReportFields DEF StackHealth, Scored
<1> QED
  BY <1>1

\* A repository that is reported on.
LEMMA ReportedRepository ==
    ASSUME CollectedInv, at = "report", world.kind = "repository"
    PROVE  /\ world \in World /\ project = Acquired(world.repository, world.lost)
           /\ Truth = world.repository /\ project.known = TRUE
           /\ OnePerPath(project) /\ OnePerPath(Truth)
           /\ MemberAt(Members(project), Root) \in Members(project)
           /\ SoundOsv(OsvSnapshot)
<1>1. world \in World /\ project = Acquired(world.repository, world.lost) /\ Truth = world.repository
  BY ReportedProject DEF CollectedInv
<1>2. project.known = TRUE /\ OnePerPath(project) /\ OnePerPath(Truth)
  BY <1>1, AcquiredFields, AcquiredOnce, RepositoryOnce
<1> QED
  BY <1>1, <1>2, MembersOnce, OsvIsSound

LEMMA ReportedRules ==
    ASSUME project.known = TRUE
    PROVE  /\ {"deprecated", "vulnerable", "setup"} \subseteq DOMAIN ReportRules
           /\ ReportRules["deprecated"] = Deprecated(Members(project), Registry)
           /\ ReportRules["vulnerable"] = Vulnerable(Members(project), OsvSnapshot)
           /\ ReportRules["setup"] = AllSetup(Members(project), ReportChecks)
<1>1. PICK rules : rules = ReportRules
  OBVIOUS
<1>2. rules = AllOutputs(project, Members(project), Registry, OsvSnapshot, ReportChecks)
  BY <1>1 DEF ReportRules
<1>3. DOMAIN rules = {"deprecated", "outdated", "migration", "vulnerable", "health",
                      "unnecessary", "overlap", "setup"}
  BY <1>2, Rules
<1>4. rules["deprecated"] = Deprecated(Members(project), Registry)
  BY <1>2, Rules
<1>5. rules["vulnerable"] = Vulnerable(Members(project), OsvSnapshot)
  BY <1>2, Rules
<1>6. rules["setup"] = AllSetup(Members(project), ReportChecks)
  BY <1>2, RulesOfMembers
<1>7. {"deprecated", "vulnerable", "setup"} \subseteq DOMAIN rules
  BY <1>3
<1> QED
  BY <1>1, <1>4, <1>5, <1>6, <1>7

LEMMA VulnerabilitiesReported ==
    ASSUME CollectedInv, at = "report", world.kind = "repository",
           NEW x \in Report.outputs, x.id.code = "vulnerability"
    PROVE  x \in Vulnerable(Members(project), OsvSnapshot)
<1>1. PICK r \in DOMAIN ReportRules : x \in ReportRules[r]
  BY ReportedByRule
<1>2. project.known = TRUE /\ MemberAt(Members(project), Root) \in Members(project)
  BY ReportedRepository
<1> QED
  BY <1>1, <1>2, CodesTellRules DEF ReportRules, ReportChecks

\* A failing check of the setup is a finding of the report.
LEMMA FailuresAreReported ==
    ASSUME CollectedInv, at = "report", world.kind = "repository",
           NEW c \in ReportChecks, c.category \in SetupCategory, c.state = "fail"
    PROVE  \E f \in Findings(Report.outputs) : f.id.code = c.of
<1> DEFINE members == Members(project)
<1>1. project.known = TRUE /\ MemberAt(members, Root) \in members
  BY ReportedRepository
<1>2. PICK m \in members : c.at = m.path
  BY <1>1, SetupChecks DEF ReportChecks
<1>3. PICK x : x = Output("finding", m, NameBasis(NoName),
                          Identity(c.of, NameBasis(NoName).name, NoVersion, NoAdvisory))
  OBVIOUS
<1>4. x \in Finding(m, NameBasis(NoName), c.of, NoVersion, NoAdvisory)
  BY <1>3 DEF Finding
<1>5. x \in SetupFindings(ReportChecks, m)
  BY <1>2, <1>4 DEF SetupFindings, SetupCategory
<1>6. x \in AllSetup(members, ReportChecks)
  BY <1>5 DEF AllSetup
<1>7. DistinctIds(AllSetup(members, ReportChecks))
  <2>1. ASSUME NEW y \in AllSetup(members, ReportChecks)
        PROVE  y = [kind |-> "finding", at |-> y.at, basis |-> NameBasis(NoName), id |-> y.id]
    <3>1. PICK mm \in members : y \in SetupFindings(ReportChecks, mm)
      BY <2>1 DEF AllSetup
    <3> QED
      BY <1>1, <3>1, SetupFindingsAre DEF ReportChecks
  <2>2. ASSUME NEW y \in AllSetup(members, ReportChecks), NEW z \in AllSetup(members, ReportChecks),
               y.id = z.id, y.at = z.at
        PROVE  y = z
    BY <2>1, <2>2
  <2> QED
    BY <2>2 DEF DistinctIds
<1>8. "setup" \in DOMAIN ReportRules /\ ReportRules["setup"] = AllSetup(members, ReportChecks)
  BY <1>1, ReportedRules
<1>9. x \in Report.outputs
  BY <1>6, <1>7, <1>8, ReportFields, RuleIsReported
<1>10. x.kind = "finding" /\ x.id.code = c.of
  BY <1>4, FindingFields
<1> QED
  BY <1>9, <1>10 DEF Findings

\* The score and the findings tell one story: what takes points from a category
\* is a finding of the report, and the security score is the band of its worst one.
THEOREM ScoreIsAlwaysExplained == Spec => []ScoreIsExplained
<1>1. CollectedInv => ScoreIsExplained
  <2> SUFFICES ASSUME CollectedInv, at = "report", world.kind = "repository"
               PROVE  ExplainedIn(Report)
    BY DEF ScoreIsExplained
  <2> DEFINE members  == Members(project)
             findings == Findings(Report.outputs)
             scores   == Report.scores.categories
             rules    == ReportRules
  <2>1. project.known = TRUE /\ MemberAt(members, Root) \in members /\ SoundOsv(OsvSnapshot)
    BY ReportedRepository
  <2>2. ASSUME scores.security.status = "available", "vulnerable" \notin Report.rejected
        PROVE  scores.security.value =
                 Min({100} \cup {Band(r) : r \in
                        {AdvisorySeverity(Report.osv.records, f.id.advisory) :
                            f \in {x \in findings : x.id.code \in {"vulnerability"}}}})
    <3> DEFINE found == {x \in findings : x.id.code \in {"vulnerability"}}
    <3>1. scores.security = Scored("security", ReportChecks)
      BY ScoresAre DEF Category
    <3>2. \A f \in found : f \in Vulnerable(members, OsvSnapshot) /\ f.id.code = "vulnerability"
      BY VulnerabilitiesReported DEF Findings
    <3>3. Vulnerable(members, OsvSnapshot) \subseteq Report.outputs
      BY <2>1, <2>2, ReportedRules, RuleIsReported
    <3>4. \A f \in Vulnerable(members, OsvSnapshot) :
             f.kind = "finding" /\ f.id.code = "vulnerability" => f \in found
      BY <3>3 DEF Findings
    <3>5. Vulnerabilities(found, members, OsvSnapshot)
      BY <3>2, <3>4 DEF Vulnerabilities
    <3>6. PICK o : o = OsvSnapshot
      OBVIOUS
    <3>7. SoundOsv(o) /\ Vulnerabilities(found, members, o)
      BY <2>1, <3>5, <3>6
    <3>8. scores.security = Scored("security", InspectionChecks(project, members, Registry, o))
      BY <3>1, <3>6 DEF ReportChecks
    <3> HIDE DEF found, scores
    <3>9. scores.security.value = WorstBand(Ratings(o.records, found))
      BY <2>2, <3>7, <3>8, SecurityExplained
    <3>10. Report.osv.records = o.records
      BY <3>6, ReportFields
    <3> QED
      BY <3>9, <3>10 DEF found, WorstBand, Ratings
  <2>3. ASSUME scores.dependencies = Available(70), "deprecated" \notin Report.rejected
        PROVE  {x \in findings : x.id.code \in {"deprecated"}} # {}
    <3>1. scores.dependencies = Scored("dependencies", ReportChecks)
      BY ScoresAre DEF Category
    <3>2. PICK x \in Deprecated(members, Registry) : x.kind = "finding" /\ x.id.code = "deprecated"
      BY <2>3, <3>1, DeprecationIsFound DEF ReportChecks
    <3>3. x \in Report.outputs
      BY <2>1, <2>3, ReportedRules, RuleIsReported
    <3> QED
      BY <3>2, <3>3 DEF Findings
  <2>4. ASSUME NEW c \in {"maintainability", "testing", "tooling"},
               scores[c].status = "available", scores[c].value < 100
        PROVE  {x \in findings :
                  x.id.code \in {k.of : k \in {y \in Report.checks : y.category = c}}} # {}
    <3>1. scores[c] = Scored(c, ReportChecks) /\ c \in SetupCategory
      BY ScoresAre DEF Category, SetupCategory
    <3>2. IsFiniteSet(members)
      BY ReportedRepository, FiniteMembers
    <3> HIDE DEF scores
    <3>3. PICK k \in ReportChecks : k.category = c /\ k.state = "fail"
      BY <2>1, <2>4, <3>1, <3>2, PointsAreLost DEF ReportChecks
    <3>4. PICK f \in findings : f.id.code = k.of
      BY <3>1, <3>3, FailuresAreReported
    <3>5. Report.checks = ReportChecks
      BY ReportFields
    <3> QED
      BY <3>3, <3>4, <3>5
  <2> QED
    BY <2>2, <2>3, <2>4 DEF ExplainedIn, Explained
<1> QED
  BY <1>1, AlwaysCollected, PTL

-----------------------------------------------------------------------------
(* What is lost of a repository changes what is known of a declaration. *)

\* A link to a member stays one where more members are known.
LEMMA InternalStays ==
    ASSUME NEW manager, NEW locks, NEW members, NEW more, NEW d, NEW importer,
           NpmLink(manager, locks, members, d, importer) = "internal",
           \A m \in members : \E n \in more : n.path = m.path /\ n.packageName = m.packageName
    PROVE  NpmLink(manager, locks, more, d, importer) = "internal"
<1> DEFINE selection   == SelectLockfile(manager, locks)
           npmLocks        == {l \in locks : l.manager = "npm"}
           readable    == {l \in npmLocks : l.readable /\ l.format >= 2}
           found       == UNION {Installed(l, d.name, importer) : l \in readable}
           linked      == {e \in found : e.target # NoTarget}
           sameName(s) == \E m \in s : m.path # Root /\ m.packageName = d.name
           declared    == \E l \in readable :
                             [importer |-> importer, group |-> d.group,
                              name |-> d.name, spec |-> d.spec] \in l.declared
           other       == \E l \in selection.chosen : l.manager # "npm"
           none        == /\ selection.chosen = {} /\ npmLocks = {}
                          /\ manager \notin {"npm", NoManager}
           target(s)   == \E e \in linked, m \in s : m.path = e.target /\ m.packageName = d.name
           link(s)     == CASE other -> "external"
                            [] none  -> "external"
                            [] OTHER ->
                               IF linked = {}
                               THEN IF \/ ~sameName(s)
                                       \/ selection.chosen # {} /\ found # {} /\ declared
                                    THEN "external" ELSE "unresolved"
                               ELSE IF selection.chosen # {} /\ declared /\ target(s)
                                    THEN "internal" ELSE "unresolved"
<1>1. /\ NpmLink(manager, locks, members, d, importer) = link(members)
      /\ NpmLink(manager, locks, more, d, importer) = link(more)
  BY DEF NpmLink
<1>2. target(members) => target(more)
  OBVIOUS
<1>3. sameName(members) \in BOOLEAN /\ sameName(more) \in BOOLEAN
  OBVIOUS
<1> HIDE DEF selection, found, linked, declared, other, none, target, sameName
<1>4. ~other /\ ~none /\ linked # {} /\ selection.chosen # {} /\ declared /\ target(members)
  BY <1>1
<1> QED
  BY <1>1, <1>2, <1>4

LEMMA NoInternalWithoutLocks ==
    ASSUME NEW manager, NEW members, NEW d, NEW importer
    PROVE  NpmLink(manager, {}, members, d, importer) # "internal"
<1> DEFINE selection == SelectLockfile(manager, {})
           readable  == {l \in {x \in {} : x.manager = "npm"} : l.readable /\ l.format >= 2}
           found     == UNION {Installed(l, d.name, importer) : l \in readable}
           linked    == {e \in found : e.target # NoTarget}
<1>1. linked = {}
  OBVIOUS
<1> QED
  BY <1>1 DEF NpmLink

LEMMA LinkValues ==
    ASSUME NEW manager, NEW locks, NEW members, NEW d, NEW importer
    PROVE  \/ NpmLink(manager, locks, members, d, importer) = "external"
           \/ NpmLink(manager, locks, members, d, importer) = "internal"
           \/ NpmLink(manager, locks, members, d, importer) = "unresolved"
  BY DEF NpmLink

\* Every manifest acquired is one of the repository's.
LEMMA ManifestsKept ==
    ASSUME NEW w \in World, NEW s, s = Acquired(w.repository, w.lost), NEW y \in Manifests(s)
    PROVE  \E m \in Manifests(w.repository) :
              /\ y = AcquiredManifest(m, w.lost)
              /\ y.path = m.path /\ y.packageName = m.packageName /\ y.raw = m.raw
<1> DEFINE r == w.repository
<1>1. OnePerPath(s) /\ OnePerPath(r) /\ \A m \in r.manifests : IsManifest(m)
  BY AcquiredOnce, RepositoryOnce, WorldAssumption DEF IsSnapshot
<1>2. \A m \in r.manifests :
         /\ AcquiredManifest(m, w.lost).path = m.path
         /\ AcquiredManifest(m, w.lost).packageName = m.packageName
         /\ AcquiredManifest(m, w.lost).raw = m.raw
         /\ AcquiredManifest(m, w.lost).excluded = m.excluded
         /\ AcquiredManifest(m, w.lost).state = "ok" /\ m.path # Root => m.state = "ok"
  BY <1>1, AcquiredManifestFields
<1>3. CASE y = RootManifest(s)
  <2>1. y = AcquiredManifest(RootManifest(r), w.lost)
    BY <1>3, AcquiredOnce
  <2> QED
    BY <1>1, <1>2, <2>1, ManifestsExist
<1>4. CASE y \in Selected(s) /\ y.state = "ok"
  <2>1. y \in s.manifests /\ y.path # Root /\ s.patterns = "valid" /\ ~y.excluded
    BY <1>4 DEF Selected
  <2>2. PICK m \in r.manifests : y = AcquiredManifest(m, w.lost)
    BY <2>1, AcquiredOnce
  <2>3. r.patterns = "valid"
    BY <2>1, AcquiredFields
  <2>4. m \in Selected(r) /\ m.state = "ok"
    BY <1>2, <1>4, <2>1, <2>2, <2>3 DEF Selected
  <2>5. m \in Manifests(r)
    BY <2>4 DEF Manifests
  <2> QED
    BY <1>2, <2>2, <2>5
<1> QED
  BY <1>3, <1>4 DEF Manifests

LEMMA SamePath ==
    ASSUME NEW w \in World, NEW s, s = Acquired(w.repository, w.lost), NEW y \in Manifests(s),
           NEW m \in Manifests(w.repository), y.path = m.path
    PROVE  y = AcquiredManifest(m, w.lost) /\ y.raw = m.raw
<1>1. PICK n \in Manifests(w.repository) :
        y = AcquiredManifest(n, w.lost) /\ y.path = n.path /\ y.raw = n.raw
  BY ManifestsKept
<1>2. n = m
  BY <1>1, RepositoryOnce, ManifestsExist DEF OnePerPath
<1> QED
  BY <1>1, <1>2

\* A manifest of the repository that was not acquired is reported.
LEMMA ManifestLost ==
    ASSUME NEW w \in World, NEW s, s = Acquired(w.repository, w.lost),
           NEW m \in Manifests(w.repository), \A y \in Manifests(s) : y.path # m.path
    PROVE  s.discovered = FALSE \/ "workspace_manifest_unavailable" \in WorkspaceIssues(s)
<1> DEFINE r == w.repository
           x == AcquiredManifest(m, w.lost)
<1>1. OnePerPath(s) /\ OnePerPath(r) /\ m \in r.manifests /\ IsManifest(m)
  BY AcquiredOnce, RepositoryOnce, ManifestsExist, WorldAssumption DEF IsSnapshot
<1>2. m.path # Root
  BY <1>1, RootIsOne, ManifestsExist
<1>3. m \in Selected(r)
  BY <1>1, <1>2, RootIsOne DEF Manifests
<1>4. x.path = m.path /\ x.excluded = m.excluded
  BY <1>1, AcquiredManifestFields
<1>5. CASE "tree" \in w.lost \/ "workspace_file" \in w.lost
  BY <1>5, AcquiredFields
<1>6. CASE "tree" \notin w.lost /\ "workspace_file" \notin w.lost
  <2>1. s.patterns = r.patterns
    BY <1>6, AcquiredFields
  <2>2. x \in s.manifests
    BY <1>1, <1>6, AcquiredFields
  <2>3. x \in Selected(s)
    BY <1>2, <1>3, <1>4, <2>1, <2>2 DEF Selected
  <2>4. x.state # "ok"
    BY <1>4, <2>3 DEF Manifests
  <2>5. \E z \in {y \in Selected(s) : y.state # "ok"} : TRUE
    BY <2>3, <2>4
  <2> QED
    BY <2>5 DEF WorkspaceIssues
<1> QED
  BY <1>5, <1>6

-----------------------------------------------------------------------------
(* Declarations and versions of an acquired manifest. *)

Declared(s, d, path) ==
    [name |-> d.name, spec |-> d.spec, group |-> d.group, link |-> LinkOf(s, d, path)]

LEMMA DeclaredFields ==
    ASSUME NEW s, NEW d, NEW path, NEW x, x = Declared(s, d, path)
    PROVE  /\ x.name = d.name /\ x.spec = d.spec /\ x.group = d.group
           /\ x.link = LinkOf(s, d, path)
  BY DEF Declared

LEMMA DeclarationsAre ==
    ASSUME NEW s, NEW m, NEW x
    PROVE  x \in Declarations(s, m) <=> \E d \in m.raw : x = Declared(s, d, m.path)
  BY DEF Declarations, Declared

LEMMA UnresolvedIsAnIssue ==
    ASSUME NEW s, NEW m \in Manifests(s), NEW x \in Declarations(s, m), x.link = "unresolved"
    PROVE  "workspace_dependency_unresolved" \in WorkspaceIssues(s)
<1>1. Member(s, m) \in Members(s) /\ x \in Member(s, m).declarations
  BY MemberFields DEF Members
<1>2. \E d \in {z \in UNION {n.declarations : n \in Members(s)} : z.link = "unresolved"} : TRUE
  BY <1>1
<1> QED
  BY <1>2 DEF WorkspaceIssues

\* An external declaration is still one, unless its link cannot be resolved.
LEMMA ExternalStays ==
    ASSUME NEW w \in World, NEW s, s = Acquired(w.repository, w.lost),
           NEW m \in Manifests(w.repository), NEW y \in Manifests(s), y.path = m.path,
           "workspace_dependency_unresolved" \notin WorkspaceIssues(s),
           NEW d \in ExternalDeclarations(Member(w.repository, m))
    PROVE  d \in ExternalDeclarations(Member(s, y))
<1> DEFINE r == w.repository
<1>1. d \in Declarations(r, m) /\ IsExternalDependency(d)
  BY MemberFields DEF ExternalDeclarations
<1>2. PICK e \in m.raw : d = Declared(r, e, m.path)
  BY <1>1, DeclarationsAre
<1>3. PICK x : x = Declared(s, e, m.path)
  OBVIOUS
<1>4. x \in Declarations(s, y)
  BY <1>2, <1>3, SamePath, DeclarationsAre
<1>5. /\ d.name = e.name /\ d.spec = e.spec /\ d.group = e.group /\ d.link = LinkOf(r, e, m.path)
      /\ x.name = e.name /\ x.spec = e.spec /\ x.group = e.group /\ x.link = LinkOf(s, e, m.path)
  BY <1>2, <1>3, DeclaredFields
<1>6. e.group # PeerGroup /\ e.spec # InternalProtocol /\ LinkOf(r, e, m.path) = "external"
  BY <1>1, <1>5 DEF IsExternalDependency
<1>7. /\ LinkOf(r, e, m.path) = NpmLink(r.manager, r.locks, Manifests(r), e, m.path)
      /\ LinkOf(s, e, m.path) = NpmLink(s.manager, s.locks, Manifests(s), e, m.path)
  BY <1>6 DEF LinkOf
<1>8. LinkOf(s, e, m.path) # "internal"
  <2>1. s.manager = r.manager /\ (s.locks = {} \/ s.locks = r.locks)
    BY AcquiredFields
  <2>2. CASE s.locks = {}
    BY <1>7, <2>2, NoInternalWithoutLocks
  <2>3. CASE s.locks = r.locks
    <3>1. \A z \in Manifests(s) : \E n \in Manifests(r) : n.path = z.path /\ n.packageName = z.packageName
      BY ManifestsKept
    <3> SUFFICES ASSUME NpmLink(r.manager, r.locks, Manifests(s), e, m.path) = "internal" PROVE FALSE
      BY <1>7, <2>1, <2>3
    <3>2. NpmLink(r.manager, r.locks, Manifests(r), e, m.path) = "internal"
      BY <3>1, InternalStays
    <3> QED
      BY <1>6, <1>7, <3>2
  <2> QED
    BY <2>1, <2>2, <2>3
<1>9. LinkOf(s, e, m.path) # "unresolved"
  BY <1>4, <1>5, UnresolvedIsAnIssue
<1>10. LinkOf(s, e, m.path) = "external"
  BY <1>7, <1>8, <1>9, LinkValues
<1>11. x = d
  BY <1>2, <1>3, <1>6, <1>10 DEF Declared
<1>12. d \in Member(s, y).declarations
  BY <1>4, <1>11, MemberFields
<1> QED
  BY <1>1, <1>12 DEF ExternalDeclarations

-----------------------------------------------------------------------------
(* Resolutions of a lockfile. *)

\* What an importer's lockfile resolves of more declarations.
LEMMA ResolutionsGrow ==
    ASSUME NEW lock, NEW importer, NEW some, NEW more, some \subseteq more,
           NEW x, x = ParseLock(lock, some, importer), NEW y, y = ParseLock(lock, more, importer)
    PROVE  (x.known <=> y.known) /\ x.resolutions \subseteq y.resolutions
<1> DEFINE resolved(declarations) ==
               {[name |-> d.name, spec |-> d.spec, group |-> d.group,
                 version |-> (CHOOSE c \in Candidates(lock, d, importer) : TRUE).version] :
                   d \in {z \in declarations : Resolves(Candidates(lock, z, importer))}}
           issues(declarations) ==
               (UNION {ResolutionIssues(Candidates(lock, d, importer)) : d \in declarations})
                 \cup (IF Shapeless(lock, importer, declarations) THEN {"lockfile_invalid"} ELSE {})
<1>1. CASE ~lock.readable
  <2>1. x = y
    BY <1>1 DEF ParseLock
  <2> QED
    BY <2>1
<1>2. CASE lock.readable
  <2>1. /\ x = [known |-> TRUE, resolutions |-> resolved(some), issues |-> issues(some)]
        /\ y = [known |-> TRUE, resolutions |-> resolved(more), issues |-> issues(more)]
    BY <1>2 DEF ParseLock, LockSnapshot
  <2>2. resolved(some) \subseteq resolved(more)
    OBVIOUS
  <2> HIDE DEF resolved, issues
  <2>3. x.known = TRUE /\ y.known = TRUE /\ x.resolutions = resolved(some)
        /\ y.resolutions = resolved(more)
    BY <2>1
  <2> QED
    BY <2>2, <2>3
<1> QED
  BY <1>1, <1>2

LEMMA NormalizedGrow ==
    ASSUME NEW manager, NEW locks, NEW importer, NEW some, NEW more, some \subseteq more,
           NEW x, x = NormalizeResolvedDependencies(manager, locks, some, importer),
           NEW y, y = NormalizeResolvedDependencies(manager, locks, more, importer)
    PROVE  (x.known <=> y.known) /\ x.resolutions \subseteq y.resolutions
<1> DEFINE selection == SelectLockfile(manager, locks)
<1>1. CASE selection.chosen = {}
  <2>1. x = y
    BY <1>1 DEF NormalizeResolvedDependencies
  <2> QED
    BY <2>1
<1>2. CASE selection.chosen # {}
  <2>1. PICK lock : lock = (CHOOSE l \in selection.chosen : TRUE)
    OBVIOUS
  <2>2. x = ParseLock(lock, some, importer) /\ y = ParseLock(lock, more, importer)
    BY <1>2, <2>1 DEF NormalizeResolvedDependencies
  <2> QED
    BY <2>2, ResolutionsGrow
<1> QED
  BY <1>1, <1>2

LEMMA UnknownWithoutLocks ==
    ASSUME NEW manager, NEW importer, NEW some,
           NEW x, x = NormalizeResolvedDependencies(manager, {}, some, importer)
    PROVE  ~x.known
<1>1. SelectLockfile(manager, {}) = [chosen |-> {}, issues |-> {}]
  BY DEF SelectLockfile, Selection
<1>2. SelectLockfile(manager, {}).chosen = {} /\ SelectLockfile(manager, {}).issues = {}
  BY <1>1
<1>3. x = [known |-> FALSE, resolutions |-> {}, issues |-> {}]
  BY <1>2 DEF NormalizeResolvedDependencies, LockSnapshot
<1> QED
  BY <1>3

\* More resolutions agree on the same version, or on none.
LEMMA VersionsGrow ==
    ASSUME NEW x, NEW y, x.resolutions \subseteq y.resolutions, NEW name, NEW spec
    PROVE  \/ ResolvedVersion(y, name, spec) = NoVersion
           \/ ResolvedVersion(x, name, spec) = NoVersion
           \/ ResolvedVersion(x, name, spec) = ResolvedVersion(y, name, spec)
<1> DEFINE versions(z) ==
               {r.version : r \in {q \in z.resolutions : q.name = name /\ q.spec = spec}}
<1>1. versions(x) \subseteq versions(y)
  OBVIOUS
<1>2. /\ ResolvedVersion(x, name, spec) =
            IF \E v \in versions(x) : versions(x) = {v}
            THEN CHOOSE v \in versions(x) : TRUE ELSE NoVersion
      /\ ResolvedVersion(y, name, spec) =
            IF \E v \in versions(y) : versions(y) = {v}
            THEN CHOOSE v \in versions(y) : TRUE ELSE NoVersion
  BY DEF ResolvedVersion
<1> HIDE DEF versions
<1>3. CASE (\E v \in versions(x) : versions(x) = {v}) /\ (\E v \in versions(y) : versions(y) = {v})
  <2>1. versions(x) = versions(y)
    BY <1>1, <1>3
  <2> QED
    BY <1>2, <2>1
<1> QED
  BY <1>2, <1>3

\* Less evidence leaves a version as it was, or unknown.
LEMMA VersionStays ==
    ASSUME NEW w \in World, NEW s, s = Acquired(w.repository, w.lost),
           NEW m \in Manifests(w.repository), NEW y \in Manifests(s), y.path = m.path,
           "workspace_dependency_unresolved" \notin WorkspaceIssues(s),
           NEW d
    PROVE  \/ Effective(Member(s, y), d) = NoVersion
           \/ Effective(Member(w.repository, m), d) = NoVersion
           \/ Effective(Member(w.repository, m), d) = Effective(Member(s, y), d)
<1> DEFINE r == w.repository
<1>1. PICK x : x = LockOf(r, m)
  OBVIOUS
<1>2. PICK z : z = LockOf(s, y)
  OBVIOUS
<1>3. Member(r, m).lock = x /\ Member(s, y).lock = z
  BY <1>1, <1>2, MemberFields
<1>4. \A e \in {q \in Declarations(r, m) : IsExternalDependency(q)} :
         e \in {q \in Declarations(s, y) : IsExternalDependency(q)}
  <2> TAKE e \in {q \in Declarations(r, m) : IsExternalDependency(q)}
  <2>1. e \in ExternalDeclarations(Member(r, m))
    BY MemberFields DEF ExternalDeclarations
  <2>2. e \in ExternalDeclarations(Member(s, y))
    BY <2>1, ExternalStays
  <2> QED
    BY <2>2, MemberFields DEF ExternalDeclarations
<1>5. s.manager = r.manager /\ (s.locks = {} \/ s.locks = r.locks)
  BY AcquiredFields
<1>6. ~z.known \/ ((x.known <=> z.known) /\ x.resolutions \subseteq z.resolutions)
  <2>1. CASE s.locks = {}
    <3>1. z = NormalizeResolvedDependencies(s.manager, {},
                 {q \in Declarations(s, y) : IsExternalDependency(q)}, y.path)
      BY <1>2, <2>1 DEF LockOf
    <3> QED
      BY <3>1, UnknownWithoutLocks
  <2>2. CASE s.locks = r.locks
    <3>1. PICK some : some = {q \in Declarations(r, m) : IsExternalDependency(q)}
      OBVIOUS
    <3>2. PICK more : more = {q \in Declarations(s, y) : IsExternalDependency(q)}
      OBVIOUS
    <3>3. x = NormalizeResolvedDependencies(r.manager, r.locks, some, m.path)
      BY <1>1, <3>1 DEF LockOf
    <3>4. z = NormalizeResolvedDependencies(r.manager, r.locks, more, m.path)
      BY <1>2, <1>5, <2>2, <3>2 DEF LockOf
    <3>5. some \subseteq more
      BY <1>4, <3>1, <3>2
    <3> QED
      BY <3>3, <3>4, <3>5, NormalizedGrow
  <2> QED
    BY <1>5, <2>1, <2>2
<1>7. CASE IsExact(d.spec)
  BY <1>7 DEF Effective, EffectiveVersion
<1>8. CASE ~IsExact(d.spec)
  <2>1. /\ Effective(Member(r, m), d) =
              IF x.known THEN ResolvedVersion(x, d.name, d.spec) ELSE NoVersion
        /\ Effective(Member(s, y), d) =
              IF z.known THEN ResolvedVersion(z, d.name, d.spec) ELSE NoVersion
    BY <1>3, <1>8 DEF Effective, EffectiveVersion
  <2> QED
    BY <1>6, <2>1, VersionsGrow
<1> QED
  BY <1>7, <1>8

-----------------------------------------------------------------------------
(* NoSilentGap. *)

\* An output of the vulnerability rule names the package of its basis.
LEMMA VulnerableBasis ==
    ASSUME NEW members, NEW o, NEW x \in Vulnerable(members, o)
    PROVE  x.basis.name = x.id.name
<1> DEFINE all == UNION {KnownVulnerability(s.member, s.basis, o) : s \in ScopedBases(members)}
<1>1. CASE \E m \in members : x \in OsvUnavailable(m, o)
  <2>1. PICK m \in members : \E b : x \in Limitation(m, b, "osv-source-unavailable", NoVersion)
    BY <1>1 DEF OsvUnavailable
  <2> QED
    BY <2>1, LimitationFields
<1>2. CASE x \in OnePerFinding(all)
  <2> HIDE DEF all
  <2>1. x \in all
    BY <1>2, MergedOutputs DEF OnePerFinding
  <2>2. \E s \in ScopedBases(members) : x \in KnownVulnerability(s.member, s.basis, o)
    BY <2>1 DEF all
  <2>3. PICK s : x \in KnownVulnerability(s.member, s.basis, o)
    BY <2>2
  <2> QED
    BY <2>3, KnownVulnerabilityIs
<1> QED
  BY <1>1, <1>2 DEF Vulnerable

GapCode == {"osv-resolved-version-missing", "osv-exact-version-missing",
            "osv-query-incomplete", "osv-source-unavailable"}

\* The limitation that says why a declaration was not looked at.
SaysWhy(x, m, d) ==
    /\ x.kind = "limitation" /\ x.at = m.path /\ x.basis.name \in {d.name, NoName}
    /\ x.id.code \in GapCode

LEMMA LimitationIsTold ==
    ASSUME NEW members, NEW o, NEW m \in members, NEW d \in ExternalDeclarations(m),
           NEW code \in GapCode, NEW version,
           Limitation(m, Basis(d), code, version) \subseteq KnownVulnerability(m, Basis(d), o)
    PROVE  \E x \in Vulnerable(members, o) : SaysWhy(x, m, d)
<1>1. PICK b : b = Basis(d)
  OBVIOUS
<1>2. b \in DependencyFactBases(m) /\ b.name = d.name
  BY <1>1, BasesAre, BasisIs
<1>3. PICK x : x = Output("limitation", m, b, Identity(code, b.name, version, NoAdvisory))
  OBVIOUS
<1>4. x \in Limitation(m, b, code, version)
  BY <1>3 DEF Limitation
<1>5. x \in KnownVulnerability(m, b, o)
  BY <1>1, <1>4
<1>6. PICK y \in Vulnerable(members, o) : y.id = x.id /\ y.at = x.at /\ y.kind = x.kind
  BY <1>2, <1>5, VulnerableKeeps
<1>7. x.kind = "limitation" /\ x.at = m.path /\ x.id.code = code /\ x.id.name = d.name
  BY <1>2, <1>4, LimitationFields
<1>8. y.basis.name = d.name
  BY <1>6, <1>7, VulnerableBasis
<1> QED
  BY <1>6, <1>7, <1>8 DEF SaysWhy

\* Where OSV gave no whole answer for a declaration, the rule says so.
LEMMA GapIsTold ==
    ASSUME NEW members, NEW o, NEW m \in members, NEW d \in ExternalDeclarations(m),
           \/ ~o.known
           \/ Effective(m, d) = NoVersion
           \/ Queries(o, d.name, Effective(m, d)) = {}
           \/ \E q \in Queries(o, d.name, Effective(m, d)) : ~q.complete
    PROVE  \E x \in Vulnerable(members, o) : SaysWhy(x, m, d)
<1>1. PICK b : b = Basis(d)
  OBVIOUS
<1>2. PICK v : v = Effective(m, d)
  OBVIOUS
<1>3. b \in DependencyFactBases(m) /\ b.name = d.name /\ Effective(m, b) = v
  BY <1>1, <1>2, BasesAre, BasisIs
<1>4. CASE ~o.known
  <2>1. PICK n : n = [name |-> NoName, spec |-> NoVersion]
    OBVIOUS
  <2>2. PICK x : x = Output("limitation", m, n,
                            Identity("osv-source-unavailable", n.name, NoVersion, NoAdvisory))
    OBVIOUS
  <2>3. x \in Limitation(m, n, "osv-source-unavailable", NoVersion)
    BY <2>2 DEF Limitation
  <2>4. x \in OsvUnavailable(m, o)
    BY <1>3, <1>4, <2>1, <2>3 DEF OsvUnavailable
  <2>5. x \in Vulnerable(members, o)
    BY <2>4 DEF Vulnerable
  <2>6. /\ x.kind = "limitation" /\ x.at = m.path /\ x.basis = n
        /\ x.id.code = "osv-source-unavailable"
    BY <2>3, LimitationFields
  <2>7. n.name = NoName
    BY <2>1
  <2> QED
    BY <2>5, <2>6, <2>7 DEF SaysWhy, GapCode
<1>5. CASE o.known /\ v = NoVersion
  <2>1. Limitation(m, b, "osv-resolved-version-missing", b.spec) \subseteq KnownVulnerability(m, b, o)
    BY <1>3, <1>5 DEF KnownVulnerability
  <2> QED
    BY <1>1, <2>1, LimitationIsTold DEF GapCode
<1>6. CASE o.known /\ v # NoVersion /\ Queries(o, d.name, v) = {}
  <2>1. Limitation(m, b, "osv-exact-version-missing", v) \subseteq KnownVulnerability(m, b, o)
    BY <1>3, <1>6 DEF KnownVulnerability
  <2> QED
    BY <1>1, <2>1, LimitationIsTold DEF GapCode
<1>7. CASE o.known /\ v # NoVersion /\ \E q \in Queries(o, d.name, v) : ~q.complete
  <2>1. Queries(o, b.name, v) # {} /\ \E q \in Queries(o, b.name, v) : ~q.complete
    BY <1>3, <1>7
  <2>2. Limitation(m, b, "osv-query-incomplete", v) \subseteq KnownVulnerability(m, b, o)
    BY <1>3, <1>7, <2>1 DEF KnownVulnerability
  <2> QED
    BY <1>1, <2>2, LimitationIsTold DEF GapCode
<1> QED
  BY <1>2, <1>4, <1>5, <1>6, <1>7

\* An active advisory that was matched is a finding, under one of its aliases.
LEMMA FindingIsTold ==
    ASSUME NEW members, NEW o, SoundOsv(o), NEW m \in members, NEW d \in ExternalDeclarations(m),
           NEW a \in Matches(o, d.name, Effective(m, d)) \ (Withdrawn \cap o.records)
    PROVE  \E f \in Vulnerable(members, o) :
              /\ f.kind = "finding" /\ f.id.code = "vulnerability" /\ f.at = m.path
              /\ f.basis.name = d.name
              /\ f.id.advisory \in {a} \cup AdvisoryAliasGroup(Advisory, a)
<1>1. PICK b : b = Basis(d)
  OBVIOUS
<1>2. b \in DependencyFactBases(m) /\ b.name = d.name /\ Effective(m, b) = Effective(m, d)
  BY <1>1, BasesAre, BasisIs
<1>3. a \in Matches(o, b.name, Effective(m, b)) \ (Withdrawn \cap o.records)
  BY <1>2
<1>4. PICK x : x = Output("finding", m, b, Identity("vulnerability", b.name, Effective(m, b),
                                                    Representative(o.records, a)))
  OBVIOUS
<1>5. x \in Finding(m, b, "vulnerability", Effective(m, b), Representative(o.records, a))
  BY <1>4 DEF Finding
<1>6. x \in KnownVulnerability(m, b, o)
  BY <1>3, <1>5, FoundUnder
<1>7. PICK f \in Vulnerable(members, o) : f.id = x.id /\ f.at = x.at /\ f.kind = x.kind
  BY <1>2, <1>6, VulnerableKeeps
<1>8. /\ x.kind = "finding" /\ x.at = m.path /\ x.id.code = "vulnerability"
      /\ x.id.name = d.name /\ x.id.advisory = Representative(o.records, a)
  BY <1>2, <1>5, FindingFields
<1>9. o.records \subseteq Advisory
  BY DEF SoundOsv
<1>10. Representative(o.records, a) \in {a} \cup AdvisoryAliasGroup(Advisory, a)
  BY <1>9, RepresentativeIn, GroupsGrow
<1>11. f.basis.name = d.name
  BY <1>7, <1>8, VulnerableBasis
<1> QED
  BY <1>7, <1>8, <1>10, <1>11

\* All that OSV holds for a query.
Held(q) == UNION Range(PagesOf({q})[q])

LEMMA HeldIs ==
    ASSUME NEW Q, NEW q \in Q
    PROVE  UNION Range(PagesOf(Q)[q]) = Held(q)
  BY DEF Held, PagesOf

LEMMA NothingHeld ==
    ASSUME world \in World, NEW q, q.version = NoVersion
    PROVE  Held(q) = {}
<1>1. q \notin DOMAIN world.pages
  BY PagesAssumption
<1>2. PagesOf({q})[q] = << >>
  BY <1>1 DEF PagesOf
<1>3. Range(<< >>) = {}
  BY DEF Range
<1> QED
  BY <1>2, <1>3 DEF Held

QueryOf(m, d) == [name |-> d.name, version |-> Effective(m, d)]

LEMMA TrueAdvisoriesAre ==
    ASSUME NEW m, NEW d PROVE TrueAdvisories(m, d) = Held(QueryOf(m, d)) \ Withdrawn
  BY DEF TrueAdvisories, Held, QueryOf

\* A query that counts as complete has everything.
LEMMA WholeAnswer ==
    ASSUME CollectedInv, at = "report", NEW m, NEW d,
           NEW x \in Queries(OsvSnapshot, d.name, Effective(m, d)), x.complete
    PROVE  x.matches = Held(QueryOf(m, d))
<1>1. PICK o : o = OsvSnapshot
  OBVIOUS
<1>2. x \in o.queries /\ x.name = d.name /\ x.version = Effective(m, d)
  BY <1>1 DEF Queries
<1>3. osv.stage = "available"
  BY <1>1, <1>2, QueriesAre
<1>4. PICK q \in DOMAIN osv.matches :
        /\ x.name = q.name /\ x.version = q.version /\ x.matches = osv.matches[q]
        /\ q \in osv.complete
  BY <1>1, <1>2, QueriesAre
<1>5. q = [name |-> q.name, version |-> q.version]
  BY DEF CollectedInv, FlowInv, AskableQueries, ExactOsvQueries
<1>6. q = QueryOf(m, d)
  BY <1>2, <1>4, <1>5 DEF QueryOf
<1>7. osv.matches[q] = UNION Range(PagesOf(DOMAIN osv.matches)[q])
  BY <1>3, <1>4 DEF CollectedInv, OsvInv, OsvHolds, AllTold, CompleteIsAll
<1> QED
  BY <1>4, <1>6, <1>7, HeldIs

\* A declaration of an acquired manifest is told about.
LEMMA ToldOfAcquired ==
    ASSUME CollectedInv, at = "report", world.kind = "repository",
           "vulnerable" \notin Report.rejected,
           NEW m, NEW d, NEW y \in Members(project), y.path = m.path,
           d \in ExternalDeclarations(y),
           \/ Effective(y, d) = NoVersion
           \/ Effective(m, d) = NoVersion
           \/ Effective(m, d) = Effective(y, d),
           NEW a \in TrueAdvisories(m, d)
    PROVE  Told(Report, m, d, a)
<1>1. PICK o : o = OsvSnapshot
  OBVIOUS
<1>2. PICK members : members = Members(project)
  OBVIOUS
<1>3. SoundOsv(o) /\ project.known = TRUE /\ world \in World
  BY <1>1, ReportedRepository
<1>4. Vulnerable(members, o) \subseteq Report.outputs
  BY <1>1, <1>2, <1>3, ReportedRules, RuleIsReported
<1>5. y \in members
  BY <1>2
<1>6. CASE \E x \in Vulnerable(members, o) : SaysWhy(x, y, d)
  <2>1. PICK x \in Vulnerable(members, o) : SaysWhy(x, y, d)
    BY <1>6
  <2>2. x \in Report.outputs
    BY <1>4
  <2> QED
    BY <2>1, <2>2 DEF SaysWhy, GapCode, Told
<1>7. CASE ~\E x \in Vulnerable(members, o) : SaysWhy(x, y, d)
  <2>1. /\ Effective(y, d) # NoVersion
        /\ Queries(o, d.name, Effective(y, d)) # {}
        /\ \A q \in Queries(o, d.name, Effective(y, d)) : q.complete
    BY <1>5, <1>7, GapIsTold
  <2>2. Effective(m, d) # NoVersion
    <3> SUFFICES ASSUME Effective(m, d) = NoVersion PROVE FALSE
      OBVIOUS
    <3>1. QueryOf(m, d).version = NoVersion
      BY DEF QueryOf
    <3> QED
      BY <1>3, <3>1, NothingHeld, TrueAdvisoriesAre
  <2>3. Effective(m, d) = Effective(y, d)
    BY <2>1, <2>2
  <2>4. PICK q \in Queries(o, d.name, Effective(y, d)) : q.complete
    BY <2>1
  <2>5. q.matches = Held(QueryOf(m, d))
    BY <1>1, <2>3, <2>4, WholeAnswer
  <2>6. a \in q.matches /\ a \notin Withdrawn
    BY <2>5, TrueAdvisoriesAre
  <2>7. a \in Matches(o, d.name, Effective(y, d)) \ (Withdrawn \cap o.records)
    BY <2>4, <2>6 DEF Matches
  <2>8. PICK f \in Vulnerable(members, o) :
          /\ f.kind = "finding" /\ f.id.code = "vulnerability" /\ f.at = y.path
          /\ f.basis.name = d.name
          /\ f.id.advisory \in {a} \cup AdvisoryAliasGroup(Advisory, a)
    BY <1>3, <1>5, <2>7, FindingIsTold
  <2>9. f \in Report.recommended
    BY <1>4, <2>8, ReportFields DEF Recommended, Findings
  <2> QED
    BY <2>8, <2>9 DEF Told
<1> QED
  BY <1>6, <1>7

\* No advisory of an installed version is lost without a word: what could not be
\* looked at is named, for the dependency, its package or its rule.
THEOREM NoGapIsSilent == Spec => []NoSilentGap
<1>1. CollectedInv => NoSilentGap
  <2> SUFFICES ASSUME CollectedInv, at = "report", world.kind = "repository",
                      NEW m \in Members(Truth), NEW d \in ExternalDeclarations(m),
                      NEW a \in TrueAdvisories(m, d)
               PROVE  Told(Report, m, d, a)
    BY DEF NoSilentGap, NothingUntold
  <2>1. PICK w \in World : w = world
    BY ReportedRepository
  <2>2. PICK s : s = project
    OBVIOUS
  <2>3. s = Acquired(w.repository, w.lost) /\ Truth = w.repository
    BY <2>1, <2>2, ReportedRepository
  <2>4. PICK n \in Manifests(w.repository) : m = Member(w.repository, n)
    BY <2>3 DEF Members
  <2>5. m.path = n.path
    BY <2>4, MemberFields
  <2>6. CASE \A y \in Manifests(s) : y.path # n.path
    <3>1. m.path \notin Report.paths
      <4>1. \A y \in Manifests(s) : Member(s, y).path # m.path
        BY <2>5, <2>6, MemberFields
      <4> QED
        BY <2>2, <4>1, ReportFields DEF Members
    <3>2. s.discovered = FALSE \/ "workspace_manifest_unavailable" \in WorkspaceIssues(s)
      BY <2>3, <2>6, ManifestLost
    <3>3. Report.discovered = s.discovered /\ Report.issues = WorkspaceIssues(s)
      BY <2>2, ReportFields
    <3> QED
      BY <3>1, <3>2, <3>3 DEF Told
  <2>7. CASE \E y \in Manifests(s) : y.path = n.path
    <3>1. PICK y \in Manifests(s) : y.path = n.path
      BY <2>7
    <3>2. Report.issues = WorkspaceIssues(s)
      BY <2>2, ReportFields
    <3>3. CASE "workspace_dependency_unresolved" \in WorkspaceIssues(s)
      BY <3>2, <3>3 DEF Told
    <3>4. CASE "vulnerable" \in Report.rejected
      BY <3>4 DEF Told
    <3>5. CASE /\ "workspace_dependency_unresolved" \notin WorkspaceIssues(s)
               /\ "vulnerable" \notin Report.rejected
      <4>1. Member(s, y) \in Members(project) /\ Member(s, y).path = m.path
        BY <2>2, <2>5, <3>1, MemberFields DEF Members
      <4>2. d \in ExternalDeclarations(Member(s, y))
        BY <2>3, <2>4, <3>1, <3>5, ExternalStays
      <4>3. \/ Effective(Member(s, y), d) = NoVersion
            \/ Effective(m, d) = NoVersion
            \/ Effective(m, d) = Effective(Member(s, y), d)
        BY <2>3, <2>4, <3>1, <3>5, VersionStays
      <4> QED
        BY <3>5, <4>1, <4>2, <4>3, ToldOfAcquired
    <3> QED
      BY <3>3, <3>4, <3>5
  <2> QED
    BY <2>6, <2>7
<1> QED
  BY <1>1, AlwaysCollected, PTL

-----------------------------------------------------------------------------
(* Where every manifest was acquired. *)

\* Of the members, a link depends on the paths and the names alone.
LEMMA LinkSame ==
    ASSUME NEW manager, NEW locks, NEW members, NEW more, NEW d, NEW importer,
           \A m \in members : \E n \in more : n.path = m.path /\ n.packageName = m.packageName,
           \A n \in more : \E m \in members : n.path = m.path /\ n.packageName = m.packageName
    PROVE  NpmLink(manager, locks, members, d, importer) = NpmLink(manager, locks, more, d, importer)
<1> DEFINE selection   == SelectLockfile(manager, locks)
           npmLocks    == {l \in locks : l.manager = "npm"}
           readable    == {l \in npmLocks : l.readable /\ l.format >= 2}
           found       == UNION {Installed(l, d.name, importer) : l \in readable}
           linked      == {e \in found : e.target # NoTarget}
           sameName(s) == \E m \in s : m.path # Root /\ m.packageName = d.name
           declared    == \E l \in readable :
                             [importer |-> importer, group |-> d.group,
                              name |-> d.name, spec |-> d.spec] \in l.declared
           other       == \E l \in selection.chosen : l.manager # "npm"
           none        == /\ selection.chosen = {} /\ npmLocks = {}
                          /\ manager \notin {"npm", NoManager}
           target(s)   == \E e \in linked, m \in s : m.path = e.target /\ m.packageName = d.name
           link(s)     == CASE other -> "external"
                            [] none  -> "external"
                            [] OTHER ->
                               IF linked = {}
                               THEN IF \/ ~sameName(s)
                                       \/ selection.chosen # {} /\ found # {} /\ declared
                                    THEN "external" ELSE "unresolved"
                               ELSE IF selection.chosen # {} /\ declared /\ target(s)
                                    THEN "internal" ELSE "unresolved"
<1>1. /\ NpmLink(manager, locks, members, d, importer) = link(members)
      /\ NpmLink(manager, locks, more, d, importer) = link(more)
  BY DEF NpmLink
<1>2. target(members) <=> target(more)
  OBVIOUS
<1>3. sameName(members) <=> sameName(more)
  OBVIOUS
<1> HIDE DEF selection, found, linked, declared, other, none, target, sameName
<1>4. link(members) = link(more)
  BY <1>2, <1>3
<1> QED
  BY <1>1, <1>4

\* Every manifest of the repository is in the snapshot, under its name.
AllKept(r, s) == \A n \in Manifests(r) : \E y \in Manifests(s) : y.path = n.path

LEMMA KeptBothWays ==
    ASSUME NEW w \in World, NEW s, s = Acquired(w.repository, w.lost), AllKept(w.repository, s)
    PROVE  /\ \A y \in Manifests(s) : \E n \in Manifests(w.repository) :
                 n.path = y.path /\ n.packageName = y.packageName
           /\ \A n \in Manifests(w.repository) : \E y \in Manifests(s) :
                 n.path = y.path /\ n.packageName = y.packageName
<1>1. \A y \in Manifests(s) : \E n \in Manifests(w.repository) :
         n.path = y.path /\ n.packageName = y.packageName
  BY ManifestsKept
<1>2. ASSUME NEW n \in Manifests(w.repository)
      PROVE  \E y \in Manifests(s) : n.path = y.path /\ n.packageName = y.packageName
  <2>1. PICK y \in Manifests(s) : y.path = n.path
    BY <1>2 DEF AllKept
  <2>2. PICK x \in Manifests(w.repository) : y.path = x.path /\ y.packageName = x.packageName
    BY ManifestsKept
  <2>3. x = n
    BY <2>1, <2>2, RepositoryOnce, ManifestsExist DEF OnePerPath
  <2> QED
    BY <2>2, <2>3
<1> QED
  BY <1>1, <1>2

\* With all manifests and the lockfiles the declarations are the same.
LEMMA SameExternal ==
    ASSUME NEW w \in World, NEW s, s = Acquired(w.repository, w.lost), AllKept(w.repository, s),
           s.locks = w.repository.locks,
           NEW m \in Manifests(w.repository), NEW y \in Manifests(s), y.path = m.path,
           NEW x, x \in Declarations(s, y), IsExternalDependency(x)
    PROVE  x \in Declarations(w.repository, m)
<1> DEFINE r == w.repository
<1>1. y.raw = m.raw
  BY SamePath
<1>2. PICK e \in m.raw : x = Declared(s, e, m.path)
  BY <1>1, DeclarationsAre
<1>3. x.name = e.name /\ x.spec = e.spec /\ x.group = e.group /\ x.link = LinkOf(s, e, m.path)
  BY <1>2, DeclaredFields
<1>4. e.group # PeerGroup /\ e.spec # InternalProtocol
  BY <1>3 DEF IsExternalDependency
<1>5. /\ LinkOf(r, e, m.path) = NpmLink(r.manager, r.locks, Manifests(r), e, m.path)
      /\ LinkOf(s, e, m.path) = NpmLink(s.manager, s.locks, Manifests(s), e, m.path)
  BY <1>4 DEF LinkOf
<1>6. s.manager = r.manager
  BY AcquiredFields
<1>7. NpmLink(r.manager, r.locks, Manifests(s), e, m.path)
         = NpmLink(r.manager, r.locks, Manifests(r), e, m.path)
  BY KeptBothWays, LinkSame
<1>8. LinkOf(r, e, m.path) = LinkOf(s, e, m.path)
  BY <1>5, <1>6, <1>7
<1>9. x = Declared(r, e, m.path)
  BY <1>2, <1>8 DEF Declared
<1> QED
  BY <1>9, DeclarationsAre

\* A version that is still known is the true one.
LEMMA KnownVersionIsTrue ==
    ASSUME NEW w \in World, NEW s, s = Acquired(w.repository, w.lost), AllKept(w.repository, s),
           NEW m \in Manifests(w.repository), NEW y \in Manifests(s), y.path = m.path,
           "workspace_dependency_unresolved" \notin WorkspaceIssues(s),
           NEW d, Effective(Member(s, y), d) # NoVersion
    PROVE  Effective(Member(w.repository, m), d) = Effective(Member(s, y), d)
<1> DEFINE r == w.repository
<1>1. PICK x : x = LockOf(r, m)
  OBVIOUS
<1>2. PICK z : z = LockOf(s, y)
  OBVIOUS
<1>3. Member(r, m).lock = x /\ Member(s, y).lock = z
  BY <1>1, <1>2, MemberFields
<1>4. CASE IsExact(d.spec)
  BY <1>4 DEF Effective, EffectiveVersion
<1>5. CASE ~IsExact(d.spec)
  <2>1. /\ Effective(Member(r, m), d) =
              IF x.known THEN ResolvedVersion(x, d.name, d.spec) ELSE NoVersion
        /\ Effective(Member(s, y), d) =
              IF z.known THEN ResolvedVersion(z, d.name, d.spec) ELSE NoVersion
    BY <1>3, <1>5 DEF Effective, EffectiveVersion
  <2>2. z.known
    BY <2>1
  <2>3. s.locks = r.locks /\ s.manager = r.manager
    <3>1. s.manager = r.manager /\ (s.locks = {} \/ s.locks = r.locks)
      BY AcquiredFields
    <3>2. ASSUME s.locks = {} PROVE FALSE
      <4>1. z = NormalizeResolvedDependencies(s.manager, {},
                   {q \in Declarations(s, y) : IsExternalDependency(q)}, y.path)
        BY <1>2, <3>2 DEF LockOf
      <4> QED
        BY <2>2, <4>1, UnknownWithoutLocks
    <3> QED
      BY <3>1, <3>2
  <2>4. {q \in Declarations(s, y) : IsExternalDependency(q)}
           = {q \in Declarations(r, m) : IsExternalDependency(q)}
    <3>1. ASSUME NEW e \in {q \in Declarations(r, m) : IsExternalDependency(q)}
          PROVE  e \in {q \in Declarations(s, y) : IsExternalDependency(q)}
      <4>1. e \in ExternalDeclarations(Member(r, m))
        BY <3>1, MemberFields DEF ExternalDeclarations
      <4>2. e \in ExternalDeclarations(Member(s, y))
        BY <4>1, ExternalStays
      <4> QED
        BY <4>2, MemberFields DEF ExternalDeclarations
    <3>2. ASSUME NEW e \in {q \in Declarations(s, y) : IsExternalDependency(q)}
          PROVE  e \in Declarations(r, m)
      BY <2>3, <3>2, SameExternal
    <3> QED
      BY <3>1, <3>2
  <2>5. x = z
    BY <1>1, <1>2, <2>3, <2>4 DEF LockOf
  <2> QED
    BY <2>1, <2>5
<1> QED
  BY <1>4, <1>5

-----------------------------------------------------------------------------
(* What a perfect score says. *)

LEMMA CheckSeverities ==
    ASSUME NEW s, NEW members, NEW registry, NEW o,
           NEW c \in InspectionChecks(s, members, registry, o)
    PROVE  c.severity \in Severity
<1>1. ASSUME NEW m, NEW category, NEW of, NEW state, c = InspectionCheck(m, category, of, state)
      PROVE  c.severity \in Severity
  BY <1>1 DEF InspectionCheck, Severity
<1>2. CASE \E m \in members : c \in DependencyChecks(m, registry, o)
  <2>1. PICK m \in members : c \in DependencyChecks(m, registry, o)
    BY <1>2
  <2>2. CASE \E category, of, state : c = InspectionCheck(m, category, of, state)
    BY <2>2, <1>1
  <2>3. CASE \E d, state : c = DependencyCheck(m, "dependencies", "deprecation", d, state, "none")
    BY <2>3, DependencyCheckFields DEF Severity
  <2>4. CASE \E d, state : c = DependencyCheck(m, "security", "advisories", d, state,
                                              ObservedSeverity(m, d, o))
    BY <2>4, DependencyCheckFields, ObservedIs
  <2> QED
    BY <2>1, <2>2, <2>3, <2>4 DEF DependencyChecks
<1>3. CASE \E m \in members : c \in MemberChecks(s, members, m)
  BY <1>3, <1>1 DEF MemberChecks
<1>4. CASE c \in RootChecks(s, members, WorkspaceIssues(s))
  BY <1>4, <1>1 DEF RootChecks
<1> QED
  BY <1>2, <1>3, <1>4, AllChecks

\* Nothing is unknown in a category.
KnownIn(category, checks) == \A c \in checks : c.category = category => c.state # "unknown"

LEMMA KnownWhenScored ==
    ASSUME NEW category, NEW checks, Scored(category, checks).status = "available"
    PROVE  KnownIn(category, checks)
<1> DEFINE own == {c \in checks : c.category = category}
<1>1. InState(own, "unknown") = {}
  BY ScoreIs
<1> QED
  BY <1>1 DEF InState, KnownIn

\* Of the checks of a category with a perfect score none is unknown.
LEMMA PerfectScored ==
    ASSUME NEW category \in Ceiling, Scored(category, ReportChecks) = Available(100),
           NEW c \in ReportChecks, c.category = category, c.state # "not_applicable"
    PROVE  /\ c.state # "unknown"
           /\ category = "security" => c.severity = "none"
           /\ category = "dependencies" => c.state # "fail"
<1> DEFINE checks == ReportChecks
<1>1. \A x \in checks : x.severity \in Severity
  BY CheckSeverities DEF ReportChecks
<1>2. CategoryScore(category, checks, FALSE) = Available(100)
  BY Zenon DEF Scored
<1> HIDE DEF checks
<1>3. c \in checks
  BY DEF checks
<1> QED
  BY <1>1, <1>2, <1>3, PerfectRiskScore, Zenon

LEMMA KnownSecurity ==
    ASSUME KnownIn("security", ReportChecks),
           NEW y \in Members(project), NEW d \in ExternalDeclarations(y)
    PROVE  AdvisoryCheck(y, d, OsvSnapshot) # "unknown"
<1> DEFINE o == OsvSnapshot
           state == AdvisoryCheck(y, d, o)
<1>1. PICK c : c = DependencyCheck(y, "security", "advisories", d, state, ObservedSeverity(y, d, o))
  OBVIOUS
<1>2. c \in ReportChecks
  BY <1>1, DeclarationChecks DEF ReportChecks
<1>3. c.category = "security" /\ c.state = state
  BY <1>1, DependencyCheckFields
<1> QED
  BY <1>2, <1>3 DEF KnownIn

LEMMA KnownDependencies ==
    ASSUME KnownIn("dependencies", ReportChecks),
           NEW y \in Members(project), NEW d \in ExternalDeclarations(y)
    PROVE  DeprecationCheck(y, d, Registry) # "unknown"
<1> DEFINE state == DeprecationCheck(y, d, Registry)
<1>1. PICK c : c = DependencyCheck(y, "dependencies", "deprecation", d, state, "none")
  OBVIOUS
<1>2. c \in ReportChecks
  BY <1>1, DeclarationChecks DEF ReportChecks
<1>3. c.category = "dependencies" /\ c.state = state
  BY <1>1, DependencyCheckFields
<1> QED
  BY <1>2, <1>3 DEF KnownIn

LEMMA PerfectSecurity ==
    ASSUME Scored("security", ReportChecks) = Available(100),
           NEW y \in Members(project), NEW d \in ExternalDeclarations(y)
    PROVE  /\ AdvisoryCheck(y, d, OsvSnapshot) # "unknown"
           /\ ObservedSeverity(y, d, OsvSnapshot) = "none"
<1> DEFINE o == OsvSnapshot
           state == AdvisoryCheck(y, d, o)
<1>1. PICK c : c = DependencyCheck(y, "security", "advisories", d, state, ObservedSeverity(y, d, o))
  OBVIOUS
<1>2. c \in ReportChecks
  BY <1>1, DeclarationChecks DEF ReportChecks
<1>3. /\ c.category = "security" /\ c.state = state /\ c.severity = ObservedSeverity(y, d, o)
  BY <1>1, DependencyCheckFields
<1>4. state # "not_applicable"
  BY AdvisoryStates
<1>5. "security" \in Ceiling
  BY DEF Ceiling
<1> QED
  BY <1>2, <1>3, <1>4, <1>5, PerfectScored

LEMMA PerfectDependencies ==
    ASSUME Scored("dependencies", ReportChecks) = Available(100),
           NEW y \in Members(project), NEW d \in ExternalDeclarations(y)
    PROVE  DeprecationCheck(y, d, Registry) = "pass"
<1> DEFINE state == DeprecationCheck(y, d, Registry)
<1>1. PICK c : c = DependencyCheck(y, "dependencies", "deprecation", d, state, "none")
  OBVIOUS
<1>2. c \in ReportChecks
  BY <1>1, DeclarationChecks DEF ReportChecks
<1>3. /\ c.category = "dependencies" /\ c.state = state
  BY <1>1, DependencyCheckFields
<1>4. state \in {"unknown", "fail", "pass"}
  BY DEF DeprecationCheck
<1>5. "dependencies" \in Ceiling
  BY DEF Ceiling
<1> QED
  BY <1>2, <1>3, <1>4, <1>5, PerfectScored

\* It is given only when every manifest was acquired and every link resolved.
LEMMA KnownKeeps ==
    ASSUME CollectedInv, at = "report", world.kind = "repository",
           NEW category \in Category, KnownIn(category, ReportChecks)
    PROVE  /\ AllKept(world.repository, project)
           /\ category \in {"dependencies", "security", "tooling"} =>
                 "workspace_dependency_unresolved" \notin WorkspaceIssues(project)
<1> DEFINE issues == WorkspaceIssues(project)
           root   == MemberAt(Members(project), Root)
<1>1. category \in {"dependencies", "security", "maintainability", "testing", "tooling"}
  BY DEF Category
<1>2. ASSUME NEW of, InspectionCheck(root, category, of, "unknown")
                        \in RootChecks(project, Members(project), issues)
      PROVE  FALSE
  <2>1. PICK c : c = InspectionCheck(root, category, of, "unknown")
    OBVIOUS
  <2>2. c \in ReportChecks
    BY <1>2, <2>1, AllChecks DEF ReportChecks
  <2>3. c.category = category /\ c.state = "unknown"
    BY <2>1, InspectionCheckFields
  <2> QED
    BY <2>2, <2>3 DEF KnownIn
<1>3. "workspace_manifest_unavailable" \notin issues /\ project.discovered
  <2>1. SUFFICES ASSUME "workspace_manifest_unavailable" \in issues \/ ~project.discovered
                 PROVE  InspectionCheck(root, category, "workspace.discovery", "unknown")
                           \in RootChecks(project, Members(project), issues)
    BY <1>2
  <2> HIDE DEF issues
  <2> QED
    BY <1>1, <2>1 DEF RootChecks
<1>4. ASSUME category \in {"dependencies", "security", "tooling"}
      PROVE  "workspace_dependency_unresolved" \notin issues
  <2>1. SUFFICES ASSUME "workspace_dependency_unresolved" \in issues
                 PROVE  InspectionCheck(root, category, "workspace.resolution", "unknown")
                           \in RootChecks(project, Members(project), issues)
    BY <1>2
  <2> HIDE DEF issues
  <2> QED
    BY <1>4, <2>1 DEF RootChecks
<1>5. world \in World /\ project = Acquired(world.repository, world.lost)
  BY ReportedRepository
<1>6. AllKept(world.repository, project)
  BY <1>3, <1>5, ManifestLost DEF AllKept
<1> QED
  BY <1>4, <1>6

\* Its declarations and versions are then the true ones.
LEMMA KnownVersions ==
    ASSUME CollectedInv, at = "report", world.kind = "repository",
           NEW category \in Ceiling, KnownIn(category, ReportChecks),
           NEW m \in Members(Truth), NEW d \in ExternalDeclarations(m)
    PROVE  \E y \in Members(project) :
              /\ d \in ExternalDeclarations(y)
              /\ Effective(y, d) # NoVersion => Effective(m, d) = Effective(y, d)
<1>1. /\ world \in World /\ Truth = world.repository
      /\ project = Acquired(world.repository, world.lost)
  BY ReportedRepository
<1>2. PICK n \in Manifests(world.repository) : m = Member(world.repository, n)
  BY <1>1 DEF Members
<1>3. category \in Category /\ category \in {"dependencies", "security", "tooling"}
  BY DEF Category, Ceiling
<1>4. /\ AllKept(world.repository, project)
      /\ "workspace_dependency_unresolved" \notin WorkspaceIssues(project)
  BY <1>3, KnownKeeps
<1>5. PICK z \in Manifests(project) : z.path = n.path
  BY <1>4 DEF AllKept
<1>6. d \in ExternalDeclarations(Member(project, z))
  BY <1>1, <1>2, <1>4, <1>5, ExternalStays
<1>7. ASSUME Effective(Member(project, z), d) # NoVersion
      PROVE  Effective(m, d) = Effective(Member(project, z), d)
  BY <1>1, <1>2, <1>4, <1>5, <1>7, KnownVersionIsTrue
<1>8. Member(project, z) \in Members(project)
  BY DEF Members
<1> QED
  BY <1>6, <1>7, <1>8

\* All OSV holds for an installed version is then in the report, rated none.
LEMMA KnownAdvisories ==
    ASSUME CollectedInv, at = "report", NEW y, NEW d,
           AdvisoryCheck(y, d, OsvSnapshot) # "unknown"
    PROVE  /\ OsvSnapshot.known /\ Effective(y, d) # NoVersion
           /\ Held(QueryOf(y, d)) \subseteq OsvSnapshot.records
           /\ Active(y, d, OsvSnapshot) = Held(QueryOf(y, d)) \ Withdrawn
           /\ \A a \in Held(QueryOf(y, d)) \ Withdrawn :
                 AdvisorySeverity(OsvSnapshot.records, a) # "unknown"
<1>1. PICK o : o = OsvSnapshot
  OBVIOUS
<1>2. SoundOsv(o)
  BY <1>1, OsvIsSound
<1>3. /\ o.known /\ Queries(o, d.name, Effective(y, d)) # {}
      /\ \A q \in Queries(o, d.name, Effective(y, d)) : q.complete
      /\ \A a \in Matches(o, d.name, Effective(y, d)) : a \in o.records
      /\ \A a \in Matches(o, d.name, Effective(y, d)) \ Withdrawn :
            AdvisorySeverity(o.records, a) # "unknown"
  BY <1>1, AdvisoryKnown
<1>4. PICK x : x \in Queries(o, d.name, Effective(y, d))
  BY <1>3
<1>5. \A q \in Queries(o, d.name, Effective(y, d)) : q.matches = Held(QueryOf(y, d))
  BY <1>1, <1>3, WholeAnswer
<1>6. Held(QueryOf(y, d)) = Matches(o, d.name, Effective(y, d))
  BY <1>4, <1>5 DEF Matches
<1>7. Effective(y, d) # NoVersion
  <2>1. x \in o.queries /\ x.version = Effective(y, d)
    BY <1>4 DEF Queries
  <2> QED
    BY <2>1, <1>2 DEF SoundOsv
<1>8. Active(y, d, o) = Held(QueryOf(y, d)) \ Withdrawn
  BY <1>3, <1>6 DEF Active
<1> QED
  BY <1>1, <1>3, <1>6, <1>7, <1>8

LEMMA PerfectlyRated ==
    ASSUME CollectedInv, at = "report", Scored("security", ReportChecks) = Available(100),
           NEW y \in Members(project), NEW d \in ExternalDeclarations(y)
    PROVE  \A a \in Held(QueryOf(y, d)) \ Withdrawn :
              AdvisorySeverity(OsvSnapshot.records, a) = "none"
<1>1. PICK o : o = OsvSnapshot
  OBVIOUS
<1>2. AdvisoryCheck(y, d, o) # "unknown" /\ ObservedSeverity(y, d, o) = "none"
  BY <1>1, PerfectSecurity
<1> SUFFICES ASSUME NEW a \in Held(QueryOf(y, d)) \ Withdrawn
             PROVE  AdvisorySeverity(o.records, a) = "none"
  BY <1>1
<1>3. PICK rating : rating = AdvisorySeverity(o.records, a)
  OBVIOUS
<1>4. a \in Active(y, d, o) /\ rating # "unknown"
  BY <1>1, <1>2, <1>3, KnownAdvisories
<1>5. Band(ObservedSeverity(y, d, o)) =< Band(rating)
  BY <1>3, <1>4, ObservedIs
<1>6. Band("none") =< Band(rating)
  BY <1>2, <1>5
<1>7. Band("none") = 100
  BY DEF Band
<1>8. rating \in Severity
  BY <1>3, <1>4, Severities DEF Severity
<1>9. Band(rating) \in {0, 40, 70, 90, 100}
  BY <1>8, BandValues
<1>10. Band(rating) = 100
  BY <1>6, <1>7, <1>9
<1> QED
  BY <1>3, <1>8, <1>10, BandValues

LEMMA TrueRecords ==
    ASSUME NEW a \in TrueOsv.records
    PROVE  \E m \in Members(Truth) : \E d \in ExternalDeclarations(m) :
              Effective(m, d) # NoVersion /\ a \in Held(QueryOf(m, d))
<1> DEFINE queries == {q \in ExactOsvQueries(Truth) : q.version # NoVersion}
<1>1. TrueOsv.records = UNION {UNION Range(PagesOf(queries)[q]) : q \in queries}
  BY DEF TrueOsv
<1>2. PICK q \in queries : a \in UNION Range(PagesOf(queries)[q])
  BY <1>1
<1>3. a \in Held(q)
  <2> HIDE DEF queries
  <2> QED
    BY <1>2, HeldIs
<1>4. q \in ExactOsvQueries(Truth) /\ q.version # NoVersion
  BY <1>2
<1>5. PICK m \in Members(Truth) : \E b \in DependencyFactBases(m) :
         q = [name |-> b.name, version |-> Effective(m, b)]
  BY <1>4 DEF ExactOsvQueries
<1>6. PICK b \in DependencyFactBases(m) : q = [name |-> b.name, version |-> Effective(m, b)]
  BY <1>5
<1>7. PICK d \in ExternalDeclarations(m) : b = Basis(d)
  BY <1>6, BasesAre
<1>8. b.name = d.name /\ Effective(m, b) = Effective(m, d)
  BY <1>7, BasisIs
<1>9. q = QueryOf(m, d)
  BY <1>6, <1>8 DEF QueryOf
<1> QED
  BY <1>3, <1>4, <1>6, <1>8, <1>9

\* A registry answer that has versions is the whole truth about the package.
LEMMA AnswerIsTrue ==
    ASSUME CollectedInv, NEW n \in DOMAIN world.registry, NEW v \in Registry[n].versions
    PROVE  n \in DOMAIN npm.answers /\ Registry[n] = world.registry[n]
<1>1. NoAnswer.versions = {}
  BY DEF NoAnswer
<1>2. Registry[n] = IF n \in DOMAIN npm.answers THEN npm.answers[n] ELSE NoAnswer
  BY DEF Registry
<1>3. n \in DOMAIN npm.answers
  BY <1>1, <1>2
<1>4. npm.answers[n] \in {NoAnswer, ParseNpmPackageMetadata(world.registry[n])}
  BY <1>3 DEF CollectedInv, FlowInv
<1>5. ParseNpmPackageMetadata(world.registry[n]) \in {NoAnswer, world.registry[n]}
  BY DEF ParseNpmPackageMetadata
<1> QED
  BY <1>1, <1>2, <1>3, <1>4, <1>5

LEMMA DeprecationKnown ==
    ASSUME NEW y, NEW d, NEW registry, DeprecationCheck(y, d, registry) # "unknown"
    PROVE  /\ Effective(y, d) # NoVersion
           /\ Effective(y, d) \in registry[d.name].versions
           /\ DeprecationCheck(y, d, registry) = "fail"
                 <=> Effective(y, d) \in registry[d.name].deprecated
  BY DEF DeprecationCheck

LEMMA PassIs ==
    ASSUME NEW y, NEW d, NEW registry, DeprecationCheck(y, d, registry) = "pass"
    PROVE  /\ Effective(y, d) # NoVersion
           /\ Effective(y, d) \in registry[d.name].versions
           /\ Effective(y, d) \notin registry[d.name].deprecated
  BY DEF DeprecationCheck

LEMMA RegistryCovers ==
    ASSUME NEW w \in World,
           NEW m \in Manifests(w.repository), NEW d \in Declarations(w.repository, m)
    PROVE  d.name \in DOMAIN w.registry
<1>1. m \in w.repository.manifests
  BY RepositoryOnce, ManifestsExist
<1>2. PICK e \in m.raw : d = Declared(w.repository, e, m.path)
  BY DeclarationsAre
<1>3. d.name = e.name
  BY <1>2, DeclaredFields
<1>4. \A x \in w.repository.manifests : \A e1 \in x.raw : e1.name \in DOMAIN w.registry
  BY WorldAssumption
<1> QED
  BY <1>1, <1>3, <1>4

LEMMA ManifestCovers ==
    ASSUME NEW w \in World, NEW s, s = ManifestOnly(w.repository),
           NEW y \in Members(s), NEW d \in ExternalDeclarations(y)
    PROVE  d.name \in DOMAIN w.registry
<1>1. PICK r : r = RootManifest(w.repository)
  OBVIOUS
<1>2. r \in w.repository.manifests /\ r.path = Root /\ IsManifest(r)
  BY <1>1, RepositoryOnce, RootIsOne, WorldAssumption DEF IsSnapshot
<1>3. PICK z : z = [r EXCEPT !.files = {}, !.uses = {}]
  OBVIOUS
<1>4. z.path = Root /\ z.raw = r.raw
  BY <1>2, <1>3 DEF IsManifest
<1>5. s.manifests = {z}
  BY <1>1, <1>3, ManifestFields
<1>6. OnePerPath(s)
  BY <1>4, <1>5 DEF OnePerPath
<1>7. PICK n \in Manifests(s) : y = Member(s, n)
  BY DEF Members
<1>8. n = z
  BY <1>5, <1>6, <1>7, ManifestsExist
<1>9. d \in Declarations(s, z)
  BY <1>7, <1>8, MemberFields DEF ExternalDeclarations
<1>10. PICK e \in z.raw : d = Declared(s, e, z.path)
  BY <1>9, DeclarationsAre
<1>11. d.name = e.name /\ e \in r.raw
  BY <1>4, <1>10, DeclaredFields
<1>12. \A x \in w.repository.manifests : \A e1 \in x.raw : e1.name \in DOMAIN w.registry
  BY WorldAssumption
<1> QED
  BY <1>2, <1>11, <1>12

LEMMA TrueDeclarationsCovered ==
    ASSUME CollectedInv, at = "report",
           NEW m \in Members(Truth), NEW d \in ExternalDeclarations(m)
    PROVE  d.name \in DOMAIN world.registry
<1>1. world \in World
  BY ReportedProject DEF CollectedInv
<1>2. CASE world.kind = "repository"
  <2>1. Truth = world.repository
    BY <1>2 DEF Truth
  <2>2. PICK n \in Manifests(world.repository) : m = Member(world.repository, n)
    BY <2>1 DEF Members
  <2>3. d \in Declarations(world.repository, n)
    BY <2>2, MemberFields DEF ExternalDeclarations
  <2> QED
    BY <1>1, <2>3, RegistryCovers
<1>3. CASE world.kind # "repository"
  <2>1. Truth = ManifestOnly(world.repository)
    BY <1>3 DEF Truth
  <2> QED
    BY <1>1, <2>1, ManifestCovers
<1> QED
  BY <1>2, <1>3

\* A manifest alone that declares anything has neither score.
LEMMA ManifestIsUnknown ==
    ASSUME CollectedInv, at = "report", world.kind # "repository",
           NEW y \in Members(project), NEW d \in ExternalDeclarations(y)
    PROVE  ~KnownIn("security", ReportChecks) /\ ~KnownIn("dependencies", ReportChecks)
<1>1. Truth = project /\ npm.answers = <<>> /\ osv = OsvIdle
  BY ReportedProject DEF CollectedInv
<1>2. ASSUME KnownIn("security", ReportChecks)
      PROVE  FALSE
  <2>1. OsvSnapshot.known
    BY <1>2, KnownSecurity, KnownAdvisories
  <2>2. osv.stage # "available"
    BY <1>1 DEF OsvIdle
  <2> QED
    BY <2>1, <2>2, OsvFields
<1>3. ASSUME KnownIn("dependencies", ReportChecks)
      PROVE  FALSE
  <2>1. DeprecationCheck(y, d, Registry) # "unknown"
    BY <1>3, KnownDependencies
  <2>2. Effective(y, d) \in Registry[d.name].versions
    BY <2>1, DeprecationKnown
  <2>3. d.name \in DOMAIN npm.answers
    BY <1>1, <2>2, TrueDeclarationsCovered, AnswerIsTrue
  <2>4. DOMAIN npm.answers = {}
    BY <1>1
  <2> QED
    BY <2>3, <2>4
<1> QED
  BY <1>2, <1>3

LEMMA TrueRecordsKnown ==
    ASSUME CollectedInv, at = "report", world.kind = "repository",
           KnownIn("security", ReportChecks)
    PROVE  TrueOsv.records \subseteq OsvSnapshot.records
<1> SUFFICES ASSUME NEW a \in TrueOsv.records
             PROVE  a \in OsvSnapshot.records
  OBVIOUS
<1>1. PICK m \in Members(Truth) : \E d \in ExternalDeclarations(m) :
         Effective(m, d) # NoVersion /\ a \in Held(QueryOf(m, d))
  BY TrueRecords
<1>2. PICK d \in ExternalDeclarations(m) : a \in Held(QueryOf(m, d))
  BY <1>1
<1>3. "security" \in Ceiling
  BY DEF Ceiling
<1>4. PICK y \in Members(project) :
         /\ d \in ExternalDeclarations(y)
         /\ Effective(y, d) # NoVersion => Effective(m, d) = Effective(y, d)
  BY <1>3, KnownVersions
<1>5. /\ Effective(y, d) # NoVersion
      /\ Held(QueryOf(y, d)) \subseteq OsvSnapshot.records
  BY <1>4, KnownSecurity, KnownAdvisories
<1>6. QueryOf(y, d) = QueryOf(m, d)
  BY <1>4, <1>5 DEF QueryOf
<1> QED
  BY <1>2, <1>5, <1>6

\* A security or dependency score of 100 is given only to a project in which every
\* installed version is known, without an advisory rated above none and not
\* deprecated (workspace-inspection.ts, stack-health-scorer.ts): whatever call
\* failed, whatever limit was reached and whatever evidence was lost.
THEOREM PerfectScoresAreEarned == Spec => []PerfectScoreIsEarned
<1>1. CollectedInv => PerfectScoreIsEarned
  <2> SUFFICES ASSUME CollectedInv, at = "report",
                      NEW m \in Members(Truth), NEW d \in ExternalDeclarations(m)
               PROVE  /\ Report.scores.categories.security = Available(100) =>
                            /\ Effective(m, d) # NoVersion
                            /\ \A a \in TrueAdvisories(m, d) :
                                  AdvisorySeverity(TrueOsv.records \cup OsvSnapshot.records, a)
                                     = "none"
                      /\ Report.scores.categories.dependencies = Available(100) =>
                            Effective(m, d) \notin world.registry[d.name].deprecated
    BY DEF PerfectScoreIsEarned, Deserved
  <2>1. /\ Report.scores.categories.security = Scored("security", ReportChecks)
        /\ Report.scores.categories.dependencies = Scored("dependencies", ReportChecks)
    BY ScoresAre DEF Category
  <2>2. CASE world.kind # "repository"
    <3>1. m \in Members(project)
      BY <2>2, ReportedProject DEF CollectedInv
    <3>2. ~KnownIn("security", ReportChecks) /\ ~KnownIn("dependencies", ReportChecks)
      BY <2>2, <3>1, ManifestIsUnknown
    <3> QED
      BY <2>1, <3>2, KnownWhenScored, AvailableIs
  <2>3. CASE world.kind = "repository"
    <3>1. /\ "security" \in Ceiling /\ "dependencies" \in Ceiling
          /\ Available(100).status = "available"
      BY AvailableIs DEF Ceiling
    <3>2. ASSUME Scored("security", ReportChecks) = Available(100)
          PROVE  /\ Effective(m, d) # NoVersion
                 /\ \A a \in TrueAdvisories(m, d) :
                       AdvisorySeverity(TrueOsv.records \cup OsvSnapshot.records, a) = "none"
      <4>1. KnownIn("security", ReportChecks)
        BY <3>1, <3>2, KnownWhenScored
      <4>2. PICK y \in Members(project) :
               /\ d \in ExternalDeclarations(y)
               /\ Effective(y, d) # NoVersion => Effective(m, d) = Effective(y, d)
        BY <2>3, <3>1, <4>1, KnownVersions
      <4>3. /\ Effective(y, d) # NoVersion
            /\ \A a \in Held(QueryOf(y, d)) \ Withdrawn :
                  AdvisorySeverity(OsvSnapshot.records, a) = "none"
        BY <3>2, <4>1, <4>2, PerfectlyRated, KnownSecurity, KnownAdvisories
      <4>4. QueryOf(y, d) = QueryOf(m, d)
        BY <4>2, <4>3 DEF QueryOf
      <4>5. TrueOsv.records \cup OsvSnapshot.records = OsvSnapshot.records
        BY <2>3, <4>1, TrueRecordsKnown
      <4> QED
        BY <4>2, <4>3, <4>4, <4>5, TrueAdvisoriesAre
    <3>3. ASSUME Scored("dependencies", ReportChecks) = Available(100)
          PROVE  Effective(m, d) \notin world.registry[d.name].deprecated
      <4>1. KnownIn("dependencies", ReportChecks)
        BY <3>1, <3>3, KnownWhenScored
      <4>2. PICK y \in Members(project) :
               /\ d \in ExternalDeclarations(y)
               /\ Effective(y, d) # NoVersion => Effective(m, d) = Effective(y, d)
        BY <2>3, <3>1, <4>1, KnownVersions
      <4>3. DeprecationCheck(y, d, Registry) = "pass"
        BY <3>3, <4>2, PerfectDependencies
      <4>4. /\ Effective(y, d) # NoVersion
            /\ Effective(y, d) \in Registry[d.name].versions
            /\ Effective(y, d) \notin Registry[d.name].deprecated
        BY <4>3, PassIs
      <4>5. Registry[d.name] = world.registry[d.name]
        BY <4>4, TrueDeclarationsCovered, AnswerIsTrue
      <4> QED
        BY <4>2, <4>4, <4>5
    <3> QED
      BY <2>1, <3>2, <3>3
  <2> QED
    BY <2>2, <2>3
<1> QED
  BY <1>1, AlwaysCollected, PTL

-----------------------------------------------------------------------------
(* Members that differ in nothing a script can meet are traced alike. *)

LEMMA SameReached ==
    ASSUME NEW some, NEW more, NEW start, NEW n,
           \A x : Delegated(some, x) = Delegated(more, x)
    PROVE  Reached(some, start, n) = Reached(more, start, n)
<1> DEFINE next(members, before) == before \cup UNION {Delegated(members, x) : x \in before}
           body(members, f) == [i \in 0..n |-> IF i = 0 THEN start ELSE next(members, f[i - 1])]
<1>1. \A before : next(some, before) = next(more, before)
  OBVIOUS
<1>2. /\ Reached(some, start, n) = (CHOOSE f : f = body(some, f))[n]
      /\ Reached(more, start, n) = (CHOOSE f : f = body(more, f))[n]
  BY DEF Reached
<1> HIDE DEF next
<1>3. \A f : body(some, f) = body(more, f)
  BY <1>1
<1> HIDE DEF body
<1>4. (CHOOSE f : f = body(some, f)) = (CHOOSE f : f = body(more, f))
  BY <1>3
<1> QED
  BY <1>2, <1>4

ToolNames(m) == {d.name : d \in {x \in m.declarations : x.group # PeerGroup}}

Twins(m, n) == m.path = n.path /\ m.scripts = n.scripts /\ ToolNames(m) = ToolNames(n)

Alike(some, more) ==
    /\ \A m \in some : \E n \in more : Twins(m, n)
    /\ \A n \in more : \E m \in some : Twins(m, n)

LEMMA AlikeBothWays ==
    ASSUME NEW some, NEW more, Alike(some, more)
    PROVE  Alike(more, some)
<1>1. \A m, n : Twins(m, n) => Twins(n, m)
  BY DEF Twins
<1> QED
  BY <1>1 DEF Alike

LEMMA ToolsGrow ==
    ASSUME NEW some, NEW more, Alike(some, more), NEW path, NEW package,
           DeclaredTool(some, path, package)
    PROVE  DeclaredTool(more, path, package)
<1>1. PICK m \in some :
         /\ m.path \in {path, Root}
         /\ \E d \in m.declarations : d.name = package /\ d.group # PeerGroup
  BY DEF DeclaredTool
<1>2. PICK n \in more : Twins(m, n)
  BY <1>1 DEF Alike
<1>3. package \in ToolNames(m)
  BY <1>1 DEF ToolNames
<1>4. package \in ToolNames(n) /\ n.path = m.path
  BY <1>2, <1>3 DEF Twins
<1>5. \E d \in n.declarations : d.name = package /\ d.group # PeerGroup
  BY <1>4 DEF ToolNames
<1> QED
  BY <1>1, <1>4, <1>5 DEF DeclaredTool

LEMMA ScriptsGrow ==
    ASSUME NEW some, NEW more, Alike(some, more), NEW x
    PROVE  ScriptsAt(some, x) \subseteq ScriptsAt(more, x)
<1> SUFFICES ASSUME NEW e \in ScriptsAt(some, x) PROVE e \in ScriptsAt(more, x)
  OBVIOUS
<1>1. PICK m \in some : m.path = x[1] /\ e \in ScriptsNamed(m, x[2])
  BY DEF ScriptsAt
<1>2. PICK n \in more : Twins(m, n)
  BY <1>1 DEF Alike
<1>3. n.path = x[1] /\ e \in ScriptsNamed(n, x[2])
  BY <1>1, <1>2 DEF Twins, ScriptsNamed
<1> QED
  BY <1>3 DEF ScriptsAt

LEMMA SameScripts ==
    ASSUME NEW some, NEW more, Alike(some, more)
    PROVE  /\ \A x : ScriptsAt(some, x) = ScriptsAt(more, x)
           /\ \A x : CommandsAt(some, x) = CommandsAt(more, x)
           /\ \A x : Delegated(some, x) = Delegated(more, x)
           /\ \A x : ScriptUnresolved(some, x) <=> ScriptUnresolved(more, x)
           /\ \A x, c : CommandUnresolved(some, x, c) <=> CommandUnresolved(more, x, c)
<1>1. ASSUME NEW x PROVE ScriptsAt(some, x) = ScriptsAt(more, x)
  <2>1. ScriptsAt(some, x) \subseteq ScriptsAt(more, x)
    BY ScriptsGrow
  <2>2. ScriptsAt(more, x) \subseteq ScriptsAt(some, x)
    BY ScriptsGrow, AlikeBothWays
  <2> QED
    BY <2>1, <2>2
<1>2. ASSUME NEW x PROVE CommandsAt(some, x) = CommandsAt(more, x)
  BY <1>1 DEF CommandsAt
<1>3. {m.path : m \in some} = {m.path : m \in more}
  BY DEF Alike, Twins
<1>4. ASSUME NEW x PROVE Delegated(some, x) = Delegated(more, x)
  BY <1>2, <1>3 DEF Delegated
<1>5. ASSUME NEW path, NEW tool
      PROVE  RunnerDeclared(some, path, tool) <=> RunnerDeclared(more, path, tool)
  BY ToolsGrow, AlikeBothWays DEF RunnerDeclared
<1>6. ASSUME NEW x, NEW c
      PROVE  CommandUnresolved(some, x, c) <=> CommandUnresolved(more, x, c)
  BY <1>5 DEF CommandUnresolved
<1>7. ASSUME NEW x PROVE ScriptUnresolved(some, x) <=> ScriptUnresolved(more, x)
  BY <1>1, <1>2, <1>6 DEF ScriptUnresolved
<1> QED
  BY <1>1, <1>2, <1>4, <1>6, <1>7

LEMMA SameVisits ==
    ASSUME NEW some, NEW more, Alike(some, more)
    PROVE  /\ \A start : Visited(some, start) = Visited(more, start)
           /\ \A start : CycleOrBound(some, start) <=> CycleOrBound(more, start)
<1>1. \A x : Delegated(some, x) = Delegated(more, x)
  BY SameScripts
<1>2. \A start, n : Reached(some, start, n) = Reached(more, start, n)
  BY <1>1, SameReached
<1>3. ScriptCount(some) = ScriptCount(more)
  <2>1. UNION {{m.path} \X m.scripts : m \in some} = UNION {{m.path} \X m.scripts : m \in more}
    BY DEF Alike, Twins
  <2> QED
    BY <2>1 DEF ScriptCount
<1>4. \A start : Visited(some, start) = Visited(more, start)
  BY <1>2, <1>3 DEF Visited
<1> QED
  BY <1>1, <1>2, <1>4 DEF CycleOrBound

LEMMA SameTrace ==
    ASSUME NEW some, NEW more, Alike(some, more), NEW m, NEW n, Twins(m, n), NEW purpose
    PROVE  TraceScripts(some, m, purpose) = TraceScripts(more, n, purpose)
<1> DEFINE start(k)   == {<<k.path, s.name>> : s \in SelectedScripts(k, purpose)}
           found(M, V) == Executions(M, V)
           state(M, S, V) == IF \/ CycleOrBound(M, S)
                                \/ \E x \in V : ScriptUnresolved(M, x)
                             THEN "unknown"
                             ELSE IF \E e \in found(M, V) : Purpose(e.tool) = purpose
                                  THEN "pass" ELSE "fail"
<1>1. /\ TraceScripts(some, m, purpose) =
            [executions |-> found(some, Visited(some, start(m))),
             state |-> state(some, start(m), Visited(some, start(m)))]
      /\ TraceScripts(more, n, purpose) =
            [executions |-> found(more, Visited(more, start(n))),
             state |-> state(more, start(n), Visited(more, start(n)))]
  BY DEF TraceScripts
<1>2. start(m) = start(n)
  <2>1. SelectedScripts(m, purpose) = SelectedScripts(n, purpose)
    BY DEF SelectedScripts, Twins
  <2> QED
    BY <2>1 DEF Twins
<1>3. PICK first : first = start(m)
  OBVIOUS
<1>4. PICK visited : visited = Visited(some, first)
  OBVIOUS
<1>5. visited = Visited(more, first)
  BY <1>4, SameVisits
<1>6. found(some, visited) = found(more, visited)
  BY SameScripts DEF Executions
<1>7. \A x : ScriptUnresolved(some, x) <=> ScriptUnresolved(more, x)
  BY SameScripts
<1>8. CycleOrBound(some, first) <=> CycleOrBound(more, first)
  BY SameVisits
<1> HIDE DEF found, start
<1>9. state(some, first, visited) = state(more, first, visited)
  BY <1>6, <1>7, <1>8
<1> HIDE DEF state
<1> QED
  BY <1>1, <1>2, <1>3, <1>4, <1>5, <1>6, <1>9

\* A member without scripts runs nothing.
LEMMA NothingReached ==
    ASSUME NEW members, NEW n \in Nat
    PROVE  Reached(members, {}, n) = {}
<1> DEFINE next(before) == before \cup UNION {Delegated(members, x) : x \in before}
           body(f) == [i \in 0..n |-> IF i = 0 THEN {} ELSE next(f[i - 1])]
           none == [i \in 0..n |-> {}]
           reach == CHOOSE f : f = body(f)
<1>1. next({}) = {}
  OBVIOUS
<1>2. Reached(members, {}, n) = reach[n]
  BY DEF Reached
<1> HIDE DEF next
<1>3. none = body(none)
  <2>1. \A i \in 0..n : (IF i = 0 THEN {} ELSE next(none[i - 1])) = {}
    BY <1>1
  <2> QED
    BY <2>1
<1>4. reach = body(reach)
  <2> HIDE DEF body, none
  <2> QED
    BY <1>3
<1> HIDE DEF reach
<1>5. \A i \in 0..n : reach[i] = IF i = 0 THEN {} ELSE next(reach[i - 1])
  BY <1>4
<1> DEFINE bad == {i \in 0..n : reach[i] # {}}
<1>6. ASSUME bad # {} PROVE FALSE
  <2>1. PICK k \in bad : \A j \in bad : ~ (<<j, k>> \in OpToRel(<, Nat))
    <3>1. bad \subseteq Nat
      OBVIOUS
    <3> HIDE DEF bad
    <3> QED
      BY <1>6, <3>1, WFMin, NatLessThanWellFounded
  <2>2. k \in 0..n /\ reach[k] # {}
    BY <2>1
  <2>3. k # 0
    BY <1>5, <2>2
  <2>4. k - 1 \in 0..n /\ k - 1 \in Nat /\ k \in Nat /\ k - 1 < k
    BY <2>2, <2>3
  <2>5. k - 1 \notin bad
    <3>1. <<k - 1, k>> \in OpToRel(<, Nat)
      BY <2>4 DEF OpToRel
    <3> QED
      BY <2>1, <3>1
  <2>6. reach[k - 1] = {}
    BY <2>4, <2>5
  <2> QED
    BY <1>1, <1>5, <2>2, <2>3, <2>6
<1>7. n \in 0..n
  OBVIOUS
<1> QED
  BY <1>2, <1>6, <1>7

LEMMA NothingRun ==
    ASSUME NEW members, ScriptCount(members) \in Nat, NEW m, m.scripts = {}, NEW purpose
    PROVE  TraceScripts(members, m, purpose).executions = {}
<1>1. SelectedScripts(m, purpose) = {}
  BY DEF SelectedScripts
<1>2. {<<m.path, s.name>> : s \in SelectedScripts(m, purpose)} = {}
  BY <1>1
<1>3. Visited(members, {}) = {}
  BY NothingReached DEF Visited
<1>4. Executions(members, {}) = {}
  BY DEF Executions
<1>5. TraceScripts(members, m, purpose).executions
         = Executions(members, Visited(members, {<<m.path, s.name>> : s \in SelectedScripts(m, purpose)}))
  BY DEF TraceScripts
<1> QED
  BY <1>2, <1>3, <1>4, <1>5

LEMMA FiniteScripts ==
    ASSUME NEW w \in World, NEW s, s = Acquired(w.repository, w.lost)
    PROVE  ScriptCount(Members(s)) \in Nat
<1> DEFINE members == Members(s)
           f       == [m \in members |-> {m.path} \X m.scripts]
           T       == {{m.path} \X m.scripts : m \in members}
<1>1. IsFiniteSet(members)
  BY FiniteMembers
<1>2. IsFiniteSet(T)
  <2>1. DOMAIN f = members /\ T = {f[m] : m \in DOMAIN f} /\ f = [m \in DOMAIN f |-> f[m]]
    OBVIOUS
  <2> HIDE DEF f, T, members
  <2> QED
    BY <1>1, <2>1, FiniteValues
<1>3. ASSUME NEW m \in members PROVE IsFiniteSet({m.path} \X m.scripts)
  <2>1. PICK y \in Manifests(s) : m = Member(s, y)
    BY DEF Members
  <2>2. y \in s.manifests
    BY <2>1, AcquiredOnce, ManifestsExist
  <2>3. PICK n \in w.repository.manifests : y = AcquiredManifest(n, w.lost)
    BY <2>2, AcquiredOnce
  <2>4. IsManifest(n) /\ IsFiniteSet(n.scripts)
    BY WorldAssumption DEF IsSnapshot
  <2>5. y.scripts = n.scripts
    BY <2>3, <2>4, AcquiredManifestFields
  <2>6. m.scripts = n.scripts
    BY <2>1, <2>5, MemberFields
  <2>7. IsFiniteSet({m.path})
    BY FS_Singleton
  <2> QED
    BY <2>4, <2>6, <2>7, FS_Product
<1>4. \A x \in T : IsFiniteSet(x)
  BY <1>3
<1>5. IsFiniteSet(UNION T)
  <2> HIDE DEF T
  <2> QED
    BY <1>2, <1>4, FS_UNION
<1>6. ScriptCount(members) = Cardinality(UNION T)
  BY DEF ScriptCount
<1> QED
  BY <1>5, <1>6, FS_CardinalityType

-----------------------------------------------------------------------------
(* The safeguards of a member, seen in part or in whole. *)

Telling == {"lint_config", "noCheck", "extends_package"} \cup Config

\* The same member, of which some files may not have been acquired.
Kin(x, m) ==
    /\ Twins(x, m) /\ x.role = m.role /\ x.files \subseteq m.files
    /\ \A k \in Telling : k \in m.files => k \in x.files

\* What is the same of two snapshots, one of them whole.
Seen(s, some, r, more) ==
    /\ s.known = TRUE /\ r.known = TRUE /\ r.complete = TRUE
    /\ Alike(some, more) /\ ScriptCount(some) \in Nat

LEMMA ToolsSame ==
    ASSUME NEW s, NEW some, NEW r, NEW more, Seen(s, some, r, more), NEW x, NEW m, Kin(x, m)
    PROVE  /\ \A purpose : TraceScripts(some, x, purpose) = TraceScripts(more, m, purpose)
           /\ \A tool : DeclaredTool(some, x.path, tool) <=> DeclaredTool(more, m.path, tool)
<1>1. Alike(some, more) /\ Alike(more, some) /\ Twins(x, m) /\ x.path = m.path
  BY AlikeBothWays DEF Seen, Kin, Twins
<1>2. \A purpose : TraceScripts(some, x, purpose) = TraceScripts(more, m, purpose)
  BY <1>1, SameTrace
<1>3. \A tool : DeclaredTool(some, x.path, tool) <=> DeclaredTool(more, x.path, tool)
  BY <1>1, ToolsGrow
<1> QED
  BY <1>1, <1>2, <1>3

LEMMA LintSame ==
    ASSUME NEW s, NEW some, NEW r, NEW more, Seen(s, some, r, more), NEW x, NEW m, Kin(x, m),
           Applicable(s, x) <=> Applicable(r, m)
    PROVE  LintCheck(s, some, x) = LintCheck(r, more, m)
<1>1. PICK lint : lint = TraceScripts(some, x, "lint").state
  OBVIOUS
<1>2. lint = TraceScripts(more, m, "lint").state
  BY <1>1, ToolsSame
<1>3. "lint_config" \in x.files <=> "lint_config" \in m.files
  BY DEF Kin, Telling
<1>4. \A tool : DeclaredTool(some, x.path, tool) <=> DeclaredTool(more, m.path, tool)
  BY ToolsSame
<1>5. s.known = TRUE /\ r.known = TRUE
  BY DEF Seen
<1>6. LintCheck(s, some, x) =
         IF ~Applicable(s, x) THEN "not_applicable"
         ELSE IF /\ "lint_config" \in x.files
                 /\ \E tool \in LintTool : DeclaredTool(some, x.path, tool)
              THEN "pass" ELSE lint
  BY <1>1, <1>5 DEF LintCheck
<1>7. LintCheck(r, more, m) =
         IF ~Applicable(r, m) THEN "not_applicable"
         ELSE IF /\ "lint_config" \in m.files
                 /\ \E tool \in LintTool : DeclaredTool(more, m.path, tool)
              THEN "pass" ELSE lint
  BY <1>2, <1>5 DEF LintCheck
<1> QED
  BY <1>3, <1>4, <1>6, <1>7

TypesFound(trace, m) ==
    \/ m.files \cap {"ts", "node_ts_test"} # {}
    \/ \E e \in trace.executions : "checkJs" \in e.arguments

\* Without the whole source a member is taken to have some.
LEMMA MaintenanceSame ==
    ASSUME NEW s, NEW some, NEW r, NEW more, Seen(s, some, r, more), NEW x, NEW m, Kin(x, m),
           s.complete => x.files = m.files,
           TypeCheck(s, some, x) # "unknown"
    PROVE  /\ LintCheck(s, some, x) = LintCheck(r, more, m)
           /\ TypeCheck(s, some, x) = TypeCheck(r, more, m)
<1>1. PICK trace : trace = TraceScripts(some, x, "typecheck")
  OBVIOUS
<1>2. trace = TraceScripts(more, m, "typecheck")
  BY <1>1, ToolsSame
<1>3. s.known = TRUE /\ r.known = TRUE /\ r.complete = TRUE
  BY DEF Seen
<1>4. TypeCheck(s, some, x) =
         IF ~Applicable(s, x) \/ (~TypesFound(trace, x) /\ s.complete) THEN "not_applicable"
         ELSE IF \/ ~TypesFound(trace, x) \/ "noCheck" \in x.files
                 \/ trace.state = "pass" /\ "extends_package" \in x.files
         THEN "unknown" ELSE trace.state
  BY <1>1, <1>3 DEF TypeCheck, TypesFound
<1>5. TypeCheck(r, more, m) =
         IF ~Applicable(r, m) \/ ~TypesFound(trace, m) THEN "not_applicable"
         ELSE IF \/ ~TypesFound(trace, m) \/ "noCheck" \in m.files
                 \/ trace.state = "pass" /\ "extends_package" \in m.files
         THEN "unknown" ELSE trace.state
  BY <1>2, <1>3 DEF TypeCheck, TypesFound
<1>6. /\ "noCheck" \in x.files <=> "noCheck" \in m.files
      /\ "extends_package" \in x.files <=> "extends_package" \in m.files
  BY DEF Kin, Telling
<1>7. SUFFICES /\ Applicable(s, x) <=> Applicable(r, m)
               /\ Applicable(s, x) => (TypesFound(trace, x) <=> TypesFound(trace, m))
               /\ Applicable(s, x) => TypesFound(trace, x) \/ s.complete
  <2>1. LintCheck(s, some, x) = LintCheck(r, more, m)
    BY <1>7, LintSame
  <2>2. TypeCheck(s, some, x) = TypeCheck(r, more, m)
    BY <1>4, <1>5, <1>6, <1>7
  <2> QED
    BY <2>1, <2>2
<1>8. x.role = m.role /\ x.scripts = m.scripts /\ x.files \subseteq m.files
  BY DEF Kin, Twins
<1>9. CASE s.complete
  <2>1. x.files = m.files
    BY <1>9
  <2>2. Applicable(s, x) <=> Applicable(r, m)
    BY <1>3, <1>8, <1>9, <2>1 DEF Applicable
  <2>3. TypesFound(trace, x) <=> TypesFound(trace, m)
    BY <2>1 DEF TypesFound
  <2> QED
    BY <1>9, <2>2, <2>3
<1>10. CASE ~s.complete /\ x.role = "orchestrator"
  BY <1>8, <1>10 DEF Applicable
<1>11. CASE ~s.complete /\ x.role # "orchestrator"
  <2>1. Applicable(s, x)
    BY <1>11 DEF Applicable
  <2>2. TypesFound(trace, x)
    BY <1>4, <1>11, <2>1
  <2>3. TypesFound(trace, m)
    BY <1>8, <2>2 DEF TypesFound
  <2>4. CASE x.files \cap {"ts", "node_ts_test"} # {}
    <3>1. m.files \cap CodeFile # {}
      BY <1>8, <2>4 DEF CodeFile, OwnSource
    <3> QED
      BY <1>8, <1>11, <2>1, <2>2, <2>3, <3>1 DEF Applicable
  <2>5. CASE \E e \in trace.executions : "checkJs" \in e.arguments
    <3>1. x.scripts # {}
      BY <1>1, <2>5, NothingRun DEF Seen
    <3> QED
      BY <1>8, <1>11, <2>1, <2>2, <2>3, <3>1 DEF Applicable
  <2> QED
    BY <2>2, <2>4, <2>5 DEF TypesFound
<1> QED
  BY <1>9, <1>10, <1>11

\* What a runner finds in part of the files it finds in all of them.
LEMMA TestFilesStay ==
    ASSUME NEW s, NEW r, NEW x, NEW m, Kin(x, m), NEW executions,
           ~s.complete, TestFileState(s, x, executions) # "unknown"
    PROVE  /\ TestFileState(s, x, executions) = "pass"
           /\ TestFileState(r, m, executions) = "pass"
           /\ m.files \cap CodeFile # {}
<1> DEFINE runners == {e.tool : e \in executions}
           blocked(y) == \/ Cardinality(runners) > 1
                         \/ \E e \in executions :
                               \/ e.path # y.path
                               \/ e.tool \notin {"vitest", "jest", NodeTest, "playwright"}
                               \/ "selecting" \in e.arguments
           state(y, absent) ==
              IF blocked(y) THEN "unknown"
              ELSE IF runners = {NodeTest} THEN NodeTestState(y, absent)
              ELSE IF ConfigurationUnknown(y, runners) THEN "unknown"
              ELSE IF MatchingTests(y) # {} THEN "pass"
              ELSE absent
<1>1. /\ TestFileState(s, x, executions) = state(x, "unknown")
      /\ TestFileState(r, m, executions) = state(m, IF r.complete THEN "fail" ELSE "unknown")
  BY DEF TestFileState
<1>2. x.path = m.path /\ x.files \subseteq m.files
  BY DEF Kin, Twins
<1>3. blocked(x) <=> blocked(m)
  BY <1>2
<1>4. \A k \in Config : k \in x.files <=> k \in m.files
  BY DEF Kin, Telling
<1>5. ~blocked(x)
  BY <1>1
<1> HIDE DEF blocked
<1>6. CASE runners = {NodeTest}
  <2>1. "node_test" \in x.files
    BY <1>1, <1>5, <1>6 DEF NodeTestState
  <2>2. "node_test" \in m.files
    BY <1>2, <2>1
  <2>3. state(x, "unknown") = "pass" /\ state(m, IF r.complete THEN "fail" ELSE "unknown") = "pass"
    BY <1>3, <1>5, <1>6, <2>1, <2>2 DEF NodeTestState
  <2> QED
    BY <1>1, <2>2, <2>3 DEF CodeFile
<1>7. CASE runners # {NodeTest}
  <2>1. ~ConfigurationUnknown(x, runners) /\ MatchingTests(x) # {}
    BY <1>1, <1>5, <1>7
  <2>2. ~ConfigurationUnknown(m, runners)
    BY <1>4, <2>1 DEF ConfigurationUnknown, Config
  <2>3. MatchingTests(m) # {} /\ m.files \cap CodeFile # {}
    BY <1>2, <1>4, <2>1 DEF MatchingTests, Config, CodeFile
  <2>4. state(x, "unknown") = "pass" /\ state(m, IF r.complete THEN "fail" ELSE "unknown") = "pass"
    BY <1>3, <1>5, <1>7, <2>1, <2>2, <2>3
  <2> QED
    BY <1>1, <2>3, <2>4
<1> QED
  BY <1>6, <1>7

LEMMA SameTestFiles ==
    ASSUME NEW s, NEW r, NEW x, NEW m, Kin(x, m), x.files = m.files, NEW executions,
           s.complete, r.complete
    PROVE  TestFileState(s, x, executions) = TestFileState(r, m, executions)
<1>1. x.path = m.path
  BY DEF Kin, Twins
<1> QED
  BY <1>1 DEF TestFileState, NodeTestState, ConfigurationUnknown, MatchingTests

TestRuns(trace) == {e \in trace.executions : Purpose(e.tool) = "test"}

LEMMA TestChecksAre ==
    ASSUME NEW s, NEW members, NEW m, s.known = TRUE,
           NEW trace, trace = TraceScripts(members, m, "test")
    PROVE  /\ TestFilesCheck(s, members, m) =
                 IF ~Applicable(s, m) THEN "not_applicable"
                 ELSE IF trace.state = "unknown" THEN "unknown"
                 ELSE TestFileState(s, m, TestRuns(trace))
           /\ TestExecutionCheck(s, members, m) =
                 IF ~Applicable(s, m) THEN "not_applicable" ELSE trace.state
  BY DEF TestFilesCheck, TestExecutionCheck, TestRuns

LEMMA TestingSame ==
    ASSUME NEW s, NEW some, NEW r, NEW more, Seen(s, some, r, more), NEW x, NEW m, Kin(x, m),
           s.complete => x.files = m.files,
           TestFilesCheck(s, some, x) # "unknown"
    PROVE  /\ TestFilesCheck(s, some, x) = TestFilesCheck(r, more, m)
           /\ TestExecutionCheck(s, some, x) = TestExecutionCheck(r, more, m)
<1>1. PICK trace : trace = TraceScripts(some, x, "test")
  OBVIOUS
<1>2. trace = TraceScripts(more, m, "test")
  BY <1>1, ToolsSame
<1>3. s.known = TRUE /\ r.known = TRUE /\ r.complete = TRUE
  BY DEF Seen
<1>4. /\ TestFilesCheck(s, some, x) =
            IF ~Applicable(s, x) THEN "not_applicable"
            ELSE IF trace.state = "unknown" THEN "unknown"
            ELSE TestFileState(s, x, TestRuns(trace))
      /\ TestExecutionCheck(s, some, x) =
            IF ~Applicable(s, x) THEN "not_applicable" ELSE trace.state
  BY <1>1, <1>3, TestChecksAre
<1>5. /\ TestFilesCheck(r, more, m) =
            IF ~Applicable(r, m) THEN "not_applicable"
            ELSE IF trace.state = "unknown" THEN "unknown"
            ELSE TestFileState(r, m, TestRuns(trace))
      /\ TestExecutionCheck(r, more, m) =
            IF ~Applicable(r, m) THEN "not_applicable" ELSE trace.state
  BY <1>2, <1>3, TestChecksAre
<1>6. x.role = m.role /\ x.scripts = m.scripts /\ x.files \subseteq m.files
  BY DEF Kin, Twins
<1>7. CASE s.complete
  <2>1. Applicable(s, x) <=> Applicable(r, m)
    BY <1>3, <1>6, <1>7 DEF Applicable
  <2>2. TestFileState(s, x, TestRuns(trace)) = TestFileState(r, m, TestRuns(trace))
    BY <1>3, <1>7, SameTestFiles
  <2> QED
    BY <1>4, <1>5, <2>1, <2>2
<1>8. CASE ~s.complete /\ x.role = "orchestrator"
  <2>1. ~Applicable(s, x) /\ ~Applicable(r, m)
    BY <1>6, <1>8 DEF Applicable
  <2> QED
    BY <1>4, <1>5, <2>1
<1>9. CASE ~s.complete /\ x.role # "orchestrator"
  <2>1. Applicable(s, x)
    BY <1>9 DEF Applicable
  <2>2. TestFileState(s, x, TestRuns(trace)) # "unknown" /\ trace.state # "unknown"
    BY <1>4, <2>1
  <2>3. /\ TestFileState(s, x, TestRuns(trace)) = "pass"
        /\ TestFileState(r, m, TestRuns(trace)) = "pass"
        /\ m.files \cap CodeFile # {}
    BY <1>9, <2>2, TestFilesStay
  <2>4. Applicable(r, m)
    BY <1>6, <1>9, <2>3 DEF Applicable
  <2> QED
    BY <1>4, <1>5, <2>1, <2>3, <2>4
<1> QED
  BY <1>7, <1>8, <1>9

\* What the acquisition keeps of the members.
LEMMA ToolNamesAre ==
    ASSUME NEW s, NEW m
    PROVE  ToolNames(Member(s, m)) = {e.name : e \in {x \in m.raw : x.group # PeerGroup}}
<1> DEFINE names == {e.name : e \in {x \in m.raw : x.group # PeerGroup}}
<1>1. Member(s, m).declarations = Declarations(s, m)
  BY MemberFields
<1>2. ASSUME NEW n \in ToolNames(Member(s, m)) PROVE n \in names
  <2>1. PICK d \in Declarations(s, m) : d.group # PeerGroup /\ n = d.name
    BY <1>1 DEF ToolNames
  <2>2. PICK e \in m.raw : d = Declared(s, e, m.path)
    BY DeclarationsAre
  <2>3. e.group = d.group /\ e.name = d.name
    BY <2>2, DeclaredFields
  <2> QED
    BY <2>1, <2>3
<1>3. ASSUME NEW n \in names PROVE n \in ToolNames(Member(s, m))
  <2>1. PICK e \in m.raw : e.group # PeerGroup /\ n = e.name
    OBVIOUS
  <2>2. PICK d : d = Declared(s, e, m.path)
    OBVIOUS
  <2>3. d \in Declarations(s, m) /\ d.group # PeerGroup /\ n = d.name
    BY <2>1, <2>2, DeclarationsAre, DeclaredFields
  <2> QED
    BY <1>1, <2>3 DEF ToolNames
<1> QED
  BY <1>2, <1>3

LEMMA TwinOf ==
    ASSUME NEW w \in World, NEW s, s = Acquired(w.repository, w.lost),
           NEW n \in Manifests(w.repository), NEW y \in Manifests(s), y.path = n.path
    PROVE  /\ Twins(Member(s, y), Member(w.repository, n))
           /\ y.files = n.files \ LostFiles(w.lost)
<1> DEFINE r == w.repository
<1>1. n \in r.manifests
  BY RepositoryOnce, ManifestsExist
<1>2. IsManifest(n)
  BY <1>1, WorldAssumption DEF IsSnapshot
<1>3. y = AcquiredManifest(n, w.lost) /\ y.raw = n.raw
  BY SamePath
<1>4. y.scripts = n.scripts /\ y.files = n.files \ LostFiles(w.lost)
  BY <1>2, <1>3, AcquiredManifestFields
<1>5. ToolNames(Member(s, y)) = ToolNames(Member(r, n))
  BY <1>3, ToolNamesAre
<1>6. /\ Member(s, y).path = Member(r, n).path
      /\ Member(s, y).scripts = Member(r, n).scripts
  BY <1>4, MemberFields
<1> QED
  BY <1>4, <1>5, <1>6 DEF Twins

LEMMA AlikeMembers ==
    ASSUME NEW w \in World, NEW s, s = Acquired(w.repository, w.lost), AllKept(w.repository, s)
    PROVE  Alike(Members(s), Members(w.repository))
<1> DEFINE r == w.repository
<1>1. ASSUME NEW x \in Members(s) PROVE \E m \in Members(r) : Twins(x, m)
  <2>1. PICK y \in Manifests(s) : x = Member(s, y)
    BY DEF Members
  <2>2. PICK n \in Manifests(r) : y.path = n.path
    BY ManifestsKept
  <2>3. Twins(Member(s, y), Member(r, n))
    BY <2>2, TwinOf
  <2> QED
    BY <2>1, <2>3 DEF Members
<1>2. ASSUME NEW m \in Members(r) PROVE \E x \in Members(s) : Twins(x, m)
  <2>1. PICK n \in Manifests(r) : m = Member(r, n)
    BY DEF Members
  <2>2. PICK y \in Manifests(s) : y.path = n.path
    BY DEF AllKept
  <2>3. Twins(Member(s, y), Member(r, n))
    BY <2>2, TwinOf
  <2> QED
    BY <2>1, <2>3 DEF Members
<1> QED
  BY <1>1, <1>2 DEF Alike

LEMMA SameCount ==
    ASSUME NEW w \in World, NEW s, s = Acquired(w.repository, w.lost), AllKept(w.repository, s)
    PROVE  Cardinality(Manifests(s)) = Cardinality(Manifests(w.repository))
<1> DEFINE M == Manifests(w.repository)
           N == Manifests(s)
           f == [m \in M |-> AcquiredManifest(m, w.lost)]
<1>1. IsFiniteSet(M)
  <2>1. IsFiniteSet(w.repository.manifests)
    BY WorldAssumption
  <2> QED
    BY <2>1, RepositoryOnce, ManifestsExist, FS_Subset
<1>2. \A m \in M : f[m] \in N /\ f[m].path = m.path
  <2> TAKE m \in M
  <2>1. PICK y \in N : y.path = m.path
    BY DEF AllKept
  <2>2. y = AcquiredManifest(m, w.lost)
    BY <2>1, SamePath
  <2> QED
    BY <2>1, <2>2
<1>3. \A m, n \in M : m.path = n.path => m = n
  BY RepositoryOnce, ManifestsExist DEF OnePerPath
<1>4. \A y \in N : \E m \in M : f[m] = y
  BY ManifestsKept
<1>5. f \in [M -> N]
  BY <1>2
<1> HIDE DEF f, M, N
<1>6. f \in Bijection(M, N)
  <2>1. f \in Injection(M, N)
    <3>1. \A m, n \in M : f[m] = f[n] => m = n
      BY <1>2, <1>3
    <3> QED
      BY <1>5, <3>1 DEF Injection, IsInjective
  <2>2. f \in Surjection(M, N)
    BY <1>4, <1>5 DEF Surjection
  <2> QED
    BY <2>1, <2>2 DEF Bijection
<1>7. ExistsBijection(M, N)
  BY <1>6 DEF ExistsBijection
<1>8. Cardinality(N) = Cardinality(M)
  BY <1>1, <1>7, FS_Bijection
<1> QED
  BY <1>8 DEF M, N

\* RootKeepsRole, of a world.
KeepsRole(w) ==
    \/ "source" \notin w.lost
    \/ Cardinality(Manifests(w.repository)) = 1
    \/ RootManifest(w.repository).files \cap OwnSource = {}

LEMMA SameRole ==
    ASSUME NEW w \in World, NEW s, s = Acquired(w.repository, w.lost), AllKept(w.repository, s),
           KeepsRole(w),
           NEW n \in Manifests(w.repository), NEW y \in Manifests(s), y.path = n.path
    PROVE  Role(s, y) = Role(w.repository, n)
<1> DEFINE r == w.repository
<1>1. Cardinality(Manifests(s)) = Cardinality(Manifests(r))
  BY SameCount
<1>2. y.files = n.files \ LostFiles(w.lost)
  BY TwinOf
<1>3. CASE "source" \notin w.lost
  <2>1. y.files \cap OwnSource = n.files \cap OwnSource
    BY <1>2, <1>3 DEF LostFiles, OwnSource, Config
  <2> QED
    BY <1>1, <2>1 DEF Role
<1>4. CASE Cardinality(Manifests(r)) = 1
  BY <1>1, <1>4 DEF Role
<1>5. CASE RootManifest(r).files \cap OwnSource = {}
  <2>1. CASE n.path = Root
    <3>1. n = RootManifest(r)
      BY <2>1, RepositoryOnce, RootIsOne, ManifestsExist DEF OnePerPath
    <3>2. y.files \cap OwnSource = {} /\ n.files \cap OwnSource = {}
      BY <1>2, <1>5, <3>1
    <3> QED
      BY <1>1, <3>2 DEF Role
  <2>2. CASE n.path # Root
    BY <2>2 DEF Role
  <2> QED
    BY <2>1, <2>2
<1> QED
  BY <1>3, <1>4, <1>5 DEF KeepsRole

LEMMA KinOf ==
    ASSUME NEW w \in World, NEW s, s = Acquired(w.repository, w.lost), AllKept(w.repository, s),
           KeepsRole(w), "configuration" \notin w.lost,
           NEW n \in Manifests(w.repository), NEW y \in Manifests(s), y.path = n.path
    PROVE  /\ Kin(Member(s, y), Member(w.repository, n))
           /\ s.complete => Member(s, y).files = Member(w.repository, n).files
<1> DEFINE r == w.repository
<1>1. y.files = n.files \ LostFiles(w.lost)
  BY TwinOf
<1>2. \A k \in Telling : k \in n.files => k \in y.files
  <2>1. Telling \cap LostFiles(w.lost) = {}
    BY DEF Telling, LostFiles, OwnSource, Config
  <2> QED
    BY <1>1, <2>1
<1>3. s.complete => y.files = n.files
  <2>1. s.complete = (w.lost \subseteq {"lockfile"})
    BY AcquiredFields
  <2>2. s.complete => LostFiles(w.lost) = {}
    BY <2>1 DEF LostFiles
  <2> QED
    BY <1>1, <2>2
<1>4. Role(s, y) = Role(r, n)
  BY SameRole
<1>5. /\ Member(s, y).files = y.files /\ Member(r, n).files = n.files
      /\ Member(s, y).role = Member(r, n).role
  BY <1>4, MemberFields
<1>6. Twins(Member(s, y), Member(r, n))
  BY TwinOf
<1> QED
  BY <1>1, <1>2, <1>3, <1>5, <1>6 DEF Kin

LEMMA SeenWhole ==
    ASSUME NEW w \in World, NEW s, s = Acquired(w.repository, w.lost), AllKept(w.repository, s)
    PROVE  Seen(s, Members(s), w.repository, Members(w.repository))
<1>1. s.known = TRUE
  BY AcquiredFields
<1>2. w.repository.known = TRUE /\ w.repository.complete = TRUE
  BY WorldAssumption
<1> QED
  BY <1>1, <1>2, AlikeMembers, FiniteScripts DEF Seen

-----------------------------------------------------------------------------
(* A category is scored by its own checks. *)

Own(category, checks) == {c \in checks : c.category = category}

LEMMA OwnDecides ==
    ASSUME NEW category, NEW some, NEW more, Own(category, some) = Own(category, more)
    PROVE  Scored(category, some) = Scored(category, more)
<1>1. {c \in some : c.category = category} = {c \in more : c.category = category}
  BY DEF Own
<1> QED
  BY <1>1 DEF Scored, CategoryScore

\* The checks of a member's safeguards, by category.
Safeguards(category, s, members, m) ==
    IF category = "maintainability"
    THEN {InspectionCheck(m, category, "lint", LintCheck(s, members, m)),
          InspectionCheck(m, category, "typecheck", TypeCheck(s, members, m))}
    ELSE {InspectionCheck(m, category, "test.execution", TestExecutionCheck(s, members, m)),
          InspectionCheck(m, category, "test.files", TestFilesCheck(s, members, m))}

LEMMA SafeguardsAre ==
    ASSUME NEW s, NEW members, NEW m, NEW category \in {"maintainability", "testing"}, NEW c
    PROVE  c \in Safeguards(category, s, members, m)
              <=> c \in MemberChecks(s, members, m) /\ c.category = category
<1>1. CASE category = "maintainability"
  <2>1. InspectionCheck(m, "maintainability", "lint", LintCheck(s, members, m)).category = category
    BY <1>1, InspectionCheckFields
  <2>2. InspectionCheck(m, "maintainability", "typecheck", TypeCheck(s, members, m)).category = category
    BY <1>1, InspectionCheckFields
  <2>3. InspectionCheck(m, "testing", "test.execution", TestExecutionCheck(s, members, m)).category # category
    BY <1>1, InspectionCheckFields
  <2>4. InspectionCheck(m, "testing", "test.files", TestFilesCheck(s, members, m)).category # category
    BY <1>1, InspectionCheckFields
  <2> QED
    BY <1>1, <2>1, <2>2, <2>3, <2>4 DEF Safeguards, MemberChecks
<1>2. CASE category = "testing"
  <2>1. InspectionCheck(m, "maintainability", "lint", LintCheck(s, members, m)).category # category
    BY <1>2, InspectionCheckFields
  <2>2. InspectionCheck(m, "maintainability", "typecheck", TypeCheck(s, members, m)).category # category
    BY <1>2, InspectionCheckFields
  <2>3. InspectionCheck(m, "testing", "test.execution", TestExecutionCheck(s, members, m)).category = category
    BY <1>2, InspectionCheckFields
  <2>4. InspectionCheck(m, "testing", "test.files", TestFilesCheck(s, members, m)).category = category
    BY <1>2, InspectionCheckFields
  <2> QED
    BY <1>2, <2>1, <2>2, <2>3, <2>4 DEF Safeguards, MemberChecks
<1> QED
  BY <1>1, <1>2

LEMMA KnownSafeguards ==
    ASSUME NEW s, NEW members, NEW registry, NEW o,
           NEW checks, checks = InspectionChecks(s, members, registry, o),
           NEW category \in {"maintainability", "testing"}, KnownIn(category, checks)
    PROVE  Own(category, checks) = (UNION {Safeguards(category, s, members, m) : m \in members})
<1>1. ASSUME NEW c \in Own(category, checks)
      PROVE  \E m \in members : c \in Safeguards(category, s, members, m)
  <2>1. c \in checks /\ c.category = category
    BY DEF Own
  <2>2. \/ \E m \in members : c \in DependencyChecks(m, registry, o)
        \/ \E m \in members : c \in MemberChecks(s, members, m)
        \/ c \in RootChecks(s, members, WorkspaceIssues(s))
    BY <2>1, AllChecks
  <2>3. \A m \in members : c \notin DependencyChecks(m, registry, o)
    BY <2>1, CategoryOfDependencyChecks
  <2>4. ASSUME c \in RootChecks(s, members, WorkspaceIssues(s))
        PROVE  FALSE
    <3>1. c.state # "unknown"
      BY <2>1 DEF KnownIn
    <3>2. c.category = "tooling"
      BY <2>4, <3>1, KnownRootChecks, InspectionCheckFields
    <3> QED
      BY <2>1, <3>2
  <2>5. PICK m \in members : c \in MemberChecks(s, members, m)
    BY <2>2, <2>3, <2>4
  <2> QED
    BY <2>1, <2>5, SafeguardsAre
<1>2. ASSUME NEW m \in members, NEW c \in Safeguards(category, s, members, m)
      PROVE  c \in Own(category, checks)
  <2>1. c \in MemberChecks(s, members, m) /\ c.category = category
    BY SafeguardsAre
  <2>2. c \in checks
    BY <2>1, AllChecks
  <2> QED
    BY <2>1, <2>2 DEF Own
<1> QED
  BY <1>1, <1>2

\* Their checks do not depend on what npm and OSV say.
LEMMA OthersAsGiven ==
    ASSUME NEW s, NEW members, NEW registry, NEW o, NEW registry2, NEW o2,
           NEW category \in Category, category \notin Ceiling
    PROVE  Own(category, InspectionChecks(s, members, registry, o))
              = Own(category, InspectionChecks(s, members, registry2, o2))
<1>1. ASSUME NEW g, NEW p, NEW c \in Own(category, InspectionChecks(s, members, g, p))
      PROVE  /\ c.category = category
             /\ \/ \E m \in members : c \in MemberChecks(s, members, m)
                \/ c \in RootChecks(s, members, WorkspaceIssues(s))
  <2>1. c \in InspectionChecks(s, members, g, p) /\ c.category = category
    BY DEF Own
  <2>2. c.category \notin {"dependencies", "security"}
    BY <2>1 DEF Ceiling
  <2>3. \A m \in members : c \notin DependencyChecks(m, g, p)
    BY <2>2, CategoryOfDependencyChecks
  <2> QED
    BY <2>1, <2>3, AllChecks
<1>2. ASSUME NEW g, NEW p, NEW c, c.category = category,
             \/ \E m \in members : c \in MemberChecks(s, members, m)
             \/ c \in RootChecks(s, members, WorkspaceIssues(s))
      PROVE  c \in Own(category, InspectionChecks(s, members, g, p))
  BY <1>2, AllChecks DEF Own
<1>3. PICK some : some = Own(category, InspectionChecks(s, members, registry, o))
  OBVIOUS
<1>4. PICK more : more = Own(category, InspectionChecks(s, members, registry2, o2))
  OBVIOUS
<1>5. \A c \in some : c \in more
  BY <1>1, <1>2, <1>3, <1>4
<1>6. \A c \in more : c \in some
  BY <1>1, <1>2, <1>3, <1>4
<1>7. some = more
  BY <1>5, <1>6
<1> QED
  BY <1>3, <1>4, <1>7

\* Nor does any check of a project without external dependencies.
LEMMA NothingToAsk ==
    ASSUME NEW s, NEW members, NEW registry, NEW o, NEW registry2, NEW o2,
           \A m \in members : ExternalDeclarations(m) = {}
    PROVE  InspectionChecks(s, members, registry, o) = InspectionChecks(s, members, registry2, o2)
<1>1. \A m \in members : DependencyChecks(m, registry, o) = DependencyChecks(m, registry2, o2)
  BY DEF DependencyChecks
<1>2. \A c : c \in InspectionChecks(s, members, registry, o)
                <=> c \in InspectionChecks(s, members, registry2, o2)
  BY <1>1, AllChecks
<1>3. /\ InspectionChecks(s, members, registry, o) =
            {c \in InspectionChecks(s, members, registry, o) : TRUE}
      /\ InspectionChecks(s, members, registry2, o2) =
            {c \in InspectionChecks(s, members, registry2, o2) : TRUE}
  OBVIOUS
<1> QED
  BY <1>2, <1>3

-----------------------------------------------------------------------------
(* The score that all of the evidence would have given. *)

IdealChecks == InspectionChecks(Truth, Members(Truth), TrueRegistry, TrueOsv)

LEMMA IdealScores ==
    LET ideal == RunAnalyzer(Truth, TrueRegistry, TrueOsv).scores
    IN  /\ Report.scores = StackHealth(ReportChecks, FALSE)
        /\ ideal = StackHealth(IdealChecks, FALSE)
        /\ \A c \in Category : /\ Report.scores.categories[c] = Scored(c, ReportChecks)
                               /\ ideal.categories[c] = Scored(c, IdealChecks)
<1>1. RunAnalyzer(Truth, TrueRegistry, TrueOsv).scores = StackHealth(IdealChecks, FALSE)
  BY DEF RunAnalyzer, Evaluated, Assembled, IdealChecks
<1>2. \A checks : \A c \in Category :
         StackHealth(checks, FALSE).categories[c] = Scored(c, checks)
  BY DEF StackHealth, Scored
<1> QED
  BY <1>1, <1>2, ReportFields

\* A manifest is judged by itself.
LEMMA ManifestSame ==
    ASSUME CollectedInv, at = "report", world.kind # "repository",
           NEW category \in Category, KnownIn(category, ReportChecks)
    PROVE  Own(category, ReportChecks) = Own(category, IdealChecks)
<1>1. Truth = project
  BY ReportedProject DEF CollectedInv
<1>2. CASE category \notin Ceiling
  BY <1>1, <1>2, OthersAsGiven DEF ReportChecks, IdealChecks
<1>3. CASE category \in Ceiling
  <2>1. category \in {"dependencies", "security"}
    BY <1>3 DEF Ceiling
  <2>2. \A y \in Members(project) : ExternalDeclarations(y) = {}
    BY <2>1, ManifestIsUnknown
  <2>3. ReportChecks = IdealChecks
    BY <1>1, <2>2, NothingToAsk DEF ReportChecks, IdealChecks
  <2> QED
    BY <2>3
<1> QED
  BY <1>2, <1>3

\* Without a loss that hides more, the known safeguards are those there are.
LEMMA SafeguardsSame ==
    ASSUME CollectedInv, at = "report", world.kind = "repository",
           KeepsRole(world), "configuration" \notin world.lost,
           NEW category \in {"maintainability", "testing"},
           KnownIn(category, ReportChecks), KnownIn(category, IdealChecks)
    PROVE  Own(category, ReportChecks) = Own(category, IdealChecks)
<1>1. PICK w : w = world
  OBVIOUS
<1>2. PICK s : s = project
  OBVIOUS
<1>3. w \in World /\ s = Acquired(w.repository, w.lost) /\ Truth = w.repository
  BY <1>1, <1>2, ReportedRepository
<1>4. AllKept(w.repository, s)
  BY <1>1, <1>2, KnownKeeps DEF Category
<1>5. PICK r : r = w.repository
  OBVIOUS
<1>6. Seen(s, Members(s), r, Members(r))
  BY <1>3, <1>4, <1>5, SeenWhole
<1>7. /\ Own(category, ReportChecks) =
            (UNION {Safeguards(category, s, Members(s), x) : x \in Members(s)})
      /\ Own(category, IdealChecks) =
            (UNION {Safeguards(category, r, Members(r), m) : m \in Members(r)})
  BY <1>2, <1>3, <1>5, KnownSafeguards DEF ReportChecks, IdealChecks
<1>8. ASSUME NEW n \in Manifests(r), NEW y \in Manifests(s), y.path = n.path
      PROVE  Safeguards(category, s, Members(s), Member(s, y))
                = Safeguards(category, r, Members(r), Member(r, n))
  <2>1. PICK x : x = Member(s, y)
    OBVIOUS
  <2>2. PICK m : m = Member(r, n)
    OBVIOUS
  <2>3. Kin(x, m) /\ (s.complete => x.files = m.files)
    BY <1>1, <1>3, <1>4, <1>5, <1>8, <2>1, <2>2, KinOf
  <2>4. x \in Members(s)
    BY <2>1 DEF Members
  <2>5. x.path = m.path
    BY <2>3 DEF Kin, Twins
  <2>6. \A of, state : InspectionCheck(x, category, of, state) = InspectionCheck(m, category, of, state)
    BY <2>5 DEF InspectionCheck
  <2>7. \A c \in Safeguards(category, s, Members(s), x) : c.state # "unknown"
    <3> TAKE c \in Safeguards(category, s, Members(s), x)
    <3>1. c \in Own(category, ReportChecks)
      BY <1>7, <2>4
    <3> QED
      BY <3>1 DEF Own, KnownIn
  <2>8. CASE category = "maintainability"
    <3>1. InspectionCheck(x, category, "typecheck", TypeCheck(s, Members(s), x))
             \in Safeguards(category, s, Members(s), x)
      BY <2>8 DEF Safeguards
    <3>2. TypeCheck(s, Members(s), x) # "unknown"
      BY <2>7, <3>1, InspectionCheckFields
    <3>3. /\ LintCheck(s, Members(s), x) = LintCheck(r, Members(r), m)
          /\ TypeCheck(s, Members(s), x) = TypeCheck(r, Members(r), m)
      BY <1>6, <2>3, <3>2, MaintenanceSame
    <3> QED
      BY <2>1, <2>2, <2>6, <2>8, <3>3 DEF Safeguards
  <2>9. CASE category = "testing"
    <3>1. InspectionCheck(x, category, "test.files", TestFilesCheck(s, Members(s), x))
             \in Safeguards(category, s, Members(s), x)
      BY <2>9 DEF Safeguards
    <3>2. TestFilesCheck(s, Members(s), x) # "unknown"
      BY <2>7, <3>1, InspectionCheckFields
    <3>3. /\ TestFilesCheck(s, Members(s), x) = TestFilesCheck(r, Members(r), m)
          /\ TestExecutionCheck(s, Members(s), x) = TestExecutionCheck(r, Members(r), m)
      BY <1>6, <2>3, <3>2, TestingSame
    <3> QED
      BY <2>1, <2>2, <2>6, <2>9, <3>3 DEF Safeguards
  <2> QED
    BY <2>8, <2>9
<1>9. \A x \in Members(s) : \E m \in Members(r) :
         Safeguards(category, s, Members(s), x) = Safeguards(category, r, Members(r), m)
  <2> TAKE x \in Members(s)
  <2>1. PICK y \in Manifests(s) : x = Member(s, y)
    BY DEF Members
  <2>2. PICK n \in Manifests(r) : y.path = n.path
    BY <1>3, <1>5, ManifestsKept
  <2> QED
    BY <1>8, <2>1, <2>2 DEF Members
<1>10. \A m \in Members(r) : \E x \in Members(s) :
          Safeguards(category, s, Members(s), x) = Safeguards(category, r, Members(r), m)
  <2> TAKE m \in Members(r)
  <2>1. PICK n \in Manifests(r) : m = Member(r, n)
    BY DEF Members
  <2>2. PICK y \in Manifests(s) : y.path = n.path
    BY <1>4, <1>5 DEF AllKept
  <2> QED
    BY <1>8, <2>1, <2>2 DEF Members
<1> QED
  BY <1>7, <1>9, <1>10

-----------------------------------------------------------------------------
(* Tooling: two checks at the root. *)

ManagerAt(s, members) ==
    InspectionCheck(MemberAt(members, Root), "tooling", "package-manager", PackageManagerCheck(s))
LockAt(s, members) ==
    InspectionCheck(MemberAt(members, Root), "tooling", "lockfile",
                    LockfileCheck(s, members, WorkspaceIssues(s)))

LEMMA KnownTooling ==
    ASSUME NEW s, NEW members, NEW registry, NEW o,
           NEW checks, checks = InspectionChecks(s, members, registry, o),
           KnownIn("tooling", checks)
    PROVE  /\ Own("tooling", checks) = {ManagerAt(s, members), LockAt(s, members)}
           /\ ManagerAt(s, members) # LockAt(s, members)
           /\ ManagerAt(s, members).state = PackageManagerCheck(s)
           /\ LockAt(s, members).state = LockfileCheck(s, members, WorkspaceIssues(s))
           /\ PackageManagerCheck(s) \in {"pass", "fail"}
           /\ LockfileCheck(s, members, WorkspaceIssues(s)) \in {"pass", "fail", "not_applicable"}
<1>1. PICK p : p = ManagerAt(s, members)
  OBVIOUS
<1>2. PICK l : l = LockAt(s, members)
  OBVIOUS
<1>3. /\ p.category = "tooling" /\ p.of = "package-manager" /\ p.state = PackageManagerCheck(s)
      /\ l.category = "tooling" /\ l.of = "lockfile"
      /\ l.state = LockfileCheck(s, members, WorkspaceIssues(s))
  BY <1>1, <1>2, InspectionCheckFields DEF ManagerAt, LockAt
<1>4. {p, l} \subseteq RootChecks(s, members, WorkspaceIssues(s))
  BY <1>1, <1>2 DEF ManagerAt, LockAt, RootChecks
<1>5. p \in checks /\ l \in checks
  BY <1>4, AllChecks
<1>6. p.state # "unknown" /\ l.state # "unknown"
  BY <1>3, <1>5 DEF KnownIn
<1>7. ASSUME NEW c \in checks, c.category = "tooling"
      PROVE  c \in {p, l}
  <2>1. \A m \in members : c \notin DependencyChecks(m, registry, o)
    BY <1>7, CategoryOfDependencyChecks
  <2>2. \A m \in members : c \notin MemberChecks(s, members, m)
    BY <1>7, InspectionCheckFields DEF MemberChecks
  <2>3. c \in RootChecks(s, members, WorkspaceIssues(s)) /\ c.state # "unknown"
    BY <1>7, <2>1, <2>2, AllChecks DEF KnownIn
  <2> QED
    BY <1>1, <1>2, <2>3, KnownRootChecks DEF ManagerAt, LockAt
<1>8. Own("tooling", checks) = {p, l}
  BY <1>3, <1>5, <1>7 DEF Own
<1>9. PackageManagerCheck(s) \in {"pass", "fail"}
  BY <1>3, <1>6 DEF PackageManagerCheck
<1>10. LockfileCheck(s, members, WorkspaceIssues(s)) \in {"pass", "fail", "not_applicable"}
  BY <1>3, <1>6 DEF LockfileCheck
<1>11. p # l
  BY <1>3
<1> QED
  BY <1>1, <1>2, <1>3, <1>8, <1>9, <1>10, <1>11

LEMMA ScoredOfKnown ==
    ASSUME NEW checks, NEW category, KnownIn(category, checks),
           NEW c \in checks, c.category = category, c.state # "not_applicable"
    PROVE  Scored(category, checks).status = "available"
<1> DEFINE own        == {x \in checks : x.category = category}
           applicable == own \ InState(own, "not_applicable")
<1>1. Scored(category, checks) =
        IF own = {} \/ InState(own, "unknown") # {} THEN Insufficient
        ELSE IF applicable = {} THEN NotApplicable
        ELSE Available(IF category \in Ceiling THEN RiskBand(category, applicable)
                                               ELSE Readiness(applicable))
  BY DEF Scored, CategoryScore
<1>2. InState(own, "unknown") = {}
  BY DEF InState, KnownIn
<1>3. c \in applicable /\ c \in own
  BY DEF InState
<1> HIDE DEF own, applicable
<1>4. \E v : Scored(category, checks) = Available(v)
  BY <1>1, <1>2, <1>3
<1> QED
  BY <1>4, AvailableIs

\* Half of the points for each of two checks.
LEMMA ReadinessOfTwo ==
    ASSUME NEW p, NEW l, p # l, p.state \in {"pass", "fail"}, l.state \in {"pass", "fail"}
    PROVE  Readiness({p, l}) =
              IF p.state = "pass" /\ l.state = "pass" THEN 100
              ELSE IF p.state = "pass" \/ l.state = "pass" THEN 50 ELSE 0
<1>1. /\ IsFiniteSet({}) /\ Cardinality({}) = 0
      /\ IsFiniteSet({p}) /\ Cardinality({p}) = 1
      /\ IsFiniteSet({l}) /\ Cardinality({l}) = 1
  BY FS_EmptySet, FS_Singleton
<1>2. Cardinality({p, l}) = 2
  <2>1. Cardinality({p} \cup {l}) = Cardinality({p}) + 1
    BY <1>1, FS_AddElement
  <2>2. {p} \cup {l} = {p, l}
    OBVIOUS
  <2> QED
    BY <1>1, <2>1, <2>2
<1>3. CASE p.state = "pass" /\ l.state = "pass"
  <2>1. InState({p, l}, "pass") = {p, l}
    BY <1>3 DEF InState
  <2>2. Readiness({p, l}) = (100 * 2) \div 2
    BY <1>2, <2>1 DEF Readiness
  <2> QED
    BY <1>3, <2>2
<1>4. CASE p.state = "pass" /\ l.state = "fail"
  <2>1. InState({p, l}, "pass") = {p}
    BY <1>4 DEF InState
  <2>2. Readiness({p, l}) = (100 * 1) \div 2
    BY <1>1, <1>2, <2>1 DEF Readiness
  <2> QED
    BY <1>4, <2>2
<1>5. CASE p.state = "fail" /\ l.state = "pass"
  <2>1. InState({p, l}, "pass") = {l}
    BY <1>5 DEF InState
  <2>2. Readiness({p, l}) = (100 * 1) \div 2
    BY <1>1, <1>2, <2>1 DEF Readiness
  <2> QED
    BY <1>5, <2>2
<1>6. CASE p.state = "fail" /\ l.state = "fail"
  <2>1. InState({p, l}, "pass") = {}
    BY <1>6 DEF InState
  <2>2. Readiness({p, l}) = (100 * 0) \div 2
    BY <1>1, <1>2, <2>1 DEF Readiness
  <2> QED
    BY <1>6, <2>2
<1> QED
  BY <1>3, <1>4, <1>5, <1>6

LEMMA ScoreOfTwo ==
    ASSUME NEW checks, NEW p, NEW l, Own("tooling", checks) = {p, l},
           p.state \in {"pass", "fail"}, l.state \in {"pass", "fail"}
    PROVE  Scored("tooling", checks) = Available(Readiness({p, l}))
<1>1. {c \in checks : c.category = "tooling"} = {p, l}
  BY DEF Own
<1>2. InState({p, l}, "unknown") = {} /\ {p, l} \ InState({p, l}, "not_applicable") = {p, l}
  BY DEF InState
<1>3. "tooling" \notin Ceiling
  BY DEF Ceiling
<1> QED
  BY <1>1, <1>2, <1>3 DEF Scored, CategoryScore

LEMMA LockfileStates ==
    ASSUME CollectedInv, at = "report", world.kind = "repository",
           KnownIn("tooling", ReportChecks), KnownIn("tooling", IdealChecks),
           NEW some, some = LockfileCheck(project, Members(project), WorkspaceIssues(project)),
           NEW all, all = LockfileCheck(Truth, Members(Truth), WorkspaceIssues(Truth))
    PROVE  /\ some \in {"pass", "fail", "not_applicable"}
           /\ all \in {"pass", "fail", "not_applicable"}
           /\ some = "not_applicable" <=> all = "not_applicable"
           /\ some = "pass" => all = "pass"
<1>1. PICK w : w = world
  OBVIOUS
<1>2. PICK s : s = project
  OBVIOUS
<1>3. PICK r : r = w.repository
  OBVIOUS
<1>4. w \in World /\ s = Acquired(w.repository, w.lost) /\ Truth = r
  BY <1>1, <1>2, <1>3, ReportedRepository
<1>5. /\ some \in {"pass", "fail", "not_applicable"}
      /\ all \in {"pass", "fail", "not_applicable"}
  BY KnownTooling DEF ReportChecks, IdealChecks
<1>6. AllKept(r, s)
  BY <1>1, <1>2, <1>3, KnownKeeps DEF Category
<1>7. Alike(Members(s), Members(r))
  BY <1>3, <1>4, <1>6, AlikeMembers
<1> DEFINE idle(members) == \A m \in members : {d \in m.declarations : d.group # PeerGroup} = {}
<1>8. idle(Members(s)) <=> idle(Members(r))
  <2>1. \A m : {d \in m.declarations : d.group # PeerGroup} = {} <=> ToolNames(m) = {}
    BY DEF ToolNames
  <2>2. \A x \in Members(s) : \E m \in Members(r) : ToolNames(x) = ToolNames(m)
    BY <1>7 DEF Alike, Twins
  <2>3. \A m \in Members(r) : \E x \in Members(s) : ToolNames(x) = ToolNames(m)
    BY <1>7 DEF Alike, Twins
  <2> QED
    BY <2>1, <2>2, <2>3
<1>9. /\ some = "not_applicable" => idle(Members(s))
      /\ idle(Members(s)) => some \in {"unknown", "not_applicable"}
      /\ all = "not_applicable" => idle(Members(r))
      /\ idle(Members(r)) => all \in {"unknown", "not_applicable"}
  BY <1>2, <1>4 DEF LockfileCheck
<1>10. some = "pass" => LockComplete(Members(s), s)
  BY <1>2 DEF LockfileCheck
<1>11. all = "fail" => r.locks = {}
  BY <1>4 DEF LockfileCheck
<1>12. ASSUME LockComplete(Members(s), s)
       PROVE  r.locks # {}
  <2>1. PICK y : y \in Manifests(s)
    BY <1>4, AcquiredOnce, ManifestsExist
  <2>2. Member(s, y).lock.known
    BY <1>12, <2>1 DEF LockComplete, Members
  <2>3. s.locks # {}
    <3>1. PICK lock : lock = LockOf(s, y)
      OBVIOUS
    <3>2. lock.known
      BY <2>2, <3>1, MemberFields
    <3> SUFFICES ASSUME s.locks = {} PROVE FALSE
      OBVIOUS
    <3>3. lock = NormalizeResolvedDependencies(
                    s.manager, {}, {d \in Declarations(s, y) : IsExternalDependency(d)}, y.path)
      BY <3>1 DEF LockOf
    <3> QED
      BY <3>2, <3>3, UnknownWithoutLocks
  <2> QED
    BY <1>3, <1>4, <2>3, AcquiredFields
<1> HIDE DEF idle
<1> QED
  BY <1>5, <1>8, <1>9, <1>10, <1>11, <1>12

LEMMA ToolingNotAbove ==
    ASSUME CollectedInv, at = "report", world.kind = "repository",
           KnownIn("tooling", ReportChecks), KnownIn("tooling", IdealChecks)
    PROVE  /\ Scored("tooling", ReportChecks).status = "available"
           /\ Scored("tooling", IdealChecks).status = "available"
           /\ \/ Scored("tooling", ReportChecks) = Scored("tooling", IdealChecks)
              \/ \E v, u \in {0, 50, 100} :
                    /\ v =< u
                    /\ Scored("tooling", ReportChecks) = Available(v)
                    /\ Scored("tooling", IdealChecks) = Available(u)
<1>1. PICK s : s = project
  OBVIOUS
<1>2. PICK r : r = Truth
  OBVIOUS
<1> DEFINE some == LockfileCheck(s, Members(s), WorkspaceIssues(s))
           all  == LockfileCheck(r, Members(r), WorkspaceIssues(r))
<1>3. PICK p : p = ManagerAt(s, Members(s))
  OBVIOUS
<1>4. p = ManagerAt(r, Members(r))
  <2>1. /\ MemberAt(Members(s), Root).path = Root
        /\ MemberAt(Members(r), Root).path = Root
    BY <1>1, <1>2, ReportedRepository, MembersOnce
  <2>2. s.known = r.known /\ s.pin = r.pin
    <3>1. /\ world \in World /\ r = world.repository
          /\ s = Acquired(world.repository, world.lost)
      BY <1>1, <1>2, ReportedRepository
    <3>2. s.known = TRUE /\ s.pin = r.pin
      BY <3>1, AcquiredFields
    <3>3. r.known = TRUE
      BY <3>1, WorldAssumption
    <3> QED
      BY <3>2, <3>3
  <2>3. PackageManagerCheck(s) = PackageManagerCheck(r)
    BY <2>2 DEF PackageManagerCheck
  <2> QED
    BY <1>3, <2>1, <2>3 DEF ManagerAt, InspectionCheck
<1>5. PICK l : l = LockAt(s, Members(s))
  OBVIOUS
<1>6. PICK k : k = LockAt(r, Members(r))
  OBVIOUS
<1>7. /\ Own("tooling", ReportChecks) = {p, l} /\ p # l
      /\ l.state = some /\ p.state \in {"pass", "fail"}
  BY <1>1, <1>3, <1>5, KnownTooling DEF ReportChecks
<1>8. Own("tooling", IdealChecks) = {p, k} /\ p # k /\ k.state = all
  BY <1>2, <1>4, <1>6, KnownTooling DEF IdealChecks
<1>9. some = all => l = k
  <2>1. /\ MemberAt(Members(s), Root).path = Root
        /\ MemberAt(Members(r), Root).path = Root
    BY <1>1, <1>2, ReportedRepository, MembersOnce
  <2> QED
    BY <1>5, <1>6, <2>1 DEF LockAt, InspectionCheck
<1>10. /\ some \in {"pass", "fail", "not_applicable"}
       /\ all \in {"pass", "fail", "not_applicable"}
       /\ some = "not_applicable" <=> all = "not_applicable"
       /\ some = "pass" => all = "pass"
  BY <1>1, <1>2, LockfileStates
<1>11. p \in ReportChecks /\ p \in IdealChecks /\ p.category = "tooling"
  BY <1>7, <1>8 DEF Own
<1>12. /\ Scored("tooling", ReportChecks).status = "available"
       /\ Scored("tooling", IdealChecks).status = "available"
  BY <1>7, <1>11, ScoredOfKnown
<1> HIDE DEF some, all
<1>13. CASE some = all
  BY <1>7, <1>8, <1>9, <1>12, <1>13, OwnDecides
<1>14. CASE some # all
  <2>1. some = "fail" /\ all = "pass"
    BY <1>10, <1>14
  <2>2. /\ Scored("tooling", ReportChecks) = Available(Readiness({p, l}))
        /\ Scored("tooling", IdealChecks) = Available(Readiness({p, k}))
    BY <1>7, <1>8, <2>1, ScoreOfTwo
  <2>3. Readiness({p, l}) = (IF p.state = "pass" THEN 50 ELSE 0)
    BY <1>7, <2>1, ReadinessOfTwo
  <2>4. Readiness({p, k}) = (IF p.state = "pass" THEN 100 ELSE 50)
    BY <1>7, <1>8, <2>1, ReadinessOfTwo
  <2>5. CASE p.state = "pass"
    <3>1. /\ Scored("tooling", ReportChecks) = Available(50)
          /\ Scored("tooling", IdealChecks) = Available(100)
      BY <2>2, <2>3, <2>4, <2>5
    <3> QED
      BY <1>12, <3>1
  <2>6. CASE p.state # "pass"
    <3>1. /\ Scored("tooling", ReportChecks) = Available(0)
          /\ Scored("tooling", IdealChecks) = Available(50)
      BY <2>2, <2>3, <2>4, <2>6
    <3> QED
      BY <1>12, <3>1
  <2> QED
    BY <2>5, <2>6
<1> QED
  BY <1>13, <1>14

-----------------------------------------------------------------------------
(* The two risk bands. *)

LEMMA GreatestScore ==
    ASSUME NEW S, S \subseteq 0 .. 100, S # {}, NEW k, k = (CHOOSE s \in S : \A t \in S : t =< s)
    PROVE  k \in S /\ \A t \in S : t =< k
<1> DEFINE T == {100 - s : s \in S}
<1>1. \A s \in S : s \in 0 .. 100
  OBVIOUS
<1>2. T \subseteq Nat /\ T # {}
  <2>1. \A s \in 0 .. 100 : 100 - s \in Nat
    OBVIOUS
  <2> QED
    BY <1>1, <2>1
<1>3. \A s \in S : 100 - s \in T
  OBVIOUS
<1>4. \A t \in T : \E s \in S : t = 100 - s
  OBVIOUS
<1> HIDE DEF T
<1>5. PICK i \in T : \A j \in T : i =< j
  BY <1>2, LeastExists
<1>6. PICK s \in S : i = 100 - s
  BY <1>4
<1>7. \A t \in S : t =< s
  <2> TAKE t \in S
  <2>1. 100 - s =< 100 - t
    BY <1>3, <1>5, <1>6
  <2>2. s \in 0 .. 100 /\ t \in 0 .. 100
    BY <1>1
  <2> QED
    BY <2>1, <2>2
<1> QED
  BY <1>7

Rating(score) ==
    IF score = 0 THEN "none"
    ELSE IF score < 40 THEN "low"
    ELSE IF score < 70 THEN "medium"
    ELSE IF score < 90 THEN "high"
    ELSE "critical"

Rated(records, a) == {BaseScore[b] : b \in AdvisoryAliasGroup(records, a)} \ {Unrated}

LEMMA SeverityIs ==
    ASSUME NEW records, records \subseteq Advisory, NEW a
    PROVE  /\ Rated(records, a) \subseteq 0 .. 100
           /\ AdvisorySeverity(records, a) # "unknown" => Rated(records, a) # {}
           /\ Rated(records, a) # {} =>
                 \E k \in Rated(records, a) :
                    /\ \A t \in Rated(records, a) : t =< k
                    /\ AdvisorySeverity(records, a) = Rating(k)
<1>1. AdvisoryAliasGroup(records, a) \subseteq Advisory
  BY DEF AdvisoryAliasGroup
<1>2. Rated(records, a) \subseteq 0 .. 100
  <2>1. \A b \in Advisory : BaseScore[b] \in (0 .. 100) \cup {Unrated}
    BY AdvisoryAssumption
  <2> QED
    BY <1>1, <2>1 DEF Rated
<1>3. PICK k : k = (CHOOSE s \in Rated(records, a) : \A t \in Rated(records, a) : t =< s)
  OBVIOUS
<1>4. AdvisorySeverity(records, a) =
         IF Rated(records, a) = {} THEN "unknown" ELSE Rating(k)
  BY <1>3 DEF AdvisorySeverity, Rated, Rating
<1>5. Rated(records, a) # {} => k \in Rated(records, a) /\ \A t \in Rated(records, a) : t =< k
  BY <1>2, <1>3, GreatestScore
<1> QED
  BY <1>2, <1>4, <1>5

\* The more records there are, the worse an advisory is rated.
LEMMA SeverityGrows ==
    ASSUME NEW records, NEW more, records \subseteq more, more \subseteq Advisory, NEW a,
           AdvisorySeverity(records, a) # "unknown"
    PROVE  Band(AdvisorySeverity(more, a)) =< Band(AdvisorySeverity(records, a))
<1>1. Rated(records, a) \subseteq Rated(more, a)
  BY GroupsGrow DEF Rated
<1>2. Rated(records, a) # {} /\ Rated(more, a) \subseteq 0 .. 100
  BY <1>1, SeverityIs
<1>3. PICK k \in Rated(records, a) : AdvisorySeverity(records, a) = Rating(k)
  BY <1>2, SeverityIs
<1>4. PICK l \in Rated(more, a) : /\ \A t \in Rated(more, a) : t =< l
                                  /\ AdvisorySeverity(more, a) = Rating(l)
  BY <1>1, <1>2, SeverityIs
<1>5. k =< l /\ k \in 0 .. 100 /\ l \in 0 .. 100
  BY <1>1, <1>2, <1>3, <1>4
<1>6. Band(Rating(l)) =< Band(Rating(k))
  BY <1>5 DEF Band, Rating
<1> QED
  BY <1>3, <1>4, <1>6

\* What OSV would have said of a dependency.
LEMMA TrueActive ==
    ASSUME NEW m, NEW d, AdvisoryCheck(m, d, TrueOsv) # "unknown"
    PROVE  Active(m, d, TrueOsv) = Held(QueryOf(m, d)) \ Withdrawn
<1>1. PICK o : o = TrueOsv
  OBVIOUS
<1>2. PICK v : v = Effective(m, d)
  OBVIOUS
<1>3. /\ Queries(o, d.name, v) # {}
      /\ \A a \in Matches(o, d.name, v) : a \in o.records
  BY <1>1, <1>2, AdvisoryKnown
<1> DEFINE queries == {q \in ExactOsvQueries(Truth) : q.version # NoVersion}
           answers == {[name |-> q.name, version |-> q.version,
                        matches |-> UNION Range(PagesOf(queries)[q]), complete |-> TRUE] :
                          q \in queries}
<1>4. o.queries = answers
  BY <1>1 DEF TrueOsv
<1>5. ASSUME NEW x \in Queries(o, d.name, v)
      PROVE  x.matches = Held(QueryOf(m, d))
  <2>1. x \in answers /\ x.name = d.name /\ x.version = v
    BY <1>4 DEF Queries
  <2>2. PICK q \in queries :
           x = [name |-> q.name, version |-> q.version,
                matches |-> UNION Range(PagesOf(queries)[q]), complete |-> TRUE]
    BY <2>1
  <2>3. q.name = d.name /\ q.version = v /\ x.matches = UNION Range(PagesOf(queries)[q])
    BY <2>1, <2>2
  <2>4. x.matches = Held(q)
    <3> HIDE DEF queries
    <3> QED
      BY <2>3, HeldIs
  <2>5. q = [name |-> q.name, version |-> q.version]
    BY <2>2 DEF ExactOsvQueries
  <2>6. q = QueryOf(m, d)
    BY <1>2, <2>3, <2>5 DEF QueryOf
  <2> QED
    BY <2>4, <2>6
<1>6. Matches(o, d.name, v) = Held(QueryOf(m, d))
  BY <1>3, <1>5 DEF Matches
<1> QED
  BY <1>1, <1>2, <1>3, <1>6 DEF Active

\* A known dependency is rated no better than it deserves.
LEMMA RatedNoBetter ==
    ASSUME CollectedInv, at = "report", world.kind = "repository",
           KnownIn("security", ReportChecks),
           NEW m \in Members(Truth), NEW d \in ExternalDeclarations(m),
           AdvisoryCheck(m, d, TrueOsv) # "unknown"
    PROVE  \E y \in Members(project) :
              /\ d \in ExternalDeclarations(y)
              /\ Band(ObservedSeverity(y, d, OsvSnapshot)) =< Band(ObservedSeverity(m, d, TrueOsv))
<1>1. "security" \in Ceiling
  BY DEF Ceiling
<1>2. PICK y \in Members(project) :
         /\ d \in ExternalDeclarations(y)
         /\ Effective(y, d) # NoVersion => Effective(m, d) = Effective(y, d)
  BY <1>1, KnownVersions
<1>3. AdvisoryCheck(y, d, OsvSnapshot) # "unknown"
  BY <1>2, KnownSecurity
<1>4. PICK o : o = OsvSnapshot
  OBVIOUS
<1>5. PICK t : t = TrueOsv
  OBVIOUS
<1>6. PICK best : best = ObservedSeverity(m, d, t)
  OBVIOUS
<1>7. PICK worst : worst = ObservedSeverity(y, d, o)
  OBVIOUS
<1>8. /\ Effective(y, d) # NoVersion
      /\ Active(y, d, o) = Held(QueryOf(y, d)) \ Withdrawn
      /\ \A a \in Active(y, d, o) : AdvisorySeverity(o.records, a) # "unknown"
  BY <1>3, <1>4, KnownAdvisories
<1>9. QueryOf(y, d) = QueryOf(m, d)
  BY <1>2, <1>8 DEF QueryOf
<1>10. Active(y, d, o) = Active(m, d, t)
  BY <1>5, <1>8, <1>9, TrueActive
<1>11. t.records \subseteq o.records /\ o.records \subseteq Advisory
  BY <1>4, <1>5, TrueRecordsKnown, OsvIsSound DEF SoundOsv
<1>12. best \in Severity /\ worst \in Severity
  BY <1>6, <1>7, ObservedIs
<1>13. Band(worst) \in {0, 40, 70, 90, 100} /\ Band(best) \in {0, 40, 70, 90, 100}
  BY <1>12, BandValues
<1>14. CASE best = "none"
  <2>1. Band(best) = 100
    BY <1>14 DEF Band
  <2>2. Band(worst) =< Band(best)
    BY <1>13, <2>1
  <2> QED
    BY <1>2, <1>4, <1>5, <1>6, <1>7, <2>2
<1>15. CASE best # "none"
  <2>1. PICK a \in Active(m, d, t) : AdvisorySeverity(t.records, a) = best
    BY <1>6, <1>15, ObservedIs
  <2>2. PICK rating : rating = AdvisorySeverity(o.records, a)
    OBVIOUS
  <2>3. best # "unknown"
    BY <1>12 DEF Severity
  <2>4. Band(rating) =< Band(best)
    BY <1>11, <2>1, <2>2, <2>3, SeverityGrows
  <2>5. rating # "unknown"
    BY <1>8, <1>10, <2>1, <2>2
  <2>6. Band(worst) =< Band(rating)
    BY <1>7, <1>10, <2>1, <2>2, <2>5, ObservedIs
  <2>7. rating \in Severity
    BY <2>2, <2>5, Severities DEF Severity
  <2>8. Band(rating) \in {0, 40, 70, 90, 100}
    BY <2>7, BandValues
  <2>9. Band(worst) =< Band(best)
    BY <1>13, <2>4, <2>6, <2>8
  <2> QED
    BY <1>2, <1>4, <1>5, <1>6, <1>7, <2>9
<1> QED
  BY <1>14, <1>15

\* A security score is the least band of its checks.
LEMMA SecurityIs ==
    ASSUME NEW checks, \A c \in checks : c.severity \in Severity,
           Scored("security", checks).status = "available"
    PROVE  \E v \in {0, 40, 70, 90, 100} :
              /\ Scored("security", checks) = Available(v)
              /\ \E c \in checks : /\ c.category = "security" /\ c.state # "not_applicable"
                                   /\ Band(c.severity) = v
              /\ \A c \in checks : c.category = "security" /\ c.state # "not_applicable" =>
                                      v =< Band(c.severity)
<1> DEFINE own        == {c \in checks : c.category = "security"}
           applicable == own \ InState(own, "not_applicable")
           bands      == {Band(c.severity) : c \in applicable}
<1>1. /\ applicable # {}
      /\ Scored("security", checks) =
            Available(IF "security" \in Ceiling THEN RiskBand("security", applicable)
                                                ELSE Readiness(applicable))
  BY ScoreIs
<1>2. \A c : c \in applicable <=>
         c \in checks /\ c.category = "security" /\ c.state # "not_applicable"
  BY DEF InState
<1> HIDE DEF applicable
<1>3. Scored("security", checks) = Available(Min(bands))
  BY <1>1 DEF Ceiling, RiskBand
<1>4. \A c \in applicable : Band(c.severity) \in {0, 40, 70, 90, 100}
  BY <1>2, BandValues
<1>5. bands \subseteq {0, 40, 70, 90, 100} /\ bands # {}
  BY <1>1, <1>4
<1>6. \A c \in applicable : Band(c.severity) \in bands
  OBVIOUS
<1>7. \A b \in bands : \E c \in applicable : Band(c.severity) = b
  OBVIOUS
<1> HIDE DEF bands
<1>8. Min(bands) \in bands /\ \A x \in bands : Min(bands) =< x
  BY <1>5, LeastBand
<1>9. PICK v : v = Min(bands)
  OBVIOUS
<1>10. v \in {0, 40, 70, 90, 100} /\ Scored("security", checks) = Available(v)
  BY <1>3, <1>5, <1>8, <1>9
<1>11. PICK c \in applicable : Band(c.severity) = v
  BY <1>7, <1>8, <1>9
<1>12. \A x \in applicable : v =< Band(x.severity)
  BY <1>6, <1>8, <1>9
<1> QED
  BY <1>2, <1>10, <1>11, <1>12

\* A dependency score is 70 when something is deprecated, else 100.
LEMMA DependenciesAre ==
    ASSUME NEW checks, Scored("dependencies", checks).status = "available"
    PROVE  \/ /\ Scored("dependencies", checks) = Available(70)
              /\ \E c \in checks : c.category = "dependencies" /\ c.state = "fail"
           \/ /\ Scored("dependencies", checks) = Available(100)
              /\ \A c \in checks : c.category = "dependencies" => c.state # "fail"
<1> DEFINE own        == {c \in checks : c.category = "dependencies"}
           applicable == own \ InState(own, "not_applicable")
<1>1. Scored("dependencies", checks) =
            Available(IF "dependencies" \in Ceiling THEN RiskBand("dependencies", applicable)
                                                    ELSE Readiness(applicable))
  BY ScoreIs
<1>2. InState(applicable, "fail") = {} <=>
         \A c \in checks : c.category = "dependencies" => c.state # "fail"
  BY DEF InState
<1> HIDE DEF applicable
<1>3. Scored("dependencies", checks) =
         Available(IF InState(applicable, "fail") = {} THEN 100 ELSE 70)
  BY <1>1 DEF Ceiling, RiskBand, Band
<1>4. CASE InState(applicable, "fail") = {}
  BY <1>2, <1>3, <1>4
<1>5. CASE InState(applicable, "fail") # {}
  BY <1>2, <1>3, <1>5
<1> QED
  BY <1>4, <1>5

LEMMA SecurityNotAbove ==
    ASSUME CollectedInv, at = "report", world.kind = "repository",
           Scored("security", ReportChecks).status = "available",
           Scored("security", IdealChecks).status = "available"
    PROVE  \E v, u \in {0, 40, 70, 90, 100} :
              /\ v =< u
              /\ Scored("security", ReportChecks) = Available(v)
              /\ Scored("security", IdealChecks) = Available(u)
<1>1. /\ KnownIn("security", ReportChecks) /\ KnownIn("security", IdealChecks)
  BY KnownWhenScored
<1>2. /\ \A c \in ReportChecks : c.severity \in Severity
      /\ \A c \in IdealChecks : c.severity \in Severity
  BY CheckSeverities DEF ReportChecks, IdealChecks
<1>3. PICK v \in {0, 40, 70, 90, 100} :
         /\ Scored("security", ReportChecks) = Available(v)
         /\ \A c \in ReportChecks : c.category = "security" /\ c.state # "not_applicable" =>
               v =< Band(c.severity)
  BY <1>2, SecurityIs
<1>4. PICK u \in {0, 40, 70, 90, 100} :
         /\ Scored("security", IdealChecks) = Available(u)
         /\ \E c \in IdealChecks : /\ c.category = "security" /\ c.state # "not_applicable"
                                   /\ Band(c.severity) = u
  BY <1>2, SecurityIs
<1>5. PICK c \in IdealChecks : /\ c.category = "security" /\ c.state # "not_applicable"
                               /\ Band(c.severity) = u
  BY <1>4
<1>6. c.state # "unknown"
  BY <1>1, <1>5 DEF KnownIn
<1>7. PICK m \in Members(Truth) : \E d \in ExternalDeclarations(m) :
         c.severity = ObservedSeverity(m, d, TrueOsv) /\ c.state = AdvisoryCheck(m, d, TrueOsv)
  BY <1>5, <1>6, SecurityChecks DEF IdealChecks
<1>8. PICK d \in ExternalDeclarations(m) :
         c.severity = ObservedSeverity(m, d, TrueOsv) /\ c.state = AdvisoryCheck(m, d, TrueOsv)
  BY <1>7
<1>9. PICK y \in Members(project) :
         /\ d \in ExternalDeclarations(y)
         /\ Band(ObservedSeverity(y, d, OsvSnapshot)) =< Band(ObservedSeverity(m, d, TrueOsv))
  BY <1>1, <1>6, <1>8, RatedNoBetter
<1>10. PICK x : x = DependencyCheck(y, "security", "advisories", d, AdvisoryCheck(y, d, OsvSnapshot),
                                    ObservedSeverity(y, d, OsvSnapshot))
  OBVIOUS
<1>11. x \in ReportChecks
  BY <1>9, <1>10, DeclarationChecks DEF ReportChecks
<1>12. /\ x.category = "security" /\ x.state # "not_applicable"
       /\ x.severity = ObservedSeverity(y, d, OsvSnapshot)
  BY <1>10, DependencyCheckFields, AdvisoryStates
<1>13. v =< Band(x.severity) /\ Band(x.severity) =< u
  BY <1>3, <1>5, <1>8, <1>9, <1>11, <1>12
<1>14. Band(x.severity) \in {0, 40, 70, 90, 100}
  BY <1>2, <1>11, BandValues
<1>15. v =< u
  BY <1>13, <1>14
<1> QED
  BY <1>3, <1>4, <1>15

\* What npm says is deprecated is deprecated in the report.
LEMMA DeprecationStays ==
    ASSUME CollectedInv, at = "report", world.kind = "repository",
           KnownIn("dependencies", ReportChecks),
           NEW m \in Members(Truth), NEW d \in ExternalDeclarations(m),
           DeprecationCheck(m, d, TrueRegistry) = "fail"
    PROVE  \E y \in Members(project) :
              d \in ExternalDeclarations(y) /\ DeprecationCheck(y, d, Registry) = "fail"
<1>1. "dependencies" \in Ceiling
  BY DEF Ceiling
<1>2. PICK y \in Members(project) :
         /\ d \in ExternalDeclarations(y)
         /\ Effective(y, d) # NoVersion => Effective(m, d) = Effective(y, d)
  BY <1>1, KnownVersions
<1>3. DeprecationCheck(y, d, Registry) # "unknown"
  BY <1>2, KnownDependencies
<1>4. PICK v : v = Effective(y, d)
  OBVIOUS
<1>5. v # NoVersion /\ v \in Registry[d.name].versions /\ v = Effective(m, d)
  BY <1>2, <1>3, <1>4, DeprecationKnown
<1>6. d.name \in DOMAIN world.registry
  BY TrueDeclarationsCovered
<1>7. Registry[d.name] = world.registry[d.name]
  BY <1>5, <1>6, AnswerIsTrue
<1>8. /\ v \in TrueRegistry[d.name].versions
      /\ v \in TrueRegistry[d.name].deprecated
  BY <1>5, DeprecationKnown
<1>9. TrueRegistry[d.name] = ParseNpmPackageMetadata(world.registry[d.name])
  BY <1>6 DEF TrueRegistry
<1>10. NoAnswer.versions = {}
  BY DEF NoAnswer
<1>11. TrueRegistry[d.name] = world.registry[d.name]
  BY <1>8, <1>9, <1>10 DEF ParseNpmPackageMetadata
<1>12. DeprecationCheck(y, d, Registry) = "fail"
  BY <1>3, <1>4, <1>7, <1>8, <1>11, DeprecationKnown
<1> QED
  BY <1>2, <1>12

LEMMA DependenciesNotAbove ==
    ASSUME CollectedInv, at = "report", world.kind = "repository",
           Scored("dependencies", ReportChecks).status = "available",
           Scored("dependencies", IdealChecks).status = "available"
    PROVE  \E v, u \in {70, 100} :
              /\ v =< u
              /\ Scored("dependencies", ReportChecks) = Available(v)
              /\ Scored("dependencies", IdealChecks) = Available(u)
<1>1. KnownIn("dependencies", ReportChecks) /\ KnownIn("dependencies", IdealChecks)
  BY KnownWhenScored
<1>2. \/ Scored("dependencies", IdealChecks) = Available(100)
      \/ /\ Scored("dependencies", IdealChecks) = Available(70)
         /\ \E c \in IdealChecks : c.category = "dependencies" /\ c.state = "fail"
  BY DependenciesAre
<1>3. \/ Scored("dependencies", ReportChecks) = Available(70)
      \/ /\ Scored("dependencies", ReportChecks) = Available(100)
         /\ \A c \in ReportChecks : c.category = "dependencies" => c.state # "fail"
  BY DependenciesAre
<1>4. ASSUME NEW c \in IdealChecks, c.category = "dependencies", c.state = "fail"
      PROVE  \E x \in ReportChecks : x.category = "dependencies" /\ x.state = "fail"
  <2>1. PICK m \in Members(Truth) : \E d \in ExternalDeclarations(m) :
           \/ c = DependencyCheck(m, "dependencies", "deprecation", d,
                                  DeprecationCheck(m, d, TrueRegistry), "none")
           \/ c = DependencyCheck(m, "security", "advisories", d, AdvisoryCheck(m, d, TrueOsv),
                                  ObservedSeverity(m, d, TrueOsv))
    BY <1>4, DeclarationChecks DEF Ceiling, IdealChecks
  <2>2. PICK d \in ExternalDeclarations(m) :
           \/ c = DependencyCheck(m, "dependencies", "deprecation", d,
                                  DeprecationCheck(m, d, TrueRegistry), "none")
           \/ c = DependencyCheck(m, "security", "advisories", d, AdvisoryCheck(m, d, TrueOsv),
                                  ObservedSeverity(m, d, TrueOsv))
    BY <2>1
  <2>3. DeprecationCheck(m, d, TrueRegistry) = "fail"
    BY <1>4, <2>2, DependencyCheckFields
  <2>4. PICK y \in Members(project) :
           d \in ExternalDeclarations(y) /\ DeprecationCheck(y, d, Registry) = "fail"
    BY <1>1, <2>3, DeprecationStays
  <2>5. PICK x : x = DependencyCheck(y, "dependencies", "deprecation", d,
                                     DeprecationCheck(y, d, Registry), "none")
    OBVIOUS
  <2>6. x \in ReportChecks
    BY <2>4, <2>5, DeclarationChecks DEF ReportChecks
  <2>7. x.category = "dependencies" /\ x.state = "fail"
    BY <2>4, <2>5, DependencyCheckFields
  <2> QED
    BY <2>6, <2>7
<1> QED
  BY <1>2, <1>3, <1>4

-----------------------------------------------------------------------------
(* The mean of the categories. *)

Total(f, S) ==
    LET iter[s \in SUBSET S] ==
            IF s = {} THEN 0
            ELSE LET x == CHOOSE y \in s : TRUE
                 IN  f[x].value + iter[s \ {x}]
    IN  iter[S]

Part(f, c, s) == IF c \in s THEN f[c].value ELSE 0
Parts(f, s) ==
    Part(f, "dependencies", s) + Part(f, "security", s) + Part(f, "maintainability", s)
       + Part(f, "testing", s) + Part(f, "tooling", s)

LEMMA FewCategories ==
    ASSUME NEW S, S \subseteq Category
    PROVE  IsFiniteSet(S) /\ Cardinality(S) \in 0 .. 5
<1> DEFINE A == {"dependencies"}
           B == A \cup {"security"}
           C == B \cup {"maintainability"}
           D == C \cup {"testing"}
           E == D \cup {"tooling"}
<1>1. IsFiniteSet(A) /\ Cardinality(A) = 1
  BY FS_Singleton
<1>2. IsFiniteSet(B) /\ Cardinality(B) = 2
  BY <1>1, FS_AddElement
<1>3. IsFiniteSet(C) /\ Cardinality(C) = 3
  <2>1. "maintainability" \notin B
    OBVIOUS
  <2> HIDE DEF B
  <2> QED
    BY <1>2, <2>1, FS_AddElement
<1>4. IsFiniteSet(D) /\ Cardinality(D) = 4
  <2>1. "testing" \notin C
    OBVIOUS
  <2> HIDE DEF C
  <2> QED
    BY <1>3, <2>1, FS_AddElement
<1>5. IsFiniteSet(E) /\ Cardinality(E) = 5
  <2>1. "tooling" \notin D
    OBVIOUS
  <2> HIDE DEF D
  <2> QED
    BY <1>4, <2>1, FS_AddElement
<1>6. S \in SUBSET E
  BY DEF Category
<1> HIDE DEF E
<1>7. IsFiniteSet(S) /\ Cardinality(S) =< Cardinality(E)
  BY <1>5, <1>6, FS_Subset
<1>8. Cardinality(S) \in Nat
  BY <1>7, FS_CardinalityType
<1> QED
  BY <1>5, <1>7, <1>8

LEMMA PartsAre ==
    ASSUME NEW f, NEW s, s \subseteq Category, \A c \in s : f[c].value \in Nat
    PROVE  /\ Parts(f, s) \in Nat
           /\ s = {} => Parts(f, s) = 0
           /\ \A x \in s : Parts(f, s) = f[x].value + Parts(f, s \ {x})
<1>1. \A c : Part(f, c, s) \in Nat
  BY DEF Part
<1>2. Parts(f, s) \in Nat
  BY <1>1 DEF Parts
<1>3. s = {} => Parts(f, s) = 0
  BY DEF Parts, Part
<1>4. ASSUME NEW x \in s
      PROVE  Parts(f, s) = f[x].value + Parts(f, s \ {x})
  <2>1. Part(f, x, s) = f[x].value /\ Part(f, x, s \ {x}) = 0
    BY DEF Part
  <2>2. \A c : c # x => Part(f, c, s \ {x}) = Part(f, c, s)
    BY DEF Part
  <2>3. x \in {"dependencies", "security", "maintainability", "testing", "tooling"}
    BY DEF Category
  <2>4. f[x].value \in Nat
    OBVIOUS
  <2>5. PICK a \in Nat : a = Part(f, "dependencies", s)
    BY <1>1
  <2>6. PICK b \in Nat : b = Part(f, "security", s)
    BY <1>1
  <2>7. PICK c \in Nat : c = Part(f, "maintainability", s)
    BY <1>1
  <2>8. PICK d \in Nat : d = Part(f, "testing", s)
    BY <1>1
  <2>9. PICK e \in Nat : e = Part(f, "tooling", s)
    BY <1>1
  <2>10. Parts(f, s) = a + b + c + d + e
    BY <2>5, <2>6, <2>7, <2>8, <2>9 DEF Parts
  <2>11. CASE x = "dependencies"
    <3>1. /\ Part(f, "dependencies", s \ {x}) = 0
       /\ Part(f, "security", s \ {x}) = b
       /\ Part(f, "maintainability", s \ {x}) = c
       /\ Part(f, "testing", s \ {x}) = d
       /\ Part(f, "tooling", s \ {x}) = e
      BY <2>1, <2>2, <2>5, <2>6, <2>7, <2>8, <2>9, <2>11
    <3>2. Parts(f, s \ {x}) = 0 + b + c + d + e
      BY <3>1 DEF Parts
    <3>3. f[x].value = a
      BY <2>1, <2>5, <2>11
    <3> QED
      BY <2>10, <3>2, <3>3
  <2>12. CASE x = "security"
    <3>1. /\ Part(f, "dependencies", s \ {x}) = a
       /\ Part(f, "security", s \ {x}) = 0
       /\ Part(f, "maintainability", s \ {x}) = c
       /\ Part(f, "testing", s \ {x}) = d
       /\ Part(f, "tooling", s \ {x}) = e
      BY <2>1, <2>2, <2>5, <2>6, <2>7, <2>8, <2>9, <2>12
    <3>2. Parts(f, s \ {x}) = a + 0 + c + d + e
      BY <3>1 DEF Parts
    <3>3. f[x].value = b
      BY <2>1, <2>6, <2>12
    <3> QED
      BY <2>10, <3>2, <3>3
  <2>13. CASE x = "maintainability"
    <3>1. /\ Part(f, "dependencies", s \ {x}) = a
       /\ Part(f, "security", s \ {x}) = b
       /\ Part(f, "maintainability", s \ {x}) = 0
       /\ Part(f, "testing", s \ {x}) = d
       /\ Part(f, "tooling", s \ {x}) = e
      BY <2>1, <2>2, <2>5, <2>6, <2>7, <2>8, <2>9, <2>13
    <3>2. Parts(f, s \ {x}) = a + b + 0 + d + e
      BY <3>1 DEF Parts
    <3>3. f[x].value = c
      BY <2>1, <2>7, <2>13
    <3> QED
      BY <2>10, <3>2, <3>3
  <2>14. CASE x = "testing"
    <3>1. /\ Part(f, "dependencies", s \ {x}) = a
       /\ Part(f, "security", s \ {x}) = b
       /\ Part(f, "maintainability", s \ {x}) = c
       /\ Part(f, "testing", s \ {x}) = 0
       /\ Part(f, "tooling", s \ {x}) = e
      BY <2>1, <2>2, <2>5, <2>6, <2>7, <2>8, <2>9, <2>14
    <3>2. Parts(f, s \ {x}) = a + b + c + 0 + e
      BY <3>1 DEF Parts
    <3>3. f[x].value = d
      BY <2>1, <2>8, <2>14
    <3> QED
      BY <2>10, <3>2, <3>3
  <2>15. CASE x = "tooling"
    <3>1. /\ Part(f, "dependencies", s \ {x}) = a
       /\ Part(f, "security", s \ {x}) = b
       /\ Part(f, "maintainability", s \ {x}) = c
       /\ Part(f, "testing", s \ {x}) = d
       /\ Part(f, "tooling", s \ {x}) = 0
      BY <2>1, <2>2, <2>5, <2>6, <2>7, <2>8, <2>9, <2>15
    <3>2. Parts(f, s \ {x}) = a + b + c + d + 0
      BY <3>1 DEF Parts
    <3>3. f[x].value = e
      BY <2>1, <2>9, <2>15
    <3> QED
      BY <2>10, <3>2, <3>3
  <2> QED
    BY <2>3, <2>11, <2>12, <2>13, <2>14, <2>15
<1> QED
  BY <1>2, <1>3, <1>4

LEMMA TotalIs ==
    ASSUME NEW f, NEW S, S \subseteq Category, \A c \in S : f[c].value \in Nat
    PROVE  Total(f, S) = Parts(f, S)
<1> DEFINE pick(s)  == CHOOSE y \in s : TRUE
           step(g)  == [s \in SUBSET S |->
                          IF s = {} THEN 0 ELSE f[pick(s)].value + g[s \ {pick(s)}]]
           whole    == [s \in SUBSET S |-> Parts(f, s)]
<1>1. whole = step(whole)
  <2>1. ASSUME NEW s \in SUBSET S
        PROVE  whole[s] = step(whole)[s]
    <3>1. \A c \in s : f[c].value \in Nat
      OBVIOUS
    <3>2. s \subseteq Category
      OBVIOUS
    <3>3. CASE s = {}
      BY <3>1, <3>2, <3>3, PartsAre
    <3>4. CASE s # {}
      <4>1. pick(s) \in s
        BY <3>4
      <4>2. whole[s \ {pick(s)}] = Parts(f, s \ {pick(s)})
        OBVIOUS
      <4>3. Parts(f, s) = f[pick(s)].value + Parts(f, s \ {pick(s)})
        BY <3>1, <3>2, <4>1, PartsAre
      <4> QED
        BY <3>4, <4>2, <4>3
    <3> QED
      BY <3>3, <3>4
  <2> QED
    BY <2>1
<1>2. PICK iter : iter = (CHOOSE g : g = step(g))
  OBVIOUS
<1>3. iter = step(iter)
  <2> HIDE DEF step, whole
  <2>1. \E g : g = step(g)
    BY <1>1, Zenon
  <2>2. (CHOOSE g : g = step(g)) = step(CHOOSE g : g = step(g))
    BY <2>1, Zenon
  <2> QED
    BY <1>2, <2>2, Zenon
<1>4. Total(f, S) = iter[S]
  BY <1>2 DEF Total
<1>5. \A s \in SUBSET S : iter[s] = IF s = {} THEN 0 ELSE f[pick(s)].value + iter[s \ {pick(s)}]
  BY <1>3
<1>6. ASSUME \E s \in SUBSET S : iter[s] # Parts(f, s)
      PROVE  FALSE
  <2> DEFINE wrong == {s \in SUBSET S : iter[s] # Parts(f, s)}
             sizes == {Cardinality(s) : s \in wrong}
  <2>1. \A s \in wrong : s \subseteq Category /\ IsFiniteSet(s) /\ Cardinality(s) \in Nat
    BY FewCategories
  <2>2. sizes \subseteq Nat /\ sizes # {}
    BY <1>6, <2>1
  <2>3. PICK n \in sizes : \A k \in sizes : n =< k
    BY <2>2, LeastExists
  <2>4. PICK s \in wrong : n = Cardinality(s)
    BY <2>3
  <2>5. s \subseteq Category /\ IsFiniteSet(s) /\ (\A c \in s : f[c].value \in Nat)
    BY <2>1
  <2>6. s # {}
    BY <1>5, <2>5, PartsAre
  <2>7. PICK x : x = pick(s)
    OBVIOUS
  <2>8. x \in s
    BY <2>6, <2>7
  <2>9. Cardinality(s \ {x}) = Cardinality(s) - 1
    BY <2>5, <2>8, FS_RemoveElement
  <2>10. s \ {x} \notin wrong
    <3>1. SUFFICES ASSUME s \ {x} \in wrong PROVE FALSE
      OBVIOUS
    <3>2. n =< Cardinality(s \ {x})
      BY <2>3, <3>1
    <3>3. n \in Nat
      BY <2>2
    <3> QED
      BY <2>4, <2>9, <3>2, <3>3
  <2>11. iter[s \ {x}] = Parts(f, s \ {x})
    BY <2>10
  <2>12. iter[s] = f[x].value + Parts(f, s \ {x})
    BY <1>5, <2>6, <2>7, <2>11
  <2>13. iter[s] = Parts(f, s)
    BY <2>5, <2>8, <2>12, PartsAre
  <2> QED
    BY <2>13
<1> QED
  BY <1>4, <1>6

LEMMA DivGrows ==
    ASSUME NEW a \in Nat, NEW b \in Nat, a =< b, NEW n \in 1 .. 5
    PROVE  a \div n \in Nat /\ b \div n \in Nat /\ a \div n =< b \div n
<1>1. CASE n = 1
  BY <1>1
<1>2. CASE n = 2
  BY <1>2
<1>3. CASE n = 3
  BY <1>3
<1>4. CASE n = 4
  BY <1>4
<1>5. CASE n = 5
  BY <1>5
<1> QED
  BY <1>1, <1>2, <1>3, <1>4, <1>5

-----------------------------------------------------------------------------
(* Every score is a natural number. *)

LEMMA ShareIsNatural ==
    ASSUME NEW a \in Nat, NEW n \in Nat, n # 0
    PROVE  (100 * a) \div n \in Nat
<1> DEFINE b == 100 * a
<1>1. b \in Nat
  OBVIOUS
<1> HIDE DEF b
<1>2. b \div n \in Nat
  BY <1>1
<1> QED
  BY <1>2 DEF b

LEMMA ReadinessIsNatural ==
    ASSUME NEW s, NEW members, NEW registry, NEW o, IsFiniteSet(members),
           NEW checks, checks = InspectionChecks(s, members, registry, o),
           NEW category \in SetupCategory, Scored(category, checks).status = "available"
    PROVE  Scored(category, checks).value \in Nat
<1> DEFINE own        == {c \in checks : c.category = category}
           applicable == own \ InState(own, "not_applicable")
<1>1. /\ InState(own, "unknown") = {} /\ applicable # {}
      /\ Scored(category, checks) =
            Available(IF category \in Ceiling THEN RiskBand(category, applicable)
                                              ELSE Readiness(applicable))
  BY ScoreIs
<1>2. Scored(category, checks).value = Readiness(applicable)
  BY <1>1, AvailableIs DEF Ceiling, SetupCategory
<1>3. \A c \in applicable : c \in checks /\ c.category = category /\ c.state # "unknown"
  BY <1>1 DEF InState
<1> HIDE DEF applicable
<1>4. IsFiniteSet(applicable)
  BY <1>3, FiniteSetup
<1>5. Cardinality(applicable) \in Nat /\ Cardinality(applicable) # 0
  BY <1>1, <1>4, FS_CardinalityType, FS_EmptySet
<1>6. InState(applicable, "pass") \subseteq applicable
  BY DEF InState
<1>7. Cardinality(InState(applicable, "pass")) \in Nat
  BY <1>4, <1>6, FS_Subset, FS_CardinalityType
<1>8. Readiness(applicable) \in Nat
  BY <1>5, <1>7, ShareIsNatural DEF Readiness
<1> QED
  BY <1>2, <1>8

LEMMA FiniteByManifests ==
    ASSUME NEW s, IsFiniteSet(Manifests(s))
    PROVE  IsFiniteSet(Members(s))
<1> DEFINE g == [m \in Manifests(s) |-> Member(s, m)]
<1>1. DOMAIN g = Manifests(s) /\ Members(s) = {g[m] : m \in DOMAIN g} /\ g = [m \in DOMAIN g |-> g[m]]
  BY DEF Members
<1> HIDE DEF g
<1> QED
  BY <1>1, FiniteValues

LEMMA FiniteMembersOfBoth ==
    ASSUME CollectedInv, at = "report"
    PROVE  IsFiniteSet(Members(project)) /\ IsFiniteSet(Members(Truth))
<1>1. CASE world.kind = "repository"
  <2>1. PICK w : w = world
    OBVIOUS
  <2>2. w \in World /\ project = Acquired(w.repository, w.lost) /\ Truth = w.repository
    BY <1>1, <2>1, ReportedRepository
  <2>3. IsFiniteSet(Members(project))
    BY <2>2, FiniteMembers
  <2>4. PICK r : r = w.repository
    OBVIOUS
  <2>5. OnePerPath(r) /\ IsFiniteSet(r.manifests)
    BY <2>2, <2>4, WorldAssumption, RepositoryOnce
  <2>6. IsFiniteSet(Manifests(r))
    BY <2>5, ManifestsExist, FS_Subset
  <2> QED
    BY <2>2, <2>3, <2>4, <2>6, FiniteByManifests
<1>2. CASE world.kind # "repository"
  <2>1. world \in World /\ Truth = project /\ project = ManifestOnly(world.repository)
    BY <1>2, ReportedProject DEF CollectedInv
  <2>2. PICK s : s = project
    OBVIOUS
  <2>3. s.patterns = "none"
    BY <2>1, <2>2, ManifestFields
  <2>4. Manifests(s) = {RootManifest(s)}
    BY <2>3 DEF Manifests, Selected
  <2>5. IsFiniteSet(Manifests(s))
    BY <2>4, FS_Singleton
  <2> QED
    BY <2>1, <2>2, <2>5, FiniteByManifests
<1> QED
  BY <1>1, <1>2

LEMMA ScoresAreNatural ==
    ASSUME NEW s, NEW members, NEW registry, NEW o, IsFiniteSet(members),
           NEW checks, checks = InspectionChecks(s, members, registry, o),
           NEW category \in Category, Scored(category, checks).status = "available"
    PROVE  Scored(category, checks).value \in Nat
<1>1. CASE category \in SetupCategory
  BY <1>1, ReadinessIsNatural
<1>2. CASE category = "security"
  <2>1. \A c \in checks : c.severity \in Severity
    BY CheckSeverities
  <2>2. PICK v \in {0, 40, 70, 90, 100} : Scored("security", checks) = Available(v)
    BY <1>2, <2>1, SecurityIs
  <2>3. Scored("security", checks).value = v
    BY <2>2, AvailableIs
  <2> QED
    BY <1>2, <2>3
<1>3. CASE category = "dependencies"
  <2>1. PICK v \in {70, 100} : Scored("dependencies", checks) = Available(v)
    BY <1>3, DependenciesAre
  <2>2. Scored("dependencies", checks).value = v
    BY <2>1, AvailableIs
  <2> QED
    BY <1>3, <2>2
<1> QED
  BY <1>1, <1>2, <1>3 DEF Category, SetupCategory

LEMMA ReportedScoresAreNatural ==
    ASSUME CollectedInv, at = "report", NEW category \in Category
    PROVE  /\ Scored(category, ReportChecks).status = "available" =>
                 Scored(category, ReportChecks).value \in Nat
           /\ Scored(category, IdealChecks).status = "available" =>
                 Scored(category, IdealChecks).value \in Nat
<1>1. IsFiniteSet(Members(project)) /\ IsFiniteSet(Members(Truth))
  BY FiniteMembersOfBoth
<1> QED
  BY <1>1, ScoresAreNatural DEF ReportChecks, IdealChecks

-----------------------------------------------------------------------------
(* No category is rated above what all the evidence gives it. *)

LEMMA CategoryNotAbove ==
    ASSUME CollectedInv, at = "report",
           world.kind = "repository" => KeepsRole(world), "configuration" \notin world.lost,
           NEW category \in Category
    PROVE  NotAbove(Scored(category, ReportChecks), Scored(category, IdealChecks))
<1> DEFINE some == Scored(category, ReportChecks)
           all  == Scored(category, IdealChecks)
<1> SUFFICES ASSUME some.status = "available", all.status = "available"
             PROVE  some.value =< all.value
  BY DEF NotAbove
<1>1. some.value \in Nat /\ all.value \in Nat
  BY ReportedScoresAreNatural
<1>2. KnownIn(category, ReportChecks) /\ KnownIn(category, IdealChecks)
  BY KnownWhenScored
<1>3. CASE world.kind # "repository"
  <2>1. some = all
    BY <1>2, <1>3, ManifestSame, OwnDecides
  <2> QED
    BY <1>1, <2>1
<1>4. CASE world.kind = "repository" /\ category \in {"maintainability", "testing"}
  <2>1. some = all
    BY <1>2, <1>4, SafeguardsSame, OwnDecides
  <2> QED
    BY <1>1, <2>1
<1>5. ASSUME NEW v \in Nat, NEW u \in Nat, v =< u, some = Available(v), all = Available(u)
      PROVE  some.value =< all.value
  BY <1>5, AvailableIs
<1> HIDE DEF some, all
<1>6. CASE world.kind = "repository" /\ category = "tooling"
  <2>1. \/ some = all
        \/ \E v, u \in {0, 50, 100} : v =< u /\ some = Available(v) /\ all = Available(u)
    BY <1>2, <1>6, ToolingNotAbove DEF some, all
  <2> QED
    BY <1>1, <1>5, <2>1
<1>7. CASE world.kind = "repository" /\ category = "security"
  <2>1. \E v, u \in {0, 40, 70, 90, 100} : v =< u /\ some = Available(v) /\ all = Available(u)
    BY <1>7, SecurityNotAbove DEF some, all
  <2> QED
    BY <1>5, <2>1
<1>8. CASE world.kind = "repository" /\ category = "dependencies"
  <2>1. \E v, u \in {70, 100} : v =< u /\ some = Available(v) /\ all = Available(u)
    BY <1>8, DependenciesNotAbove DEF some, all
  <2> QED
    BY <1>5, <2>1
<1> QED
  BY <1>3, <1>4, <1>6, <1>7, <1>8 DEF Category

-----------------------------------------------------------------------------
(* The categories that count are the same with and without the evidence. *)

LEMMA ScoredStatus ==
    ASSUME NEW category, NEW checks
    PROVE  /\ Scored(category, checks).status
                 \in {"available", "not_applicable", "insufficient_evidence"}
           /\ Scored(category, checks).status # "insufficient_evidence" => KnownIn(category, checks)
<1> DEFINE own        == {x \in checks : x.category = category}
           applicable == own \ InState(own, "not_applicable")
<1>1. Scored(category, checks) =
        IF own = {} \/ InState(own, "unknown") # {} THEN Insufficient
        ELSE IF applicable = {} THEN NotApplicable
        ELSE Available(IF category \in Ceiling THEN RiskBand(category, applicable)
                                               ELSE Readiness(applicable))
  BY DEF Scored, CategoryScore
<1>2. /\ Insufficient.status = "insufficient_evidence"
      /\ NotApplicable.status = "not_applicable"
      /\ \A v : Available(v).status = "available"
  BY DEF Insufficient, NotApplicable, Available
<1>3. InState(own, "unknown") = {} => KnownIn(category, checks)
  BY DEF InState, KnownIn
<1> HIDE DEF own, applicable
<1>4. \/ Scored(category, checks) = Insufficient
      \/ /\ InState(own, "unknown") = {}
         /\ \/ Scored(category, checks) = NotApplicable
            \/ \E v : Scored(category, checks) = Available(v)
  BY <1>1
<1> QED
  BY <1>2, <1>3, <1>4

\* A risk category counts when something is installed from a registry.
LEMMA RiskApplies ==
    ASSUME NEW s, NEW members, NEW registry, NEW o,
           NEW checks, checks = InspectionChecks(s, members, registry, o),
           NEW category \in Ceiling, KnownIn(category, checks)
    PROVE  Scored(category, checks).status = "available"
              <=> \E m \in members : ExternalDeclarations(m) # {}
<1>1. ASSUME Scored(category, checks).status = "available"
      PROVE  \E m \in members : ExternalDeclarations(m) # {}
  <2> DEFINE own        == {x \in checks : x.category = category}
             applicable == own \ InState(own, "not_applicable")
  <2>1. InState(own, "unknown") = {} /\ applicable # {}
    BY <1>1, ScoreIs
  <2>2. PICK c \in checks : /\ c.category = category
                            /\ c.state # "unknown" /\ c.state # "not_applicable"
    BY <2>1 DEF InState
  <2>3. PICK m \in members : \E d \in ExternalDeclarations(m) :
           \/ c = DependencyCheck(m, "dependencies", "deprecation", d,
                                  DeprecationCheck(m, d, registry), "none")
           \/ c = DependencyCheck(m, "security", "advisories", d, AdvisoryCheck(m, d, o),
                                  ObservedSeverity(m, d, o))
    BY <2>2, DeclarationChecks
  <2> QED
    BY <2>3
<1>2. ASSUME NEW m \in members, NEW d \in ExternalDeclarations(m)
      PROVE  Scored(category, checks).status = "available"
  <2>1. CASE category = "security"
    <3>1. PICK c : c = DependencyCheck(m, "security", "advisories", d, AdvisoryCheck(m, d, o),
                                       ObservedSeverity(m, d, o))
      OBVIOUS
    <3>2. c \in checks
      BY <3>1, DeclarationChecks
    <3>3. c.category = "security" /\ c.state = AdvisoryCheck(m, d, o)
      BY <3>1, DependencyCheckFields
    <3>4. c.state # "not_applicable"
      BY <3>3, AdvisoryStates
    <3> QED
      BY <2>1, <3>2, <3>3, <3>4, ScoredOfKnown
  <2>2. CASE category = "dependencies"
    <3>1. PICK c : c = DependencyCheck(m, "dependencies", "deprecation", d,
                                       DeprecationCheck(m, d, registry), "none")
      OBVIOUS
    <3>2. c \in checks
      BY <3>1, DeclarationChecks
    <3>3. c.category = "dependencies" /\ c.state = DeprecationCheck(m, d, registry)
      BY <3>1, DependencyCheckFields
    <3>4. c.state # "not_applicable"
      BY <3>3 DEF DeprecationCheck
    <3> QED
      BY <2>2, <3>2, <3>3, <3>4, ScoredOfKnown
  <2> QED
    BY <2>1, <2>2 DEF Ceiling
<1> QED
  BY <1>1, <1>2

\* What a lockfile shows to be a link to a member is not taken for a package of
\* npm when the lockfile is lost.
LEMMA LinkedIsNotExternal ==
    ASSUME NEW manager, manager \in Manager \cup {NoManager}, NEW locks, NEW members, NEW d,
           NEW importer,
           \A l \in locks : \A e \in l.installed : e.target # Root,
           NpmLink(manager, locks, members, d, importer) = "internal"
    PROVE  NpmLink(manager, {}, members, d, importer) = "unresolved"
<1> DEFINE chosen      == SelectLockfile(manager, locks).chosen
           npmLocks    == {l \in locks : l.manager = "npm"}
           readable    == {l \in npmLocks : l.readable /\ l.format >= 2}
           found       == UNION {Installed(l, d.name, importer) : l \in readable}
           linked      == {e \in found : e.target # NoTarget}
           sameName    == \E m \in members : m.path # Root /\ m.packageName = d.name
           declared    == \E l \in readable :
                             [importer |-> importer, group |-> d.group,
                              name |-> d.name, spec |-> d.spec] \in l.declared
           other       == \E l \in chosen : l.manager # "npm"
           none        == chosen = {} /\ npmLocks = {} /\ manager \notin {"npm", NoManager}
           target      == \E e \in linked, m \in members : m.path = e.target /\ m.packageName = d.name
<1>1. NpmLink(manager, locks, members, d, importer) =
         CASE other -> "external"
           [] none  -> "external"
           [] OTHER ->
              IF linked = {}
              THEN IF \/ ~sameName
                      \/ chosen # {} /\ found # {} /\ declared
                   THEN "external" ELSE "unresolved"
              ELSE IF chosen # {} /\ declared /\ target
                   THEN "internal" ELSE "unresolved"
  BY DEF NpmLink
<1>2. chosen # {} /\ ~other /\ target
  <2> HIDE DEF chosen, found, linked, declared, other, none, target, sameName
  <2>1. ~other /\ ~none /\ linked # {} /\ chosen # {} /\ declared /\ target
    BY <1>1
  <2> QED
    BY <2>1
<1>3. manager \in {"npm", NoManager}
  <2>1. chosen # {} /\ \A l \in chosen : l.manager = "npm"
    BY <1>2
  <2>2. manager \in Manager => chosen \subseteq {l \in locks : l.manager = manager}
    BY DEF SelectLockfile, Selection
  <2> HIDE DEF chosen
  <2> QED
    BY <2>1, <2>2
<1>4. sameName
  <2>1. PICK e \in linked : \E m \in members : m.path = e.target /\ m.packageName = d.name
    BY <1>2
  <2>2. PICK m \in members : m.path = e.target /\ m.packageName = d.name
    BY <2>1
  <2>3. PICK l \in locks : e \in Installed(l, d.name, importer)
    BY <2>1
  <2>4. e \in l.installed
    BY <2>3 DEF Installed
  <2> QED
    BY <2>2, <2>4
<1> HIDE DEF chosen, found, linked, declared, other, none, target
<1>5. PICK empty : empty = {}
  OBVIOUS
<1> DEFINE chosen2   == SelectLockfile(manager, empty).chosen
           npm2      == {l \in empty : l.manager = "npm"}
           readable2 == {l \in npm2 : l.readable /\ l.format >= 2}
           found2    == UNION {Installed(l, d.name, importer) : l \in readable2}
           linked2   == {e \in found2 : e.target # NoTarget}
           declared2 == \E l \in readable2 :
                             [importer |-> importer, group |-> d.group,
                              name |-> d.name, spec |-> d.spec] \in l.declared
           other2    == \E l \in chosen2 : l.manager # "npm"
           none2     == chosen2 = {} /\ npm2 = {} /\ manager \notin {"npm", NoManager}
           target2   == \E e \in linked2, m \in members : m.path = e.target /\ m.packageName = d.name
<1>6. NpmLink(manager, empty, members, d, importer) =
         CASE other2 -> "external"
           [] none2  -> "external"
           [] OTHER ->
              IF linked2 = {}
              THEN IF \/ ~sameName
                      \/ chosen2 # {} /\ found2 # {} /\ declared2
                   THEN "external" ELSE "unresolved"
              ELSE IF chosen2 # {} /\ declared2 /\ target2
                   THEN "internal" ELSE "unresolved"
  BY DEF NpmLink
<1>7. chosen2 = {}
  BY <1>5 DEF SelectLockfile, Selection
<1>8. linked2 = {}
  BY <1>5
<1>9. ~other2 /\ ~none2
  BY <1>3, <1>7
<1> HIDE DEF chosen2, found2, linked2, declared2, other2, none2, target2, sameName
<1> QED
  BY <1>4, <1>5, <1>6, <1>7, <1>8, <1>9

\* Without its lockfile a repository has no package of npm that it would not
\* have with it.
LEMMA ExternalIsTrue ==
    ASSUME NEW w \in World, NEW s, s = Acquired(w.repository, w.lost), AllKept(w.repository, s),
           w.repository.manager \in Manager \cup {NoManager}, s.locks = {},
           "workspace_dependency_unresolved" \notin WorkspaceIssues(s),
           "workspace_dependency_unresolved" \notin WorkspaceIssues(w.repository),
           NEW m \in Manifests(w.repository), NEW y \in Manifests(s), y.path = m.path,
           NEW x, x \in Declarations(s, y), IsExternalDependency(x)
    PROVE  x \in Declarations(w.repository, m)
<1> DEFINE r == w.repository
<1>1. y.raw = m.raw
  BY SamePath
<1>2. PICK e \in m.raw : x = Declared(s, e, m.path)
  BY <1>1, DeclarationsAre
<1>3. x.name = e.name /\ x.spec = e.spec /\ x.group = e.group /\ x.link = LinkOf(s, e, m.path)
  BY <1>2, DeclaredFields
<1>4. e.group # PeerGroup /\ e.spec # InternalProtocol /\ LinkOf(s, e, m.path) = "external"
  BY <1>3 DEF IsExternalDependency
<1>5. /\ LinkOf(r, e, m.path) = NpmLink(r.manager, r.locks, Manifests(r), e, m.path)
      /\ LinkOf(s, e, m.path) = NpmLink(s.manager, s.locks, Manifests(s), e, m.path)
  BY <1>4 DEF LinkOf
<1>6. s.manager = r.manager
  BY AcquiredFields
<1>7. NpmLink(r.manager, {}, Manifests(r), e, m.path) = "external"
  <2>1. NpmLink(r.manager, {}, Manifests(s), e, m.path)
           = NpmLink(r.manager, {}, Manifests(r), e, m.path)
    BY KeptBothWays, LinkSame
  <2> QED
    BY <1>4, <1>5, <1>6, <2>1
<1>8. LinkOf(r, e, m.path) # "internal"
  <2> SUFFICES ASSUME LinkOf(r, e, m.path) = "internal" PROVE FALSE
    OBVIOUS
  <2>1. NpmLink(r.manager, r.locks, Manifests(r), e, m.path) = "internal"
    BY <1>5
  <2>2. \A l \in r.locks : \A i \in l.installed : i.target # Root
    BY LinkAssumption
  <2>3. NpmLink(r.manager, {}, Manifests(r), e, m.path) = "unresolved"
    BY <2>1, <2>2, LinkedIsNotExternal
  <2> QED
    BY <1>7, <2>3
<1>9. LinkOf(r, e, m.path) # "unresolved"
  <2>1. PICK z : z = Declared(r, e, m.path)
    OBVIOUS
  <2>2. z \in Declarations(r, m) /\ z.link = LinkOf(r, e, m.path)
    BY <2>1, DeclarationsAre, DeclaredFields
  <2> QED
    BY <2>2, UnresolvedIsAnIssue
<1>10. LinkOf(r, e, m.path) = "external"
  BY <1>5, <1>8, <1>9, LinkValues
<1>11. x = Declared(r, e, m.path)
  BY <1>2, <1>4, <1>10 DEF Declared
<1> QED
  BY <1>11, DeclarationsAre

\* With all of its evidence and without it the same categories of a report count,
\* when each is known and no link to a member is taken for a package of npm.
LEMMA SameApply ==
    ASSUME CollectedInv, at = "report",
           world.kind = "repository" => KeepsRole(world), "configuration" \notin world.lost,
           LinksAreKept,
           \A c \in Category : KnownIn(c, ReportChecks) /\ KnownIn(c, IdealChecks),
           NEW category \in Category
    PROVE  Scored(category, ReportChecks).status = "available"
              <=> Scored(category, IdealChecks).status = "available"
<1>1. CASE world.kind # "repository"
  BY <1>1, ManifestSame, OwnDecides
<1>2. CASE world.kind = "repository" /\ category \in {"maintainability", "testing"}
  BY <1>2, SafeguardsSame, OwnDecides
<1>3. CASE world.kind = "repository" /\ category = "tooling"
  BY <1>3, ToolingNotAbove
<1>4. CASE world.kind = "repository" /\ category \in Ceiling
  <2>1. PICK w : w = world
    OBVIOUS
  <2>2. PICK s : s = project
    OBVIOUS
  <2>3. PICK r : r = w.repository
    OBVIOUS
  <2>4. w \in World /\ s = Acquired(w.repository, w.lost) /\ Truth = r
    BY <1>4, <2>1, <2>2, <2>3, ReportedRepository
  <2>5. /\ AllKept(w.repository, s)
        /\ "workspace_dependency_unresolved" \notin WorkspaceIssues(s)
    BY <1>4, <2>1, <2>2, KnownKeeps DEF Ceiling
  <2>6. "workspace_dependency_unresolved" \notin WorkspaceIssues(w.repository)
    <3> SUFFICES ASSUME "workspace_dependency_unresolved" \in WorkspaceIssues(Truth) PROVE FALSE
      BY <2>3, <2>4
    <3>1. PICK c : c = InspectionCheck(MemberAt(Members(Truth), Root), "tooling",
                                       "workspace.resolution", "unknown")
      OBVIOUS
    <3>2. c \in RootChecks(Truth, Members(Truth), WorkspaceIssues(Truth))
      BY <3>1 DEF RootChecks
    <3>3. c \in IdealChecks
      BY <3>2 DEF IdealChecks, InspectionChecks
    <3>4. c.category = "tooling" /\ c.state = "unknown"
      BY <3>1, InspectionCheckFields
    <3> QED
      BY <3>3, <3>4 DEF KnownIn, Category
  <2>7. ASSUME NEW y \in Manifests(s), NEW x \in ExternalDeclarations(Member(s, y))
        PROVE  \E m \in Manifests(r) : x \in ExternalDeclarations(Member(r, m))
    <3>1. PICK m \in Manifests(r) : m.path = y.path
      BY <2>3, <2>4, ManifestsKept
    <3>2. x \in Declarations(s, y) /\ IsExternalDependency(x)
      BY <2>7, MemberFields DEF ExternalDeclarations
    <3>3. x \in Declarations(r, m)
      <4>1. s.locks = (IF "lockfile" \in w.lost THEN {} ELSE w.repository.locks)
        BY <2>4, AcquiredFields
      <4>2. CASE "lockfile" \notin w.lost
        BY <2>3, <2>4, <2>5, <3>1, <3>2, <4>1, <4>2, SameExternal
      <4>3. CASE "lockfile" \in w.lost
        <5>1. w.repository.manager \in Manager \cup {NoManager}
          BY <2>1, <4>3 DEF LinksAreKept
        <5> QED
          BY <2>3, <2>4, <2>5, <2>6, <3>1, <3>2, <4>1, <4>3, <5>1, ExternalIsTrue
      <4> QED
        BY <4>2, <4>3
    <3> QED
      BY <3>2, <3>3, MemberFields DEF ExternalDeclarations
  <2>8. ASSUME NEW m \in Manifests(r), NEW d \in ExternalDeclarations(Member(r, m))
        PROVE  \E y \in Manifests(s) : d \in ExternalDeclarations(Member(s, y))
    <3>1. PICK y \in Manifests(s) : y.path = m.path
      BY <2>3, <2>5 DEF AllKept
    <3> QED
      BY <2>3, <2>4, <2>5, <3>1, ExternalStays
  <2>9. (\E m \in Members(s) : ExternalDeclarations(m) # {})
           <=> (\E m \in Members(r) : ExternalDeclarations(m) # {})
    BY <2>7, <2>8 DEF Members
  <2>10. /\ Scored(category, ReportChecks).status = "available"
               <=> \E m \in Members(s) : ExternalDeclarations(m) # {}
         /\ Scored(category, IdealChecks).status = "available"
               <=> \E m \in Members(r) : ExternalDeclarations(m) # {}
    BY <1>4, <2>2, <2>4, RiskApplies DEF ReportChecks, IdealChecks
  <2> QED
    BY <2>9, <2>10
<1> QED
  BY <1>1, <1>2, <1>3, <1>4 DEF Category, Ceiling

-----------------------------------------------------------------------------
(* The overall score. *)

LEMMA LeastOf ==
    ASSUME NEW S, S \subseteq Nat, S # {}
    PROVE  Min(S) \in S /\ \A x \in S : Min(S) =< x
  BY LeastExists DEF Min

Counting(f) == {c \in Category : f[c].status = "available"}
Overall(f, A) ==
    Min({Total(f, A) \div Cardinality(A)} \cup {f[c].value : c \in A \cap Ceiling})

\* More for each category is not less overall.
LEMMA OverallGrows ==
    ASSUME NEW A, A \subseteq Category, A # {}, NEW f, NEW g,
           \A c \in A : f[c].value \in Nat /\ g[c].value \in Nat /\ f[c].value =< g[c].value
    PROVE  Overall(f, A) =< Overall(g, A)
<1> DEFINE n   == Cardinality(A)
           ofF == {f[c].value : c \in A \cap Ceiling}
           ofG == {g[c].value : c \in A \cap Ceiling}
<1>1. n \in 1 .. 5
  <2>1. IsFiniteSet(A) /\ n \in 0 .. 5
    BY FewCategories
  <2>2. n # 0
    BY <2>1, FS_EmptySet
  <2> HIDE DEF n
  <2> QED
    BY <2>1, <2>2
<1>2. Total(f, A) = Parts(f, A) /\ Total(g, A) = Parts(g, A)
  BY TotalIs
<1>3. Parts(f, A) \in Nat /\ Parts(g, A) \in Nat
  BY PartsAre
<1>4. Parts(f, A) =< Parts(g, A)
  <2>1. \A c : Part(f, c, A) \in Nat /\ Part(g, c, A) \in Nat /\ Part(f, c, A) =< Part(g, c, A)
    BY DEF Part
  <2> QED
    BY <2>1 DEF Parts
<1> DEFINE meanF == Total(f, A) \div n
           meanG == Total(g, A) \div n
<1>5. meanF \in Nat /\ meanG \in Nat /\ meanF =< meanG
  <2> HIDE DEF n
  <2> QED
    BY <1>1, <1>2, <1>3, <1>4, DivGrows
<1>6. Overall(f, A) = Min({meanF} \cup ofF) /\ Overall(g, A) = Min({meanG} \cup ofG)
  BY DEF Overall
<1>7. ofF \subseteq Nat /\ ofG \subseteq Nat
  OBVIOUS
<1> HIDE DEF meanF, meanG
<1>8. PICK k : k = Min({meanF} \cup ofF)
  OBVIOUS
<1>9. PICK l : l = Min({meanG} \cup ofG)
  OBVIOUS
<1>10. k \in {meanF} \cup ofF /\ \A x \in {meanF} \cup ofF : k =< x
  BY <1>5, <1>7, <1>8, LeastOf
<1>11. l \in {meanG} \cup ofG
  BY <1>5, <1>7, <1>9, LeastOf
<1>12. k \in Nat /\ l \in Nat
  BY <1>5, <1>7, <1>10, <1>11
<1>13. l = meanG => k =< l
  BY <1>5, <1>10, <1>12
<1>14. ASSUME l \in ofG PROVE k =< l
  <2>1. PICK c \in A \cap Ceiling : l = g[c].value
    BY <1>14
  <2>2. k =< f[c].value
    BY <1>10, <2>1
  <2>3. f[c].value \in Nat /\ f[c].value =< l
    BY <2>1
  <2> QED
    BY <1>12, <2>2, <2>3
<1> QED
  BY <1>6, <1>8, <1>9, <1>11, <1>13, <1>14

LEMMA OverallIs ==
    ASSUME NEW f, OverallScore(f).status = "available"
    PROVE  /\ \A c \in Category : f[c].status # "insufficient_evidence"
           /\ Counting(f) # {}
           /\ OverallScore(f).value = Overall(f, Counting(f))
<1> DEFINE A     == Counting(f)
           known == ~\E c \in Category : f[c].status = "insufficient_evidence"
<1>1. OverallScore(f) = IF ~known THEN Insufficient
                        ELSE IF A = {} THEN NotApplicable
                        ELSE Available(Overall(f, A))
  BY DEF OverallScore, MapThenSumSet, MapThenFoldSet, Total, Overall, Counting
<1>2. Insufficient.status # "available" /\ NotApplicable.status # "available"
  BY DEF Insufficient, NotApplicable
<1> HIDE DEF A
<1>3. known /\ A # {} /\ OverallScore(f) = Available(Overall(f, A))
  BY <1>1, <1>2
<1> QED
  BY <1>3, AvailableIs DEF A

\* The whole of the evidence gives no overall score below that of a part of it.
LEMMA OverallNotAbove ==
    ASSUME CollectedInv, at = "report",
           world.kind = "repository" => KeepsRole(world), "configuration" \notin world.lost,
           LinksAreKept,
           NEW f, f = [c \in Category |-> Scored(c, ReportChecks)],
           NEW g, g = [c \in Category |-> Scored(c, IdealChecks)]
    PROVE  NotAbove(OverallScore(f), OverallScore(g))
<1> SUFFICES ASSUME OverallScore(f).status = "available", OverallScore(g).status = "available"
             PROVE  OverallScore(f).value =< OverallScore(g).value
  BY DEF NotAbove
<1>1. \A c \in Category : f[c] = Scored(c, ReportChecks) /\ g[c] = Scored(c, IdealChecks)
  OBVIOUS
<1>2. /\ \A c \in Category : f[c].status # "insufficient_evidence"
      /\ \A c \in Category : g[c].status # "insufficient_evidence"
      /\ Counting(f) # {}
      /\ OverallScore(f).value = Overall(f, Counting(f))
      /\ OverallScore(g).value = Overall(g, Counting(g))
  BY OverallIs
<1>3. \A c \in Category : KnownIn(c, ReportChecks) /\ KnownIn(c, IdealChecks)
  BY <1>1, <1>2, ScoredStatus
<1>4. \A c \in Category : f[c].status = "available" <=> g[c].status = "available"
  BY <1>1, <1>3, SameApply
<1>5. Counting(f) = Counting(g) /\ Counting(f) \subseteq Category
  BY <1>4 DEF Counting
<1>6. ASSUME NEW c \in Counting(f)
      PROVE  f[c].value \in Nat /\ g[c].value \in Nat /\ f[c].value =< g[c].value
  <2>1. c \in Category /\ f[c].status = "available" /\ g[c].status = "available"
    BY <1>4 DEF Counting
  <2>2. f[c].value \in Nat /\ g[c].value \in Nat
    BY <1>1, <2>1, ReportedScoresAreNatural
  <2>3. NotAbove(f[c], g[c])
    BY <1>1, <2>1, CategoryNotAbove
  <2> QED
    BY <2>1, <2>2, <2>3 DEF NotAbove
<1>7. Overall(f, Counting(f)) =< Overall(g, Counting(f))
  BY <1>2, <1>5, <1>6, OverallGrows
<1> QED
  BY <1>2, <1>5, <1>7

\* No failure, limit or loss of evidence raises a score, but for the three losses
\* that MissingEvidenceNeverRaises names: a part of the evidence is read by the same
\* checks, and none of them passes, or leaves an advisory out, for what it lacks.
THEOREM EvidenceNeverRaises == Spec => []MissingEvidenceNeverRaises
<1>1. CollectedInv => MissingEvidenceNeverRaises
  <2> SUFFICES ASSUME CollectedInv, at = "report", "configuration" \notin world.lost, RootKeepsRole
               PROVE  NoneAbove(Report.scores, RunAnalyzer(Truth, TrueRegistry, TrueOsv).scores)
    BY DEF MissingEvidenceNeverRaises
  <2>1. PICK scores : scores = Report.scores
    OBVIOUS
  <2>2. PICK ideal : ideal = RunAnalyzer(Truth, TrueRegistry, TrueOsv).scores
    OBVIOUS
  <2>3. world.kind = "repository" => KeepsRole(world)
    BY ReportedRepository DEF RootKeepsRole, KeepsRole
  <2>4. /\ scores = StackHealth(ReportChecks, FALSE) /\ ideal = StackHealth(IdealChecks, FALSE)
        /\ \A c \in Category : /\ scores.categories[c] = Scored(c, ReportChecks)
                               /\ ideal.categories[c] = Scored(c, IdealChecks)
    BY <2>1, <2>2, IdealScores
  <2>5. \A c \in Category : NotAbove(scores.categories[c], ideal.categories[c])
    BY <2>3, <2>4, CategoryNotAbove
  <2>6. LinksAreKept => NotAbove(scores.overall, ideal.overall)
    <3>1. PICK f : f = [c \in Category |-> Scored(c, ReportChecks)]
      OBVIOUS
    <3>2. PICK g : g = [c \in Category |-> Scored(c, IdealChecks)]
      OBVIOUS
    <3>3. scores.overall = OverallScore(f)
      BY <2>4, <3>1, Zenon DEF StackHealth, Scored
    <3>4. ideal.overall = OverallScore(g)
      BY <2>4, <3>2, Zenon DEF StackHealth, Scored
    <3> QED
      BY <2>3, <3>1, <3>2, <3>3, <3>4, OverallNotAbove
  <2> QED
    BY <2>1, <2>2, <2>5, <2>6 DEF NoneAbove
<1> QED
  BY <1>1, AlwaysCollected, PTL

=============================================================================
