------------------------------ MODULE OsvAdapter ------------------------------
(***************************************************************************)
(* The OSV adapter (packages/data-sources/src/osv/adapter.ts): a batch of  *)
(* exact-version queries, answered in pages, then the details of the       *)
(* matched advisories one after the other.  A page token is the number of  *)
(* the page it opens; advisories are numbers in the order of their ids.    *)
(* What OSV holds for a query is a sequence of pages, sets of advisories.  *)
(***************************************************************************)
EXTENDS Integers, Sequences, FiniteSets

CONSTANTS
    MaxPaginationRounds,     \* pages asked for a query
    MaxAdvisoryDetails       \* advisories whose details are asked for

ASSUME BoundAssumption == {MaxPaginationRounds, MaxAdvisoryDetails} \subseteq Nat \ {0}

VARIABLE osv
    \* stage     "idle", "batch", "details", "available" or "unavailable"
    \* matches   [query -> advisories matched so far]
    \* complete  the queries not known to be cut short
    \* pending   the queries with a page to ask for, the page being `round`
    \* todo      the advisories whose details are still to ask for
    \* records   the advisories whose details arrived
    \* failures  the partial failures recorded

OsvIdle == [stage |-> "idle", matches |-> <<>>, complete |-> {}, pending |-> {},
            round |-> 0, todo |-> {}, records |-> {}, failures |-> {}]

Matched(matches) == UNION {matches[q] : q \in DOMAIN matches}

\* The first n of a set of numbers.
FirstOf(n, S) == {x \in S : Cardinality({y \in S : y < x}) < n}

\* Pagination is over: fix the advisories to ask details of.
ToDetails(o) ==
    LET selected == FirstOf(MaxAdvisoryDetails, Matched(o.matches))
    IN  [o EXCEPT !.stage    = IF selected = {} THEN "available" ELSE "details",
                  !.pending  = {},
                  !.todo     = selected,
                  !.failures = @ \cup (IF selected = Matched(o.matches) THEN {}
                                       ELSE {"osv_detail_limit_reached"})]

\* normalizeQueries: one name the adapter refuses refuses them all.
OsvRequest(queries, invalidNames) ==
    /\ osv.stage = "idle"
    /\ osv' = IF \E q \in queries : q.name \in invalidNames
              THEN [osv EXCEPT !.stage = "unavailable", !.failures = {"osv_invalid_request"}]
              ELSE [osv EXCEPT !.stage    = "batch",
                               !.matches  = [q \in queries |-> {}],
                               !.complete = queries,
                               !.pending  = queries]

Page(pages, n) == IF n \in DOMAIN pages THEN pages[n] ELSE {}

\* A page for every pending query.  OSV ends a query's pages when they are all
\* told, or keeps handing out tokens: new ones, or the one it was sent again.
OsvBatchAnswered(pages) ==
    /\ osv.stage = "batch"
    /\ \E more \in SUBSET osv.pending, repeated \in SUBSET osv.pending :
        LET next    == osv.round + 1
            stopped == IF next >= MaxPaginationRounds THEN more ELSE repeated
            told    == [osv EXCEPT
                !.matches  = [q \in DOMAIN @ |->
                                 IF q \in osv.pending THEN @[q] \cup Page(pages[q], next) ELSE @[q]],
                !.complete = @ \ stopped,
                !.pending  = more \ stopped,
                !.round    = next,
                !.failures = @ \cup {"osv_pagination_incomplete" : q \in stopped}]
        IN  /\ \A q \in osv.pending : next < Len(pages[q]) => q \in more
            /\ repeated \subseteq IF osv.round = 0 THEN {} ELSE more
            /\ osv' = IF told.pending = {} THEN ToDetails(told) ELSE told

\* Mutant: the queries whose next page failed still count as complete.
OsvBatchFailed_Unnoticed(code) ==
    /\ osv.stage = "batch"
    /\ osv' = IF osv.round = 0
              THEN [osv EXCEPT !.stage = "unavailable", !.failures = {code}]
              ELSE ToDetails([osv EXCEPT !.failures = @ \cup {code}])

\* The first page decides between a source and no source.
OsvBatchFailed(code) ==
    /\ osv.stage = "batch"
    /\ osv' = IF osv.round = 0
              THEN [osv EXCEPT !.stage = "unavailable", !.failures = {code}]
              ELSE ToDetails([osv EXCEPT !.complete = @ \ osv.pending,
                                         !.failures = @ \cup {code}])

\* The details of the next advisory, or a failure in their place.
OsvDetail(failure) ==
    /\ osv.stage = "details"
    /\ LET id == CHOOSE a \in osv.todo : \A b \in osv.todo : a =< b
       IN  osv' = [osv EXCEPT !.todo     = @ \ {id},
                              !.records  = @ \cup (IF failure = {} THEN {id} ELSE {}),
                              !.failures = @ \cup failure,
                              !.stage    = IF osv.todo = {id} THEN "available" ELSE @]

\* One failure for every way a call may fail: refused, timed out, too large,
\* malformed.  Nothing downstream tells them apart.
BatchFailure  == "osv_query_failed"
DetailFailure == "osv_detail_failed"

OsvStep(pages) ==
    \/ OsvBatchAnswered(pages)
    \/ OsvBatchFailed(BatchFailure)
    \/ \E failure \in {{}, {DetailFailure}} : OsvDetail(failure)

\* What the analysis receives.
OsvSnapshot ==
    IF osv.stage # "available"
    THEN [known |-> FALSE, queries |-> {}, records |-> {}]
    ELSE [known   |-> TRUE,
          queries |-> {[name |-> q.name, version |-> q.version, matches |-> osv.matches[q],
                        complete |-> q \in osv.complete] : q \in DOMAIN osv.matches},
          records |-> osv.records]
=============================================================================
