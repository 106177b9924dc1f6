--------------------------- MODULE ConnectionQuery ---------------------------
(***************************************************************************)
(* runConnectionQuery: one statement on the GitHub connection table, in a  *)
(* transaction of its own on a client borrowed from the pool, bounded by   *)
(* one deadline.  Promise.race settles the caller's promise first; the     *)
(* operation it abandons goes on, and the pooled client must come back     *)
(* exactly once, clean or destroyed, in every interleaving of the two.     *)
(***************************************************************************)
EXTENDS Naturals, FiniteSets

CONSTANTS
    Op,         \* calls sharing the pool
    PoolSize    \* the pool's max

ASSUME PoolSizeAssumption == PoolSize \in Nat \ {0}

VARIABLES
    step,       \* what the async operation waits for, or how it ended
    race,       \* how the race settled
    client,     \* where the pooled client of each operation is
    borrowed,   \* the variable `borrowed' is set
    completed,  \* the variable `completed'
    aborted,    \* the operation's signal: the deadline passed or the caller gave up
    done,       \* the finally block ran
    tx,         \* the server's transaction
    releases    \* calls to client.release

vars == <<step, race, client, borrowed, completed, aborted, done, tx, releases>>

Querying == {"begin", "timeout", "text", "commit"}
StepName == {"idle", "connect", "lent", "resolved", "rejected"} \cup Querying

TypeOK ==
    /\ step \in [Op -> StepName]
    /\ race \in [Op -> {"pending", "ok", "failed"}]
    /\ client \in [Op -> {"none", "lent", "destroyed", "returned"}]
    /\ borrowed \in [Op -> BOOLEAN]
    /\ completed \in [Op -> BOOLEAN]
    /\ aborted \in [Op -> BOOLEAN]
    /\ done \in [Op -> BOOLEAN]
    /\ tx \in [Op -> {"none", "open", "committing", "committed", "rolled_back"}]
    /\ releases \in [Op -> Nat]

Init ==
    /\ step = [o \in Op |-> "idle"]
    /\ race = [o \in Op |-> "pending"]
    /\ client = [o \in Op |-> "none"]
    /\ borrowed = [o \in Op |-> FALSE]
    /\ completed = [o \in Op |-> FALSE]
    /\ aborted = [o \in Op |-> FALSE]
    /\ done = [o \in Op |-> FALSE]
    /\ tx = [o \in Op |-> "none"]
    /\ releases = [o \in Op |-> 0]

(***************************************************************************)
(* The caller and the pool.                                                *)
(***************************************************************************)
\* The race settles once: later settlements are ignored.
Settle(o, outcome) ==
    race' = [race EXCEPT ![o] = IF @ = "pending" THEN outcome ELSE @]

Release(o, destroy) ==
    /\ client' = [client EXCEPT ![o] = IF destroy THEN "destroyed" ELSE "returned"]
    /\ releases' = [releases EXCEPT ![o] = @ + 1]

\* signal.throwIfAborted rejects a call before it asks for a client.
Call(o) ==
    /\ step[o] = "idle"
    /\ \/ /\ step' = [step EXCEPT ![o] = "connect"]
          /\ UNCHANGED <<race, aborted, done>>
       \/ /\ step' = [step EXCEPT ![o] = "rejected"]
          /\ race' = [race EXCEPT ![o] = "failed"]
          /\ aborted' = [aborted EXCEPT ![o] = TRUE]
          /\ done' = [done EXCEPT ![o] = TRUE]
    /\ UNCHANGED <<client, borrowed, completed, tx, releases>>

\* The pool serves a waiting request, even one whose caller has left.
Lend(o) ==
    /\ step[o] = "connect"
    /\ Cardinality({p \in Op : client[p] = "lent"}) < PoolSize
    /\ step' = [step EXCEPT ![o] = "lent"]
    /\ client' = [client EXCEPT ![o] = "lent"]
    /\ UNCHANGED <<race, borrowed, completed, aborted, done, tx, releases>>

Rejected(o) ==
    /\ step' = [step EXCEPT ![o] = "rejected"]
    /\ Settle(o, "failed")

ConnectFails(o) ==
    /\ step[o] = "connect"
    /\ Rejected(o)
    /\ UNCHANGED <<client, borrowed, completed, aborted, done, tx, releases>>

(***************************************************************************)
(* The async operation.                                                    *)
(***************************************************************************)
Borrow(o) ==
    /\ borrowed' = [borrowed EXCEPT ![o] = TRUE]
    /\ step' = [step EXCEPT ![o] = "begin"]
    /\ UNCHANGED <<race, client, releases>>

Resume_IgnoreAbort(o) ==        \* mutant: the signal is not tested again
    /\ step[o] = "lent"
    /\ Borrow(o)
    /\ UNCHANGED <<completed, aborted, done, tx>>

Resume(o) ==
    /\ step[o] = "lent"
    /\ \/ aborted[o] /\ Release(o, TRUE) /\ Rejected(o) /\ UNCHANGED borrowed
       \/ ~aborted[o] /\ Borrow(o)
    /\ UNCHANGED <<completed, aborted, done, tx>>

\* The server executes BEGIN, and COMMIT once it has been sent: with or without a client
\* that still listens.
ServerBegins(o) ==
    /\ step[o] = "begin" /\ tx[o] = "none"
    /\ tx' = [tx EXCEPT ![o] = "open"]
    /\ UNCHANGED <<step, race, client, borrowed, completed, aborted, done, releases>>

ServerCommits(o) ==
    /\ tx[o] = "committing"
    /\ tx' = [tx EXCEPT ![o] = "committed"]
    /\ UNCHANGED <<step, race, client, borrowed, completed, aborted, done, releases>>

\* A statement error, statement_timeout, or the connection is gone.
ServerRollsBack(o) ==
    /\ tx[o] \in {"open", "committing"}
    /\ tx' = [tx EXCEPT ![o] = "rolled_back"]
    /\ UNCHANGED <<step, race, client, borrowed, completed, aborted, done, releases>>

Reply(o) ==
    /\ client[o] = "lent"
    /\ \/ /\ step[o] \in {"begin", "timeout"} /\ tx[o] = "open"
          /\ step' = [step EXCEPT ![o] = IF @ = "begin" THEN "timeout" ELSE "text"]
          /\ UNCHANGED tx
       \/ /\ step[o] = "text" /\ tx[o] = "open"
          /\ step' = [step EXCEPT ![o] = "commit"]
          /\ tx' = [tx EXCEPT ![o] = "committing"]
    /\ UNCHANGED <<race, client, borrowed, completed, aborted, done, releases>>

Complete_BeforeReply(o) ==      \* mutant: COMMIT is sent and not awaited
    /\ step[o] = "commit"
    /\ step' = [step EXCEPT ![o] = "resolved"]
    /\ completed' = [completed EXCEPT ![o] = TRUE]
    /\ Settle(o, "ok")
    /\ UNCHANGED <<client, borrowed, aborted, done, tx, releases>>

Complete(o) ==
    /\ client[o] = "lent"
    /\ step[o] = "commit" /\ tx[o] = "committed"
    /\ step' = [step EXCEPT ![o] = "resolved"]
    /\ completed' = [completed EXCEPT ![o] = TRUE]
    /\ Settle(o, "ok")
    /\ UNCHANGED <<client, borrowed, aborted, done, tx, releases>>

\* An error reply, a lost connection, or a query on a client that was destroyed.
QueryFails(o) ==
    /\ step[o] \in Querying
    /\ Rejected(o)
    /\ UNCHANGED <<client, borrowed, completed, aborted, done, tx, releases>>

(***************************************************************************)
(* The abort listener and the finally block.                               *)
(***************************************************************************)
Abort_KeepBorrowed(o) ==        \* mutant: `borrowed' is not cleared
    /\ step[o] # "idle" /\ ~done[o] /\ ~aborted[o]
    /\ aborted' = [aborted EXCEPT ![o] = TRUE]
    /\ \/ borrowed[o] /\ Release(o, TRUE)
       \/ ~borrowed[o] /\ UNCHANGED <<client, releases>>
    /\ Settle(o, "failed")
    /\ UNCHANGED <<step, borrowed, completed, done, tx>>

Abort(o) ==
    /\ step[o] # "idle" /\ ~done[o] /\ ~aborted[o]
    /\ aborted' = [aborted EXCEPT ![o] = TRUE]
    /\ \/ borrowed[o] /\ Release(o, TRUE)
       \/ ~borrowed[o] /\ UNCHANGED <<client, releases>>
    /\ borrowed' = [borrowed EXCEPT ![o] = FALSE]
    /\ Settle(o, "failed")
    /\ UNCHANGED <<step, completed, done, tx>>

Finally_AlwaysReturn(o) ==      \* mutant: release() instead of release(!completed)
    /\ race[o] # "pending" /\ ~done[o]
    /\ done' = [done EXCEPT ![o] = TRUE]
    /\ \/ borrowed[o] /\ Release(o, FALSE)
       \/ ~borrowed[o] /\ UNCHANGED <<client, releases>>
    /\ UNCHANGED <<step, race, borrowed, completed, aborted, tx>>

Finally(o) ==
    /\ race[o] # "pending" /\ ~done[o]
    /\ done' = [done EXCEPT ![o] = TRUE]
    /\ \/ borrowed[o] /\ Release(o, ~completed[o])
       \/ ~borrowed[o] /\ UNCHANGED <<client, releases>>
    /\ UNCHANGED <<step, race, borrowed, completed, aborted, tx>>

Next ==
    \E o \in Op :
        \/ Call(o) \/ Lend(o) \/ ConnectFails(o) \/ Resume(o)
        \/ ServerBegins(o) \/ ServerCommits(o) \/ ServerRollsBack(o)
        \/ Reply(o) \/ Complete(o) \/ QueryFails(o)
        \/ Abort(o) \/ Finally(o)

\* Timers fire and promise continuations run; nothing is asked of the pool or the server.
Fairness == \A o \in Op : WF_vars(Abort(o)) /\ WF_vars(Resume(o)) /\ WF_vars(Finally(o))

Spec     == Init /\ [][Next]_vars
FairSpec == Spec /\ Fairness

(***************************************************************************)
(* The inductive invariant: where the client of an operation is at every   *)
(* step, and who will release it.                                          *)
(***************************************************************************)
Gone == {"destroyed", "returned"}

\* One release per client that is gone, and none for the others.
CountedReleases(o) == releases[o] = IF client[o] \in Gone THEN 1 ELSE 0

\* A client lent to an operation that runs is the one `borrowed' names, so the abort
\* listener or the finally block will release it.
Custody(o) ==
    /\ step[o] \in {"idle", "connect"} => client[o] = "none" /\ ~borrowed[o]
    /\ step[o] = "lent" => client[o] = "lent" /\ ~borrowed[o]
    /\ client[o] = "lent" /\ step[o] # "lent" => borrowed[o] /\ ~done[o]
    /\ borrowed[o] => client[o] = "lent" \/ done[o]
    /\ client[o] = "returned" => completed[o]

\* The race settles before its operation ends only through the abort listener.
AbandonedByAbort(o) ==
    /\ done[o] => race[o] # "pending"
    /\ race[o] # "pending" /\ step[o] \in {"connect", "lent"} => aborted[o]
    /\ step[o] = "idle" => race[o] = "pending" /\ ~aborted[o]

\* `completed' says that COMMIT was answered.
CompletedIsCommitted(o) ==
    /\ race[o] = "ok" => completed[o]
    /\ completed[o] => tx[o] = "committed"

\* Types, release counts, custody of the pooled client and the meaning of `completed',
\* at every interleaving of runConnectionQuery with its deadline.
IInv ==
    /\ TypeOK
    /\ \A o \in Op : CountedReleases(o) /\ Custody(o) /\ AbandonedByAbort(o)
                     /\ CompletedIsCommitted(o)

(***************************************************************************)
(* Properties.                                                             *)
(***************************************************************************)
\* client.release is called at most once per client, by the abort listener, the finally
\* block or the abandoned operation, whichever comes first (a second call throws).
ReleasedOnce == \A o \in Op : releases[o] <= 1

\* A client goes back to the pool for reuse only when its transaction has ended: nobody
\* inherits an open transaction or a statement that still runs.
ReturnedClean == \A o \in Op : client[o] = "returned" => tx[o] = "committed"

\* A caller that was told the statement succeeded was told so of a committed one.
OkIsCommitted == \A o \in Op : race[o] = "ok" => tx[o] = "committed"

\* "Bound checkout, statement and commit": every call is answered, whatever the pool and
\* the server do, and every client that was lent leaves the operation.
CallsEnd ==
    \A o \in Op : /\ step[o] # "idle" ~> done[o]
                  /\ client[o] = "lent" ~> client[o] # "lent"
=============================================================================
