-------------------------- MODULE GitHubAcquisition --------------------------
(***************************************************************************)
(* GitHubRepositoryAdapter.fetch: one acquisition of a repository at an    *)
(* immutable commit.  Three requests resolve repository, commit and tree;  *)
(* then the selected files are downloaded in batches of blobs, under a     *)
(* budget of files, bytes and requests, while the signal of the executing  *)
(* job may abort at any wait.  After each batch a configuration selector   *)
(* may add, move forward or displace files.                                *)
(*                                                                         *)
(* Everything between two awaits runs without interruption: the loops of   *)
(* such a stretch take one step per file here, and only the waits admit an *)
(* abort.  The selector is any function: it may choose any selectable      *)
(* paths after any batch.                                                  *)
(***************************************************************************)
EXTENDS Integers, Sequences, FiniteSets

LOCAL INSTANCE FiniteSetsExt

CONSTANTS
    Path,           \* paths of the repository
    Root,           \* the root package.json
    Sha,            \* blob identifiers: aliased paths share one
    Content,        \* what each blob holds: [kind, size]
    Trees,          \* the trees the repository may have
    Unknown,        \* a tree entry without a size
    Connected,      \* acquisition with a user's credential
    Selecting,      \* the request carries a configuration selector
    MaxFiles, MaxFileBytes, MaxTotalFileBytes, MaxRequests,
    BatchSize       \* blob reads in flight: 4

Candidate == {"manifest", "lockfile", "config", "source"}
Selectable == Candidate \union {"extra"}
\* Entries the snapshot cannot follow and whose absence limits source usage.
Hidden == {"ignored", "unsafe", "submodule", "unsupported", "symlink"}
Class == Selectable \union Hidden

Reason == {"oversized", "limited", "binary", "lfs", "failed"}
Failure == {"transient", "permanent", "rate"}
Answer == {"blob", "denied"} \union Failure
Verdict == {"oversized", "binary", "lfs", "permanent"}

\* A tree after its entries were classified, with its candidates in order.
Tree == [sha : [Path -> Sha], size : [Path -> Nat \union {Unknown}],
         class : [Path -> Class], scripts : SUBSET Path,
         truncated : BOOLEAN, order : Seq(Path)]

Elements(s) == {s[i] : i \in 1 .. Len(s)}
CandidatesOf(t) == {p \in Path : t.class[p] \in Candidate}

ASSUME BlobAssumption ==
    /\ Unknown \notin Nat
    /\ Root \in Path
    /\ Content \in [Sha -> [kind : {"text", "binary", "lfs"}, size : Nat]]

ASSUME TreesAssumption ==
    \A t \in Trees : t \in Tree /\ Elements(t.order) = CandidatesOf(t)

ASSUME BoundsAssumption ==
    /\ Connected \in BOOLEAN /\ Selecting \in BOOLEAN
    /\ {MaxFiles, MaxFileBytes, MaxTotalFileBytes, BatchSize} \subseteq Nat \ {0}
    /\ MaxRequests \in Nat /\ MaxRequests >= 3

\* Root package.json, manifests, lockfiles, configuration, sources; then by path.
\* Paths of one class are compared by the numbers the order gives them.
Rank(t, p) ==
    IF p = Root THEN 0
    ELSE IF t.class[p] = "manifest" THEN 1
    ELSE IF t.class[p] = "lockfile" THEN 2
    ELSE IF t.class[p] = "config" THEN 3
    ELSE 4

InCandidateOrder(t) ==
    \A i, j \in 1 .. Len(t.order) :
        i < j => /\ Rank(t, t.order[i]) <= Rank(t, t.order[j])
                 /\ t.order[i] # t.order[j]

ASSUME OrderAssumption == \A t \in Trees : InCandidateOrder(t)

VARIABLES
    phase,          \* where the acquisition is, or how it ended
    signal,         \* "live" or "aborted"
    tree,           \* the tree of the commit
    requests,       \* requests sent so far
    taken, rest,    \* retainedCandidates: how many were taken, and those to come
    kind,           \* the class under which each path was queued
    queued,         \* queuedPaths
    batch, pending, reserved,   \* the batch under construction or in flight
    answers,        \* the answers of this batch, by blob
    cached,         \* blobs retained once
    verdicts,       \* terminalBlobs
    rateLimited,
    files,          \* paths retained, the root manifest included
    totalBytes,
    skipped,        \* the limitation lists each path is named in
    additions, asked,   \* the selector's answer being spliced in
    coverage,       \* sourceCoverage.status
    refused         \* whether the credential was ever refused (history)

queueVars == <<taken, rest, kind, queued>>
batchVars == <<batch, pending, reserved>>
blobVars == <<cached, verdicts, rateLimited, files, totalBytes>>
selectVars == <<additions, asked>>
vars == <<phase, signal, tree, requests, queueVars, batchVars, answers, blobVars,
          skipped, selectVars, coverage, refused>>

Waiting == {"repository", "commit", "tree", "fetching"}
Ended == {"snapshot", "unavailable", "denied", "interrupted"}

Init ==
    /\ phase = "repository" /\ signal = "live" /\ requests = 1
    /\ tree \in Trees
    /\ taken = 0 /\ rest = <<>> /\ queued = {}
    /\ kind = tree.class
    /\ batch = <<>> /\ pending = {} /\ reserved = 0
    /\ answers = [s \in Sha |-> "none"]
    /\ cached = {} /\ verdicts = [s \in Sha |-> "none"]
    /\ rateLimited = FALSE /\ files = {} /\ totalBytes = 0
    /\ skipped = [p \in Path |-> {}]
    /\ additions = <<>> /\ asked = {}
    /\ coverage = "none" /\ refused = FALSE

(***************************************************************************)
(* The waits.                                                              *)
(***************************************************************************)

\* The job is aborted while the acquisition awaits an answer.
Abort ==
    /\ phase \in Waiting /\ signal = "live"
    /\ signal' = "aborted"
    /\ UNCHANGED <<phase, tree, requests, queueVars, batchVars, answers, blobVars,
                   skipped, selectVars, coverage, refused>>

\* Whatever an aborted request answers, the provider's wrapper rejects.
Interrupted ==
    /\ phase \in {"repository", "commit", "tree"} /\ signal = "aborted"
    /\ phase' = "interrupted"
    /\ UNCHANGED <<signal, tree, requests, queueVars, batchVars, answers, blobVars,
                   skipped, selectVars, coverage, refused>>

\* A failure before the tree is known makes the repository unavailable.
HeaderFails ==
    /\ phase \in {"repository", "commit", "tree"} /\ signal = "live"
    /\ phase' = "unavailable"
    /\ UNCHANGED <<signal, tree, requests, queueVars, batchVars, answers, blobVars,
                   skipped, selectVars, coverage, refused>>

\* A connected request is refused: the configuration error is not turned into data.
HeaderDenied ==
    /\ phase \in {"repository", "commit", "tree"} /\ signal = "live" /\ Connected
    /\ phase' = "denied" /\ refused' = TRUE
    /\ UNCHANGED <<signal, tree, requests, queueVars, batchVars, answers, blobVars,
                   skipped, selectVars, coverage>>

HeaderArrives ==
    /\ signal = "live"
    /\ \/ phase = "repository" /\ phase' = "commit"
       \/ phase = "commit" /\ phase' = "tree"
    /\ requests' = requests + 1
    /\ UNCHANGED <<signal, tree, queueVars, batchVars, answers, blobVars,
                   skipped, selectVars, coverage, refused>>

Smaller(m, n) == IF m < n THEN m ELSE n

\* The tree is classified; the first MaxFiles candidates are queued.
TreeArrives ==
    /\ phase = "tree" /\ signal = "live"
    /\ phase' = "looping"
    /\ rest' = SubSeq(tree.order, 1, Smaller(MaxFiles, Len(tree.order)))
    /\ queued' = Elements(rest')
    /\ UNCHANGED <<signal, tree, requests, taken, kind, batchVars, answers, blobVars,
                   skipped, selectVars, coverage, refused>>

(***************************************************************************)
(* Filling a batch: bytes and requests are reserved before dispatch.       *)
(***************************************************************************)

Reservation(p) == IF tree.size[p] = Unknown THEN MaxFileBytes ELSE tree.size[p]

NeedsFetch(p) ==
    LET s == tree.sha[p] IN s \notin cached /\ verdicts[s] = "none" /\ s \notin pending

\* Counts the requests sent, not those this batch has already reserved.
OutOfRequests_SentOnly(p) ==
    \/ rateLimited
    \/ NeedsFetch(p) /\ requests >= MaxRequests

OutOfRequests(p) ==
    \/ rateLimited
    \/ NeedsFetch(p) /\ requests + Cardinality(pending) >= MaxRequests

TooLarge(p) == Reservation(p) > MaxFileBytes

Overflows(p) == totalBytes + reserved + Reservation(p) > MaxTotalFileBytes

StartBatch ==
    /\ phase = "looping" /\ rest # <<>>
    /\ phase' = "filling"
    /\ batch' = <<>> /\ pending' = {} /\ reserved' = 0
    /\ UNCHANGED <<signal, tree, requests, queueVars, answers, blobVars, skipped,
                   selectVars, coverage, refused>>

Filling == phase = "filling" /\ Len(batch) < BatchSize /\ rest # <<>>

\* The candidate is taken out of the queue and named in a list of limitations.
Leave(p, reason) ==
    /\ taken' = taken + 1 /\ rest' = Tail(rest)
    /\ skipped' = [skipped EXCEPT ![p] = @ \union {reason}]
    /\ UNCHANGED <<phase, signal, tree, requests, kind, queued, batchVars, answers,
                   blobVars, selectVars, coverage, refused>>

LeaveLimited ==
    /\ Filling
    /\ LET p == Head(rest) IN
        /\ \/ OutOfRequests(p)
           \/ ~TooLarge(p) /\ Overflows(p) /\ batch = <<>>
        /\ Leave(p, "limited")

LeaveOversized ==
    /\ Filling
    /\ LET p == Head(rest) IN
        /\ ~OutOfRequests(p) /\ TooLarge(p)
        /\ Leave(p, "oversized")

Reserve ==
    /\ Filling
    /\ LET p == Head(rest) IN
        /\ ~OutOfRequests(p) /\ ~TooLarge(p) /\ ~Overflows(p)
        /\ pending' = IF NeedsFetch(p) THEN pending \union {tree.sha[p]} ELSE pending
        /\ batch' = Append(batch, p)
        /\ reserved' = reserved + Reservation(p)
    /\ taken' = taken + 1 /\ rest' = Tail(rest)
    /\ UNCHANGED <<phase, signal, tree, requests, kind, queued, answers, blobVars,
                   skipped, selectVars, coverage, refused>>

\* The batch is full, the queue is empty, or the next candidate must wait for
\* the bytes this batch turns out to use.
Full ==
    \/ rest = <<>>
    \/ Len(batch) >= BatchSize
    \/ /\ rest # <<>> /\ batch # <<>>
       /\ LET p == Head(rest) IN ~OutOfRequests(p) /\ ~TooLarge(p) /\ Overflows(p)

Dispatch ==
    /\ phase = "filling" /\ Full
    /\ phase' = "fetching"
    /\ requests' = requests + Cardinality(pending)
    /\ answers' = [s \in Sha |-> IF s \in pending THEN "waiting" ELSE "none"]
    /\ UNCHANGED <<signal, tree, queueVars, batchVars, blobVars, skipped, selectVars,
                   coverage, refused>>

\* Nothing settles a request whose signal was aborted.
BlobAnswers_Live(s, a) ==
    /\ phase = "fetching" /\ answers[s] = "waiting" /\ signal = "live"
    /\ a = "denied" => Connected
    /\ answers' = [answers EXCEPT ![s] = a]
    /\ refused' = (refused \/ a = "denied")
    /\ UNCHANGED <<phase, signal, tree, requests, queueVars, batchVars, blobVars, skipped,
                   selectVars, coverage>>

\* The answers arrive in any order; a request that does not end is timed out.
BlobAnswers(s, a) ==
    /\ phase = "fetching" /\ answers[s] = "waiting"
    /\ a = "denied" => Connected
    /\ answers' = [answers EXCEPT ![s] = a]
    /\ refused' = (refused \/ a = "denied")
    /\ UNCHANGED <<phase, signal, tree, requests, queueVars, batchVars, blobVars, skipped,
                   selectVars, coverage>>

\* Promise.all: the batch goes on when every request is answered.
BatchAnswered ==
    /\ phase = "fetching" /\ \A s \in Sha : answers[s] # "waiting"
    /\ phase' = IF signal = "aborted" THEN "interrupted" ELSE "retaining"
    /\ UNCHANGED <<signal, tree, requests, queueVars, batchVars, answers, blobVars,
                   skipped, selectVars, coverage, refused>>

(***************************************************************************)
(* Retaining, in candidate order.                                          *)
(***************************************************************************)

\* What becomes of path p: the early returns of retainEntry, in their order.
Outcome(p) ==
    LET s == tree.sha[p]
        declared == tree.size[p]
        size == Content[s].size
    IN  IF declared # Unknown /\ declared > MaxFileBytes THEN "oversized"
        ELSE IF declared # Unknown /\ totalBytes + declared > MaxTotalFileBytes THEN "limited"
        ELSE IF verdicts[s] # "none" THEN verdicts[s]
        ELSE IF s \notin cached /\ answers[s] # "blob" THEN answers[s]
        ELSE IF s \notin cached /\ size > MaxFileBytes THEN "oversized"
        ELSE IF s \notin cached /\ Content[s].kind = "binary" THEN "binary"
        ELSE IF totalBytes + size > MaxTotalFileBytes THEN "limited"
        ELSE IF Content[s].kind = "lfs" THEN "lfs"
        ELSE "retained"

Retaining == phase = "retaining" /\ batch # <<>>

RetainFile ==
    /\ Retaining
    /\ LET p == Head(batch) IN
        /\ Outcome(p) = "retained"
        /\ files' = files \union {p}
        /\ totalBytes' = totalBytes + Content[tree.sha[p]].size
        /\ cached' = cached \union {tree.sha[p]}
    /\ batch' = Tail(batch)
    /\ UNCHANGED <<phase, signal, tree, requests, queueVars, pending, reserved, answers,
                   verdicts, rateLimited, skipped, selectVars, coverage, refused>>

SkipFile ==
    /\ Retaining
    /\ LET p == Head(batch)
           why == Outcome(p)
       IN  /\ why \in Reason \ {"failed"}
           /\ skipped' = [skipped EXCEPT ![p] = @ \union {why}]
           /\ verdicts' = [verdicts EXCEPT ![tree.sha[p]] =
                                IF why = "limited" THEN @ ELSE why]
    /\ batch' = Tail(batch)
    /\ UNCHANGED <<phase, signal, tree, requests, queueVars, pending, reserved, answers,
                   cached, rateLimited, files, totalBytes, selectVars, coverage, refused>>

\* Takes a refused credential for one more failed file.
FailFile_Denied ==
    /\ Retaining
    /\ LET p == Head(batch)
           why == Outcome(p)
       IN  /\ why \in Failure \union {"denied"}
           /\ skipped' = [skipped EXCEPT ![p] = @ \union {"failed"}]
           /\ verdicts' = [verdicts EXCEPT ![tree.sha[p]] =
                                IF why = "permanent" THEN "permanent" ELSE @]
           /\ rateLimited' = (rateLimited \/ why = "rate")
    /\ batch' = Tail(batch)
    /\ UNCHANGED <<phase, signal, tree, requests, queueVars, pending, reserved, answers,
                   cached, files, totalBytes, selectVars, coverage, refused>>

\* A failed file is named; what cannot change is not asked again.
FailFile ==
    /\ Retaining
    /\ LET p == Head(batch)
           why == Outcome(p)
       IN  /\ why \in Failure
           /\ skipped' = [skipped EXCEPT ![p] = @ \union {"failed"}]
           /\ verdicts' = [verdicts EXCEPT ![tree.sha[p]] =
                                IF why = "permanent" THEN "permanent" ELSE @]
           /\ rateLimited' = (rateLimited \/ why = "rate")
    /\ batch' = Tail(batch)
    /\ UNCHANGED <<phase, signal, tree, requests, queueVars, pending, reserved, answers,
                   cached, files, totalBytes, selectVars, coverage, refused>>

FileDenied ==
    /\ Retaining /\ Outcome(Head(batch)) = "denied"
    /\ phase' = "denied"
    /\ UNCHANGED <<signal, tree, requests, queueVars, batchVars, answers, blobVars,
                   skipped, selectVars, coverage, refused>>

BatchRetained ==
    /\ phase = "retaining" /\ batch = <<>>
    /\ phase' = IF Selecting THEN "selecting" ELSE "looping"
    /\ UNCHANGED <<signal, tree, requests, queueVars, batchVars, answers, blobVars,
                   skipped, selectVars, coverage, refused>>

(***************************************************************************)
(* Splicing in what the configuration selector asks for.                   *)
(***************************************************************************)

\* The selector asks for each path at most once in one answer.
Asks(p) ==
    /\ phase = "selecting" /\ p \notin asked /\ tree.class[p] \in Selectable
    /\ asked' = asked \union {p}
    /\ UNCHANGED <<phase, signal, tree, requests, taken, batchVars, answers, blobVars,
                   coverage, refused>>

AtLimit == taken + Len(rest) + Len(additions) >= MaxFiles

\* The sequence s without its i-th element.
Without(s, i) == SubSeq(s, 1, i - 1) \o SubSeq(s, i + 1, Len(s))

\* The queued candidate i is the last source still to come.
LastSource(i) ==
    /\ i \in 1 .. Len(rest) /\ kind[rest[i]] = "source"
    /\ \A j \in i + 1 .. Len(rest) : kind[rest[j]] # "source"

MoveForward(p) ==
    /\ Asks(p) /\ p \in queued
    /\ \E i \in 1 .. Len(rest) : rest[i] = p /\ rest' = Without(rest, i)
    /\ additions' = Append(additions, p)
    /\ UNCHANGED <<kind, queued, skipped>>

Admit(p) ==
    /\ Asks(p) /\ p \notin queued /\ ~AtLimit
    /\ additions' = Append(additions, p)
    /\ queued' = queued \union {p}
    /\ kind' = [kind EXCEPT ![p] = "config"]
    /\ UNCHANGED <<rest, skipped>>

\* Displaces a source without naming it.
Displace_Silent(p) ==
    /\ Asks(p) /\ p \notin queued /\ AtLimit
    /\ \E i \in 1 .. Len(rest) :
        /\ LastSource(i)
        /\ rest' = Without(rest, i)
        /\ queued' = (queued \ {rest[i]}) \union {p}
    /\ skipped' = skipped
    /\ additions' = Append(additions, p)
    /\ kind' = [kind EXCEPT ![p] = "config"]

\* At the limit a selected file takes the place of the last source to come.
Displace(p) ==
    /\ Asks(p) /\ p \notin queued /\ AtLimit
    /\ \E i \in 1 .. Len(rest) :
        /\ LastSource(i)
        /\ rest' = Without(rest, i)
        /\ skipped' = [skipped EXCEPT ![rest[i]] = @ \union {"limited"}]
        /\ queued' = (queued \ {rest[i]}) \union {p}
    /\ additions' = Append(additions, p)
    /\ kind' = [kind EXCEPT ![p] = "config"]

Refuse(p) ==
    /\ Asks(p) /\ p \notin queued /\ AtLimit
    /\ \A i \in 1 .. Len(rest) : ~LastSource(i)
    /\ skipped' = [skipped EXCEPT ![p] = @ \union {"limited"}]
    /\ UNCHANGED <<rest, additions, kind, queued>>

SpliceAdditions ==
    /\ phase = "selecting"
    /\ phase' = "looping"
    /\ rest' = additions \o rest
    /\ additions' = <<>> /\ asked' = {}
    /\ UNCHANGED <<signal, tree, requests, taken, kind, queued, batchVars, answers,
                   blobVars, skipped, coverage, refused>>

(***************************************************************************)
(* The snapshot.                                                           *)
(***************************************************************************)

\* Paths whose absence limits conclusions about source usage.
Evidence(p) == p # Root /\ tree.class[p] \in {"manifest", "config", "source"}

\* Forgets the candidates beyond the file limit.
Partial_WithinLimit ==
    \/ tree.truncated
    \/ \E p \in Path : tree.class[p] \in Hidden
    \/ \E p \in Path : Evidence(p) /\ skipped[p] # {}

Partial ==
    \/ tree.truncated
    \/ \E p \in Path : tree.class[p] \in Hidden
    \/ taken + Len(rest) < Len(tree.order)
    \/ \E p \in Path : Evidence(p) /\ skipped[p] # {}

Publish ==
    /\ phase = "looping" /\ rest = <<>>
    /\ phase' = "snapshot"
    /\ coverage' = IF Partial THEN "partial" ELSE "complete"
    /\ UNCHANGED <<signal, tree, requests, queueVars, batchVars, answers, blobVars,
                   skipped, selectVars, refused>>

Run ==
    \/ Interrupted \/ HeaderFails \/ HeaderDenied \/ HeaderArrives \/ TreeArrives
    \/ StartBatch \/ LeaveLimited \/ LeaveOversized \/ Reserve \/ Dispatch
    \/ \E s \in Sha, a \in Answer : BlobAnswers(s, a)
    \/ BatchAnswered
    \/ RetainFile \/ SkipFile \/ FailFile \/ FileDenied \/ BatchRetained
    \/ SpliceAdditions
    \/ Publish

Select == \E p \in Path : MoveForward(p) \/ Admit(p) \/ Displace(p) \/ Refuse(p)

Next == Abort \/ Run \/ Select

Spec == Init /\ [][Next]_vars

\* Every request is timed out and everything else is synchronous; nothing is
\* assumed of an abort or of what the selector asks for.
FairSpec == Spec /\ WF_vars(Run)

(***************************************************************************)
(* Properties.                                                             *)
(***************************************************************************)

Headers == {"repository", "commit", "tree"}
Phase == Headers \union Ended
         \union {"looping", "filling", "fetching", "retaining", "selecting"}

TypeOK ==
    /\ phase \in Phase /\ signal \in {"live", "aborted"} /\ tree \in Trees
    /\ requests \in Nat /\ taken \in Nat /\ reserved \in Nat /\ totalBytes \in Nat
    /\ rest \in Seq(Path) /\ batch \in Seq(Path) /\ additions \in Seq(Path)
    /\ kind \in [Path -> Class] /\ queued \in SUBSET Path
    /\ pending \in SUBSET Sha /\ IsFiniteSet(pending)
    /\ answers \in [Sha -> Answer \union {"none", "waiting"}]
    /\ cached \in SUBSET Sha /\ verdicts \in [Sha -> Verdict \union {"none"}]
    /\ rateLimited \in BOOLEAN /\ files \in SUBSET Path
    /\ skipped \in [Path -> SUBSET Reason] /\ asked \in SUBSET Path
    /\ coverage \in {"none", "partial", "complete"} /\ refused \in BOOLEAN

\* The budgets are kept by the reservations: the request client's own refusal
\* and the byte check after the download never have to act on them.
WithinBudget ==
    /\ totalBytes <= MaxTotalFileBytes
    /\ requests <= MaxRequests
    /\ phase = "filling" => requests + Cardinality(pending) <= MaxRequests
    /\ phase \in Headers => requests <= 3 /\ taken = 0 /\ rest = <<>> /\ queued = {}
    /\ phase = "repository" => requests <= 1
    /\ phase = "commit" => requests <= 2
    /\ taken + Len(rest) + Len(additions) <= MaxFiles

\* A batch exists between its start and its last retained entry, the selector's
\* additions only while they are spliced in.
Staged ==
    /\ phase \in Headers \union {"looping", "selecting", "snapshot"} => batch = <<>>
    /\ phase # "selecting" => additions = <<>>
    /\ phase = "snapshot" => rest = <<>>
    /\ coverage # "none" => phase = "snapshot"

\* Every entry of a batch has its blob, its verdict, or a request of its own.
Backed(p) ==
    LET s == tree.sha[p] IN
    \/ s \in cached \/ verdicts[s] # "none"
    \/ phase = "filling" /\ s \in pending
    \/ phase \in {"fetching", "retaining"} /\ answers[s] # "none"

BatchBacked ==
    /\ phase \in {"filling", "fetching", "retaining"} =>
           \A p \in Elements(batch) : Backed(p)
    /\ phase = "retaining" => \A s \in Sha : answers[s] # "waiting"

InHand == Elements(rest) \union Elements(batch) \union Elements(additions)

QueuedAccounted ==
    \A p \in queued : p \in InHand \/ p \in files \/ skipped[p] # {}

FirstAccounted ==
    phase \notin Headers /\ phase \notin {"unavailable", "denied", "interrupted"} =>
        \A i \in 1 .. Smaller(MaxFiles, Len(tree.order)) :
            tree.order[i] \in queued \/ skipped[tree.order[i]] # {}

CoverageComputed ==
    phase = "snapshot" => coverage = IF Partial THEN "partial" ELSE "complete"

\* The inductive invariant: the budgets, the life of a batch, and the account of
\* every queued path.
IInv ==
    TypeOK /\ WithinBudget /\ Staged /\ BatchBacked /\ QueuedAccounted
    /\ FirstAccounted /\ CoverageComputed

\* In a snapshot every candidate within the file limit, and every path the
\* selector was granted, is retained or named in a list of limitations, whatever
\* was displaced, refused, deduplicated or cut by a budget on the way.
NothingLostSilently ==
    phase = "snapshot" =>
        /\ \A p \in queued : p \in files \/ skipped[p] # {}
        /\ \A i \in 1 .. Smaller(MaxFiles, Len(tree.order)) :
               tree.order[i] \in files \/ skipped[tree.order[i]] # {}

\* Coverage is reported complete only if every manifest, configuration and
\* source of the tree was retained: "unused" conclusions rest on it.
CompleteMeansAll ==
    coverage = "complete" =>
        /\ ~tree.truncated
        /\ \A p \in Path : tree.class[p] \notin Hidden
        /\ \A p \in Path : Evidence(p) => p \in files

\* A refused credential ends the acquisition: it never yields a snapshot in
\* which the refusal is one more missing file.  (When the sizes of the tree are
\* those of its blobs: else a refused entry may be dropped for its size first.)
HonestSizes == \A p \in Path : tree.size[p] \in {Unknown, Content[tree.sha[p]].size}
LostAccessEnds == phase = "snapshot" /\ HonestSizes => ~refused

\* Every acquisition ends: displaced and moved files do not keep it going, and an
\* aborted one is not left waiting.
Settles == <>(phase \in Ended)
=============================================================================
