------------------------ MODULE ReportReader_proofs ------------------------
(***************************************************************************)
(* Proofs about ReportReader, for any analyses, owners and clients: three  *)
(* separate reads tell one consistent story because a settled analysis     *)
(* only ever disappears, and disappears together with its report.          *)
(***************************************************************************)
EXTENDS ReportReader, TLAPS

\* A settled analysis stays as it is until it is removed, a removed one stays removed.
SettledStays(a, s) == s \in Settled => status[a] \in {s, "deleted"}

ReportsStored == \A a \in Analysis : status[a] \in Succeeded => report[a] = status[a]

\* What a poll has read is still true, unless the analysis has been removed since; it only
\* looks again when the report was gone.
PollsRemember ==
    \A c \in Client :
        /\ poll[c].pc \in {"report", "recheck"} =>
              /\ poll[c].seen \in Succeeded
              /\ SettledStays(poll[c].analysis, poll[c].seen)
              /\ answer[c][poll[c].analysis].shown \in Settled =>
                    answer[c][poll[c].analysis].shown = poll[c].seen
        /\ poll[c].pc = "recheck" => status[poll[c].analysis] = "deleted"

AnswersRemember ==
    \A c \in Client, a \in Analysis : SettledStays(a, answer[c][a].shown)

IInv == ReaderInv /\ ReportsStored /\ PollsRemember /\ AnswersRemember

\* What the environment may do to one analysis.
LEMMA PromiseEffect ==
    ASSUME PromiseTypeOK, ReportsStored, PromiseNext
    PROVE  /\ PromiseTypeOK'
           /\ ReportsStored'
           /\ \A a \in Analysis : \/ status[a] \notin Settled \cup {"deleted"}
                                  \/ status'[a] \in {status[a], "deleted"}
           /\ \A a \in Analysis : status[a] = "deleted" => status'[a] = "deleted"
<1> USE DEF PromiseTypeOK, ReportsStored, Settled, Succeeded, NotFound
<1>1. ASSUME NEW a \in Analysis,
             Accept(a) \/ Start(a) \/ Return(a) \/ GiveUp(a)
      PROVE  /\ status[a] \notin Settled \cup {"deleted"}
             /\ report' = report
             /\ \E s \in {"queued", "running", "failed"} : status' = [status EXCEPT ![a] = s]
  BY <1>1 DEF Accept, Start, Return, GiveUp
<1>2. CASE \E a \in Analysis : Accept(a) \/ Start(a) \/ Return(a) \/ GiveUp(a)
  BY <1>1, <1>2
<1>3. CASE \E a \in Analysis, outcome \in Succeeded : Succeed(a, outcome)
  BY <1>3 DEF Succeed
<1>4. CASE \E batch \in SUBSET Analysis : Remove(batch)
  BY <1>4 DEF Remove
<1> QED BY <1>2, <1>3, <1>4 DEF PromiseNext

\* The handler only sets the polls and the answers of its own client.
LEMMA AnsweredEffect ==
    ASSUME ReaderTypeOK, NEW c \in Client, NEW kind, NEW shown, Answered(c, kind, shown)
    PROVE  /\ poll'[c].pc = "idle" /\ poll'[c].analysis = poll[c].analysis
           /\ \A b \in Client \ {c} : poll'[b] = poll[b] /\ answer'[b] = answer[b]
           /\ answer'[c][poll[c].analysis] = [kind |-> kind, shown |-> shown]
           /\ \A a \in Analysis \ {poll[c].analysis} : answer'[c][a] = answer[c][a]
           /\ status' = status /\ report' = report
  BY DEF ReaderTypeOK, Poll, Answered, promise

LEMMA ReadOnEffect ==
    ASSUME ReaderTypeOK, NEW c \in Client, NEW pc, NEW seen, ReadOn(c, pc, seen)
    PROVE  /\ poll'[c].pc = pc /\ poll'[c].seen = seen
           /\ poll'[c].analysis = poll[c].analysis
           /\ \A b \in Client \ {c} : poll'[b] = poll[b]
           /\ answer' = answer /\ status' = status /\ report' = report
  BY DEF ReaderTypeOK, Poll, ReadOn, promise

\* What a client can be told: the status as it is, or as it was read, of an analysis it
\* has not been told otherwise about; or nothing new.
Tells(c) ==
    LET a == poll[c].analysis
    IN  \/ \E kind \in {"not_found", "dependency_failed"} : Refused(c, kind)
        \/ \E s \in Unsettled \cup Settled :
              /\ Found(c, s)
              /\ SettledStays(a, s)
              /\ answer[c][a].shown \in Settled => s = answer[c][a].shown

LEMMA HandlerEffect ==
    ASSUME IInv, NEW c \in Client, ReadAnalysis(c) \/ ReadReport(c) \/ Recheck(c) \/ ReadFails(c)
    PROVE  \/ Tells(c)
           \/ \E pc \in {"report", "recheck"}, seen \in Succeeded :
                 /\ ReadOn(c, pc, seen)
                 /\ SettledStays(poll[c].analysis, seen)
                 /\ answer[c][poll[c].analysis].shown \in Settled =>
                       answer[c][poll[c].analysis].shown = seen
                 /\ pc = "recheck" => status[poll[c].analysis] = "deleted"
<1> DEFINE a == poll[c].analysis
<1>a. /\ a \in Analysis
      /\ status[a] \in Unsettled \cup Settled \cup NotFound
      /\ status[a] \in Succeeded => report[a] = status[a]
      /\ SettledStays(a, answer[c][a].shown)
  BY DEF IInv, ReaderInv, ReaderTypeOK, Poll, PromiseTypeOK, ReportsStored, AnswersRemember, Unsettled
<1>1. CASE ReadAnalysis(c)
  <2>1. CASE ~Visible(c) /\ Refused(c, "not_found")
    BY <2>1 DEF Tells
  <2>2. CASE Visible(c) /\ status[a] \notin Succeeded /\ Found(c, status[a])
    <3>1. /\ status[a] \in Unsettled \cup Settled /\ SettledStays(a, status[a])
          /\ answer[c][a].shown \in Settled => status[a] = answer[c][a].shown
      BY <1>a, <2>2 DEF Visible, SettledStays, NotFound
    <3> QED BY <2>2, <3>1 DEF Tells
  <2>3. CASE Visible(c) /\ status[a] \in Succeeded /\ ReadOn(c, "report", status[a])
    <3>1. /\ SettledStays(a, status[a])
          /\ answer[c][a].shown \in Settled => answer[c][a].shown = status[a]
      BY <1>a, <2>3 DEF SettledStays, Succeeded
    <3> QED BY <2>3, <3>1
  <2> QED BY <1>1, <2>1, <2>2, <2>3 DEF ReadAnalysis
<1>2. CASE ReadReport(c)
  <2>1. /\ poll[c].seen \in Succeeded /\ SettledStays(a, poll[c].seen)
        /\ answer[c][a].shown \in Settled => answer[c][a].shown = poll[c].seen
    BY <1>2 DEF ReadReport, IInv, PollsRemember
  <2>2. CASE Found(c, poll[c].seen)
    BY <2>1, <2>2 DEF Tells, Settled
  <2>3. CASE report[a] = "none" /\ ReadOn(c, "recheck", poll[c].seen)
    <3>1. status[a] = "deleted"
      BY <1>a, <2>1, <2>3 DEF SettledStays, Settled, Succeeded
    <3> QED BY <2>1, <2>3, <3>1
  <2> QED BY <1>2, <2>2, <2>3 DEF ReadReport
<1>3. CASE Recheck(c)
  <2>1. status[a] = "deleted"
    BY <1>3 DEF Recheck, IInv, PollsRemember
  <2> QED BY <1>3, <2>1 DEF Recheck, Visible, NotFound, Tells
<1>4. CASE ReadFails(c)
  BY <1>4 DEF ReadFails, Tells
<1> QED BY <1>1, <1>2, <1>3, <1>4

LEMMA NextIInv == IInv /\ [Next]_vars => IInv'
<1> SUFFICES ASSUME IInv, [Next]_vars
             PROVE  IInv'
  OBVIOUS
<1>a. ReaderTypeOK /\ PromiseTypeOK
  BY DEF IInv, ReaderInv, ReaderTypeOK
<1>1. CASE UNCHANGED vars
  BY <1>1 DEF vars, IInv, ReaderInv, ReaderTypeOK, PromiseTypeOK, NeverReportMissing, ReportsStored,
              PollsRemember, AnswersRemember, SettledStays
<1>2. ASSUME NEW c \in Client, NEW a \in Analysis, Request(c, a)
      PROVE  IInv'
  <2>1. /\ answer' = answer /\ status' = status /\ report' = report
        /\ poll'[c].pc = "analysis"
        /\ \A b \in Client \ {c} : poll'[b] = poll[b]
    BY <1>2, <1>a DEF Request, promise, ReaderTypeOK
  <2>2. poll' \in [Client -> Poll]
    BY <1>2, <1>a, OwnerAssumption DEF Request, ReaderTypeOK, Poll, ReadPc
  <2> QED BY <2>1, <2>2 DEF IInv, ReaderInv, ReaderTypeOK, PromiseTypeOK, NeverReportMissing,
                            ReportsStored, PollsRemember, AnswersRemember, SettledStays
<1>3. ASSUME NEW c \in Client, Tells(c)
      PROVE  IInv'
  <2>1. PICK kind \in {"found", "not_found", "dependency_failed"},
             s \in {"none"} \cup Unsettled \cup Settled :
               /\ Answered(c, kind, s)
               /\ SettledStays(poll[c].analysis, s)
               /\ answer[c][poll[c].analysis].shown \in Settled =>
                     s = answer[c][poll[c].analysis].shown
    <3>1. /\ answer[c][poll[c].analysis] \in Answer
          /\ SettledStays(poll[c].analysis, answer[c][poll[c].analysis].shown)
      BY <1>a DEF ReaderTypeOK, Poll, IInv, AnswersRemember
    <3> QED BY <1>3, <3>1 DEF Tells, Found, Refused, Answer
  <2>2. /\ poll'[c].pc = "idle" /\ poll'[c].analysis = poll[c].analysis
        /\ \A b \in Client \ {c} : poll'[b] = poll[b] /\ answer'[b] = answer[b]
        /\ answer'[c][poll[c].analysis] = [kind |-> kind, shown |-> s]
        /\ \A a \in Analysis \ {poll[c].analysis} : answer'[c][a] = answer[c][a]
        /\ status' = status /\ report' = report
    BY <1>a, <2>1, AnsweredEffect
  <2>3. poll' \in [Client -> Poll] /\ answer' \in [Client -> [Analysis -> Answer]]
    <3>1. [kind |-> kind, shown |-> s] \in Answer
      BY <2>1 DEF Answer
    <3> QED BY <1>a, <2>1, <3>1 DEF Answered, ReaderTypeOK, Poll, ReadPc
  <2>4. poll[c].analysis \in Analysis
    BY <1>a DEF ReaderTypeOK, Poll
  <2>5. ReaderInv'
    <3>1. ReaderTypeOK'
      BY <1>a, <2>2, <2>3 DEF ReaderTypeOK, PromiseTypeOK
    <3>2. \A a \in Analysis : answer'[c][a].kind # "report_missing"
      BY <2>1, <2>2, <2>4 DEF IInv, ReaderInv, NeverReportMissing
    <3> QED BY <2>2, <3>1, <3>2 DEF IInv, ReaderInv, NeverReportMissing
  <2>6. AnswersRemember'
    BY <2>1, <2>2, <2>4 DEF IInv, AnswersRemember, SettledStays
  <2>7. PollsRemember'
    BY <2>2 DEF IInv, PollsRemember, SettledStays
  <2> QED BY <2>2, <2>5, <2>6, <2>7 DEF IInv, ReportsStored
<1>4. ASSUME NEW c \in Client, NEW pc \in {"report", "recheck"}, NEW seen \in Succeeded,
             ReadOn(c, pc, seen), SettledStays(poll[c].analysis, seen),
             answer[c][poll[c].analysis].shown \in Settled =>
                answer[c][poll[c].analysis].shown = seen,
             pc = "recheck" => status[poll[c].analysis] = "deleted"
      PROVE  IInv'
  <2>1. /\ poll'[c].pc = pc /\ poll'[c].seen = seen
        /\ poll'[c].analysis = poll[c].analysis
        /\ \A b \in Client \ {c} : poll'[b] = poll[b]
        /\ answer' = answer /\ status' = status /\ report' = report
    BY <1>a, <1>4, ReadOnEffect
  <2>2. poll' \in [Client -> Poll]
    BY <1>a, <1>4 DEF ReadOn, ReaderTypeOK, Poll, ReadPc
  <2> QED BY <1>4, <2>1, <2>2 DEF IInv, ReaderInv, ReaderTypeOK, PromiseTypeOK,
             NeverReportMissing, ReportsStored, PollsRemember, AnswersRemember, SettledStays
\* The environment: what was read stays true or the analysis is removed.
<1>5. CASE PromiseNext /\ UNCHANGED <<poll, answer>>
  <2>1. /\ PromiseTypeOK' /\ ReportsStored'
        /\ \A a \in Analysis : \/ status[a] \notin Settled \cup {"deleted"}
                               \/ status'[a] \in {status[a], "deleted"}
        /\ \A a \in Analysis : status[a] = "deleted" => status'[a] = "deleted"
    BY <1>a, <1>5, PromiseEffect DEF IInv
  <2>2. \A s : \A a \in Analysis : SettledStays(a, s) => SettledStays(a, s)'
    BY <2>1 DEF SettledStays
  <2>3. \A c \in Client : poll[c].analysis \in Analysis
    BY <1>a DEF ReaderTypeOK, Poll
  <2>4. poll' = poll /\ answer' = answer
    BY <1>5
  <2> QED BY <2>1, <2>2, <2>3, <2>4 DEF IInv, ReaderInv, ReaderTypeOK, NeverReportMissing,
                                        PollsRemember, AnswersRemember, SettledStays
<1> QED BY <1>1, <1>2, <1>3, <1>4, <1>5, HandlerEffect DEF Next

THEOREM Invariant == Spec => []IInv
<1>1. Init => IInv
  BY DEF Init, PromiseInit, IInv, ReaderInv, ReaderTypeOK, PromiseTypeOK, NeverReportMissing,
         ReportsStored, PollsRemember, AnswersRemember, SettledStays, Poll, ReadPc, Answer,
         Settled, Succeeded, NotFound
<1> QED BY <1>1, NextIInv, PTL DEF Spec

\* repository-analysis.ts, "Retention may remove the analysis between reads": for any number of
\* clients and analyses no poll reports a completed analysis whose report is missing.
THEOREM NoReportIsMissed == Spec => []ReaderInv
<1>1. IInv => ReaderInv
  BY DEF IInv
<1> QED BY <1>1, Invariant, PTL

\* A client that has been shown how an analysis ended is never shown anything else.
THEOREM PollingNeverGoesBack == Spec => PollsNeverGoBack
<1>1. ASSUME IInv, [Next]_vars, NEW c \in Client, NEW a \in Analysis,
             answer[c][a].shown \in Settled
      PROVE  answer'[c][a].shown = answer[c][a].shown
  <2>1. CASE answer' = answer
    BY <2>1
  <2>2. ASSUME NEW b \in Client, Tells(b)
        PROVE  answer'[c][a].shown = answer[c][a].shown
    <3>1. PICK kind, s : /\ Answered(b, kind, s)
                         /\ answer[b][poll[b].analysis].shown \in Settled =>
                               s = answer[b][poll[b].analysis].shown
      BY <2>2 DEF Tells, Found, Refused
    <3>2. /\ \A d \in Client \ {b} : answer'[d] = answer[d]
          /\ answer'[b][poll[b].analysis] = [kind |-> kind, shown |-> s]
          /\ \A d \in Analysis \ {poll[b].analysis} : answer'[b][d] = answer[b][d]
      BY <1>1, <3>1, AnsweredEffect DEF IInv, ReaderInv
    <3> QED BY <1>1, <3>1, <3>2
  <2> QED BY <1>1, <2>1, <2>2, HandlerEffect DEF Next, Request, ReadOn, vars
<1>2. IInv /\ [Next]_vars =>
        [\A c \in Client, a \in Analysis :
            answer[c][a].shown \in Settled => answer'[c][a].shown = answer[c][a].shown]_vars
  BY <1>1
<1> QED BY <1>2, Invariant, PTL DEF Spec, PollsNeverGoBack

\* Whoever may see an accepted analysis is told `not found' only once it has been removed.
THEOREM NotFoundMeansRemoved == Spec => FoundUntilRemoved
<1>1. ASSUME IInv, [Next]_vars, NEW c \in Client, NEW a \in Analysis,
             answer'[c] # answer[c], poll[c].analysis = a, answer'[c][a].kind = "not_found",
             OwnerOf[a] \in {Nobody, poll[c].viewer}
      PROVE  status[a] \in NotFound
  <2>1. ASSUME NEW b \in Client, NEW kind, NEW s, Answered(b, kind, s)
        PROVE  b = c /\ kind = "not_found"
    <3>1. /\ \A d \in Client \ {b} : answer'[d] = answer[d]
          /\ answer'[b][poll[b].analysis] = [kind |-> kind, shown |-> s]
      BY <1>1, <2>1, AnsweredEffect DEF IInv, ReaderInv
    <3> QED BY <1>1, <3>1
  <2>2. PICK b \in Client : ReadAnalysis(b) \/ ReadReport(b) \/ Recheck(b) \/ ReadFails(b)
    BY <1>1 DEF Next, Request, vars
  <2>3. CASE \E pc, seen : ReadOn(b, pc, seen)
    BY <1>1, <2>3 DEF ReadOn
  <2>4. CASE ~\E pc, seen : ReadOn(b, pc, seen)
    <3>1. b = c /\ ~Visible(c)
      BY <2>1, <2>2, <2>4 DEF ReadAnalysis, ReadReport, Recheck, ReadFails, Found, Refused, ReplyWithout
    <3> QED BY <1>1, <3>1 DEF Visible
  <2> QED BY <2>3, <2>4
<1>2. IInv /\ [Next]_vars =>
        [\A c \in Client, a \in Analysis :
            /\ answer'[c] # answer[c] /\ poll[c].analysis = a
            /\ answer'[c][a].kind = "not_found"
            /\ OwnerOf[a] \in {Nobody, poll[c].viewer}
            => status[a] \in NotFound]_vars
  BY <1>1
<1> QED BY <1>2, Invariant, PTL DEF Spec, FoundUntilRemoved
=============================================================================
