---------------------- MODULE GitHubConnections_proofs ----------------------
(***************************************************************************)
(* Proofs about GitHubConnections, for any number of sessions and tabs.    *)
(* The argument: secrets are drawn fresh, so an INSERT never meets a row   *)
(* that was removed and a removed row is gone for good; what a page has    *)
(* learned and what it is about to learn can then be compared.             *)
(***************************************************************************)
EXTENDS GitHubConnections, TLAPS

Stage == {"none", "sent", "authorized", "verified", "exchanged", "ok", "refused", "heard"}

\* What every statement but an INSERT does to the table.
OnlyRemoved ==
    /\ row' \in [Session -> {"never", "present", "gone"}]
    /\ \A s \in Session : (row'[s] = "never" <=> row[s] = "never")
                          /\ (row[s] = "gone" => row'[s] = "gone")

LEMMA FreshIsTyped == FreshPage \in Page /\ NoPoll \in Poll /\ NoCall \in Call
  BY DEF FreshPage, NoPoll, NoCall, Page, Poll, Call, Secret

LEMMA DeletingOnlyRemoves ==
  ASSUME TypeOK, NEW c \in Secret, row' = Deleted(c) \/ row' = Swept(c) \/ row' = row
  PROVE  OnlyRemoved
  BY DEF TypeOK, OnlyRemoved, Deleted, Swept

LEMMA Advanced ==
  ASSUME NEW t \in Tab, NEW stage \in Stage, TypeOK, Advance(t, stage)
  PROVE  /\ call' \in [Tab -> Call]
         /\ call'[t].stage = stage
         /\ call'[t].kind = call[t].kind /\ call'[t].cookie = call[t].cookie
         /\ call'[t].csrf = call[t].csrf /\ call'[t].made = call[t].made
         /\ \A u \in Tab \ {t} : call'[u] = call[u]
<1>1. call[t] \in Call
  BY DEF TypeOK
<1>2. [call[t] EXCEPT !.stage = stage] \in Call
  BY <1>1 DEF Call, Stage
<1>3. call' = [call EXCEPT ![t] = [call[t] EXCEPT !.stage = stage]]
  BY DEF Advance
<1> QED
  BY <1>1, <1>2, <1>3 DEF TypeOK, Call

\* A statement of a sign-out or submission, done or given up, disturbs no secret and no page.
LEMMA StatementPreserves ==
  ASSUME NEW t \in Tab, NEW stage \in Stage \ {"exchanged"}, IInv, Advance(t, stage),
         OnlyRemoved, UNCHANGED <<lapsed, jar, page, poll>>,
         \/ late' = late
         \/ /\ late' = late \cup {[does |-> "remove", of |-> call[t].cookie, by |-> call[t].csrf]}
            /\ call[t].cookie \in Session
            /\ call[t].stage # "exchanged"
            /\ \A u \in Tab : call[u].stage = "exchanged" => call[u].made # call[t].cookie
  PROVE  TypeOK' /\ SecretsAreFresh' /\ AnswersAreCurrent'
<1> USE DEF IInv
<1>1. stage \in Stage
  OBVIOUS
<1>2. call[t] \in Call /\ call' \in [Tab -> Call]
  BY <1>1, Advanced DEF TypeOK
<1>3. late' \subseteq [does : {"save", "remove"}, of : Session, by : Secret]
  BY <1>2 DEF TypeOK, Call
<1>4. TypeOK'
  BY <1>2, <1>3 DEF TypeOK, OnlyRemoved
<1>5. \A u \in Tab : call'[u].made = call[u].made
  BY <1>1, Advanced
<1>6. \A u \in Tab : call'[u].stage = "exchanged" => call'[u] = call[u] /\ u # t
  BY <1>1, Advanced
<1>7. ASSUME NEW x \in late'
      PROVE  \/ x \in late
             \/ /\ x.does = "remove"
                /\ \A u \in Tab : call[u].stage = "exchanged" => call[u].made # x.of
  BY <1>7
<1>8. SecretsAreFresh'
  <2>1. ASSUME NEW u \in Tab, call'[u].stage = "exchanged"
        PROVE  /\ call'[u].kind = "callback" /\ call'[u].made \in Session
               /\ row'[call'[u].made] = "never"
               /\ \A x \in late' : x.of # call'[u].made
               /\ \A v \in Tab : call'[v].made = call'[u].made => v = u
    BY <2>1, <1>5, <1>6, <1>7 DEF SecretsAreFresh, OnlyRemoved
  <2>2. \A x \in late' : x.does = "save" => x.by = Nothing /\ row'[x.of] = "never"
    BY <1>7 DEF SecretsAreFresh, OnlyRemoved, TypeOK
  <2> QED
    BY <2>1, <2>2 DEF SecretsAreFresh
<1>9. Gone \subseteq Gone'
  BY DEF Gone, OnlyRemoved
<1>10. AnswersAreCurrent'
  BY <1>9 DEF AnswersAreCurrent
<1> QED
  BY <1>4, <1>8, <1>10

LEMMA AskSessionPreserves ==
  ASSUME NEW t \in Tab, IInv, AskSession(t)
  PROVE  IInv'
<1> USE SessionAssumption DEF IInv, AskSession, vars, server, browser
<1>1. TypeOK'
  BY DEF TypeOK, Page, Poll, Call, Secret, Gone
<1>2. SecretsAreFresh'
  BY DEF SecretsAreFresh, TypeOK, Page, Poll, Call, Secret, Gone
<1>3. AuthorityIsShown'
  BY DEF AuthorityIsShown, TypeOK, Page, Poll, Call, Secret, Gone
<1>4. AnswersAreCurrent'
  BY DEF AnswersAreCurrent, TypeOK, Page, Poll, Call, Secret, Gone
<1> QED
  BY <1>1, <1>2, <1>3, <1>4

LEMMA ServeSessionPreserves ==
  ASSUME NEW t \in Tab, IInv, ServeSession(t)
  PROVE  IInv'
<1> USE SessionAssumption DEF IInv, ServeSession, vars, server, browser
<1>1. TypeOK'
  <2>1. poll[t] \in Poll
    BY DEF TypeOK
  <2>2. \A a \in Secret : [poll[t] EXCEPT !.stage = "served", !.answer = a] \in Poll
    BY <2>1 DEF Poll
  <2>3. [poll[t] EXCEPT !.stage = "failed"] \in Poll
    BY <2>1 DEF Poll
  <2>4. (IF Live(poll[t].cookie) THEN poll[t].cookie ELSE Nothing) \in Secret
    BY <2>1 DEF Poll, Secret
  <2>6. poll' \in [Tab -> Poll]
    BY <2>2, <2>3, <2>4 DEF TypeOK
  <2>5. row' \in [Session -> {"never", "present", "gone"}]
    BY DEF TypeOK, Swept, Deleted
  <2> QED
    BY <2>5, <2>6 DEF TypeOK
<1>2. SecretsAreFresh'
  BY DEF SecretsAreFresh, TypeOK, Page, Poll, Call, Secret, Live, Swept, Deleted, Gone
<1>3. AuthorityIsShown'
  BY DEF AuthorityIsShown, TypeOK, Page, Poll, Call, Secret, Live, Swept, Deleted, Gone
<1>4. AnswersAreCurrent'
  <2>1. poll[t] \in Poll
    BY DEF TypeOK
  <2>4. PICK st \in {"served", "failed"}, a \in Secret :
           /\ poll' = [poll EXCEPT ![t] = [poll[t] EXCEPT !.stage = st, !.answer = a]]
           /\ st = "served" => a \notin Gone
    <3>1. CASE poll' = [poll EXCEPT ![t] = [poll[t] EXCEPT !.stage = "failed"]]
      <4>1. [poll[t] EXCEPT !.stage = "failed"]
               = [poll[t] EXCEPT !.stage = "failed", !.answer = poll[t].answer]
        BY <2>1 DEF Poll
      <4> QED
        BY <2>1, <3>1, <4>1 DEF Poll
    <3>2. CASE poll' = [poll EXCEPT ![t] = [poll[t] EXCEPT !.stage = "served",
                          !.answer = IF Live(poll[t].cookie) THEN poll[t].cookie ELSE Nothing]]
      <4>1. (IF Live(poll[t].cookie) THEN poll[t].cookie ELSE Nothing) \in Secret \ Gone
        BY <2>1 DEF Poll, Live, Secret, Gone
      <4> QED
        BY <3>2, <4>1
    <3> QED
      BY <3>1, <3>2
  <2>2. /\ poll'[t].ended = poll[t].ended
        /\ poll'[t].stage = "served" => poll'[t].answer \notin Gone
        /\ \A u \in Tab \ {t} : poll'[u] = poll[u]
    BY <2>1, <2>4 DEF TypeOK, Poll
  <2>3. Gone \subseteq Gone'
    BY DEF Gone, Swept, Deleted, TypeOK
  <2> QED
    BY <2>2, <2>3 DEF AnswersAreCurrent
<1> QED
  BY <1>1, <1>2, <1>3, <1>4

LEMMA ReceiveSessionPreserves ==
  ASSUME NEW t \in Tab, IInv, ReceiveSession(t)
  PROVE  IInv'
<1> USE SessionAssumption DEF IInv, ReceiveSession, vars, server, browser
<1>1. TypeOK'
  <2>1. poll[t] \in Poll /\ page[t] \in Page
    BY DEF TypeOK
  <2>2. \A f \in {"no", "yes"}, s \in Secret :
           [page[t] EXCEPT !.failed = f, !.shown = s, !.over = page[t].over \cup poll[t].ended] \in Page
    BY <2>1 DEF Page, Poll
  <2>3. page' \in [Tab -> Page]
    BY <2>1, <2>2 DEF TypeOK, Page, Poll, Secret
  <2> QED
    BY <2>3, FreshIsTyped DEF TypeOK
<1>2. SecretsAreFresh'
  BY DEF SecretsAreFresh, TypeOK, Page, Poll, Call, Secret, NoPoll, Gone
<1>3. AuthorityIsShown'
  BY DEF AuthorityIsShown, TypeOK, Page, Poll, Call, Secret, NoPoll, Gone
<1>4. AnswersAreCurrent'
  <2>1. poll[t] \in Poll /\ page[t] \in Page
    BY DEF TypeOK
  <2>2. /\ page'[t].over = page[t].over \cup poll[t].ended
        /\ page'[t].failed = "no" => page'[t].shown \in {Nothing, poll[t].answer}
                                    /\ poll[t].stage = "served"
        /\ poll'[t] = NoPoll
        /\ \A u \in Tab \ {t} : poll'[u] = poll[u] /\ page'[u] = page[u]
    BY <2>1 DEF TypeOK, Page
  <2>3. Gone' = Gone
    BY DEF Gone
  <2>4. Nothing \notin page[t].over \cup poll[t].ended
    BY <2>1 DEF Page, Poll
  <2> QED
    BY <2>2, <2>3, <2>4 DEF AnswersAreCurrent, NoPoll
<1> QED
  BY <1>1, <1>2, <1>3, <1>4

LEMMA ExpireSessionPreserves ==
  ASSUME NEW t \in Tab, IInv, ExpireSession(t)
  PROVE  IInv'
<1> USE SessionAssumption DEF IInv, ExpireSession, vars, server, browser
<1>1. TypeOK'
  <2>1. page[t] \in Page
    BY DEF TypeOK
  <2>2. [page[t] EXCEPT !.shown = Nothing, !.failed = "no"] \in Page
    BY <2>1 DEF Page, Secret
  <2> QED
    BY <2>2 DEF TypeOK
<1>2. SecretsAreFresh'
  BY DEF SecretsAreFresh, TypeOK, Page, Poll, Call, Secret, Gone
<1>3. AuthorityIsShown'
  BY DEF AuthorityIsShown, TypeOK, Page, Poll, Call, Secret, Gone
<1>4. AnswersAreCurrent'
  BY DEF AnswersAreCurrent, TypeOK, Page, Poll, Call, Secret, Gone
<1> QED
  BY <1>1, <1>2, <1>3, <1>4

LEMMA PressSignOutPreserves ==
  ASSUME NEW t \in Tab, IInv, PressSignOut(t)
  PROVE  IInv'
<1> USE SessionAssumption DEF IInv, PressSignOut, vars, server, browser
<1>1. TypeOK'
  <2>1. Rendered(t) \in Secret
    BY DEF Send, Rendered, TypeOK, Page, Secret
  <2>2. [NoCall EXCEPT !.kind = "sign-out", !.stage = "sent", !.cookie = jar.session,
                       !.csrf = Rendered(t)] \in Call
    BY <2>1, FreshIsTyped DEF TypeOK, Call
  <2>3. [page[t] EXCEPT !.waits = "yes"] \in Page
    BY DEF TypeOK, Page
  <2> QED
    BY <2>2, <2>3 DEF TypeOK, Send
<1>2. SecretsAreFresh'
  BY DEF SecretsAreFresh, TypeOK, Page, Poll, Call, Secret, Send, Rendered, NoCall, Gone
<1>3. AuthorityIsShown'
  BY DEF AuthorityIsShown, TypeOK, Page, Poll, Call, Secret, Send, Rendered, NoCall, Gone
<1>4. AnswersAreCurrent'
  BY DEF AnswersAreCurrent, TypeOK, Page, Poll, Call, Secret, Send, Rendered, NoCall, Gone
<1> QED
  BY <1>1, <1>2, <1>3, <1>4

LEMMA PressSubmitPreserves ==
  ASSUME NEW t \in Tab, IInv, PressSubmit(t)
  PROVE  IInv'
<1> USE SessionAssumption DEF IInv, PressSubmit, vars, server, browser
<1>1. TypeOK'
  BY DEF TypeOK, Page, Poll, Call, Secret, Send, Rendered, NoCall, Gone
<1>2. SecretsAreFresh'
  BY DEF SecretsAreFresh, TypeOK, Page, Poll, Call, Secret, Send, Rendered, NoCall, Gone
<1>3. AuthorityIsShown'
  BY DEF AuthorityIsShown, TypeOK, Page, Poll, Call, Secret, Send, Rendered, NoCall, Gone
<1>4. AnswersAreCurrent'
  BY DEF AnswersAreCurrent, TypeOK, Page, Poll, Call, Secret, Send, Rendered, NoCall, Gone
<1> QED
  BY <1>1, <1>2, <1>3, <1>4

LEMMA AuthorizePreserves ==
  ASSUME NEW t \in Tab, IInv, Authorize(t)
  PROVE  IInv'
<1> USE SessionAssumption DEF IInv, Authorize, vars, server, browser
<1>a. call[t] \in Call
  BY DEF TypeOK
<1>b. OnlyRemoved
  BY <1>a, DeletingOnlyRemoves DEF Call
<1>c. PICK stage \in Stage \ {"exchanged", "heard"} : Advance(t, stage)
  BY DEF Stage
<1>d. TypeOK' /\ SecretsAreFresh' /\ AnswersAreCurrent'
  BY <1>b, <1>c, StatementPreserves
<1>1. TypeOK'
  BY <1>d
<1>2. SecretsAreFresh'
  BY <1>d
<1>3. AuthorityIsShown'
  <2>1. stage \in Stage
    BY <1>c
  <2>2. call'[t].stage \in {"authorized", "refused"}
        /\ (call'[t].stage = "authorized" => Authorized(t))
    BY <1>a DEF Advance, TypeOK, Call
  <2> QED
    BY <2>1, <2>2, <1>b, <1>c, Advanced DEF AuthorityIsShown, Authorized, Live, OnlyRemoved, TypeOK
<1>4. AnswersAreCurrent'
  BY <1>d
<1> QED
  BY <1>1, <1>2, <1>3, <1>4

LEMMA DeleteConnectionPreserves ==
  ASSUME NEW t \in Tab, IInv, DeleteConnection(t)
  PROVE  IInv'
<1> USE SessionAssumption DEF IInv, DeleteConnection, vars, server, browser
<1>a. call[t] \in Call
  BY DEF TypeOK
<1>b. OnlyRemoved
  BY <1>a, DeletingOnlyRemoves DEF Call
<1>c. PICK stage \in Stage \ {"exchanged", "heard"} : Advance(t, stage)
  BY DEF Stage
<1>e. call[t].cookie \in Session /\ call[t].csrf = call[t].cookie
      /\ row[call[t].cookie] # "never"
  BY DEF AuthorityIsShown
<1>f. \A u \in Tab : call[u].stage = "exchanged" => call[u].made # call[t].cookie
  BY <1>e DEF SecretsAreFresh
<1>d. TypeOK' /\ SecretsAreFresh' /\ AnswersAreCurrent'
  BY <1>b, <1>c, <1>e, <1>f, StatementPreserves
<1>1. TypeOK'
  BY <1>d
<1>2. SecretsAreFresh'
  BY <1>d
<1>3. AuthorityIsShown'
  <2>1. stage \in Stage
    BY <1>c
  <2>2. /\ call'[t].stage \in {"ok", "refused"}
        /\ call'[t].stage = "ok" => row' = Deleted(call[t].cookie)
    BY <1>a DEF Advance, TypeOK, Call
  <2>3. call'[t].stage = "ok" => row'[call[t].cookie] = "gone"
    BY <2>2, <1>e DEF Deleted, TypeOK
  <2>4. \A x \in late' : x.does = "remove" => x.by = x.of
    BY <1>e DEF AuthorityIsShown
  <2> QED
    BY <2>1, <2>2, <2>3, <2>4, <1>b, <1>c, <1>e, Advanced DEF AuthorityIsShown, OnlyRemoved, TypeOK
<1>4. AnswersAreCurrent'
  BY <1>d
<1> QED
  BY <1>1, <1>2, <1>3, <1>4

LEMMA VerifyRepositoryPreserves ==
  ASSUME NEW t \in Tab, IInv, VerifyRepository(t)
  PROVE  IInv'
<1> USE SessionAssumption DEF IInv, VerifyRepository, vars, server, browser
<1>a. call[t] \in Call
  BY DEF TypeOK
<1>b. OnlyRemoved
  BY <1>a, DeletingOnlyRemoves DEF Call
<1>c. PICK stage \in Stage \ {"exchanged", "heard"} : Advance(t, stage)
  BY DEF Stage
<1>d. TypeOK' /\ SecretsAreFresh' /\ AnswersAreCurrent'
  BY <1>b, <1>c, StatementPreserves
<1>1. TypeOK'
  BY <1>d
<1>2. SecretsAreFresh'
  BY <1>d
<1>3. AuthorityIsShown'
  <2>1. stage \in Stage
    BY <1>c
  <2>2. call[t].kind = "submit" /\ call[t].stage = "authorized"
    OBVIOUS
  <2>3. stage # "heard"
    BY <1>c
  <2> QED
    BY <2>1, <2>2, <2>3, <1>b, <1>c, Advanced DEF AuthorityIsShown, OnlyRemoved, TypeOK
<1>4. AnswersAreCurrent'
  BY <1>d
<1> QED
  BY <1>1, <1>2, <1>3, <1>4

LEMMA QueueAnalysisPreserves ==
  ASSUME NEW t \in Tab, IInv, QueueAnalysis(t)
  PROVE  IInv'
<1> USE SessionAssumption DEF IInv, QueueAnalysis, vars, server, browser
<1>a. call[t] \in Call
  BY DEF TypeOK
<1>b. OnlyRemoved
  BY <1>a, DeletingOnlyRemoves DEF Call
<1>c. PICK stage \in Stage \ {"exchanged", "heard"} : Advance(t, stage)
  BY DEF Stage
<1>d. TypeOK' /\ SecretsAreFresh' /\ AnswersAreCurrent'
  BY <1>b, <1>c, StatementPreserves
<1>1. TypeOK'
  BY <1>d
<1>2. SecretsAreFresh'
  BY <1>d
<1>3. AuthorityIsShown'
  <2>1. stage \in Stage
    BY <1>c
  <2>2. call[t].kind = "submit" /\ call[t].stage = "verified"
    OBVIOUS
  <2>3. stage # "heard"
    BY <1>c
  <2> QED
    BY <2>1, <2>2, <2>3, <1>b, <1>c, Advanced DEF AuthorityIsShown, OnlyRemoved, TypeOK
<1>4. AnswersAreCurrent'
  BY <1>d
<1> QED
  BY <1>1, <1>2, <1>3, <1>4

LEMMA StartConnectPreserves ==
  ASSUME NEW t \in Tab, IInv, StartConnect(t)
  PROVE  IInv'
<1> USE SessionAssumption DEF IInv, StartConnect, vars, server, browser
<1>1. TypeOK'
  BY DEF TypeOK, Page, Poll, Call, Secret, FreshPage, NoPoll, Gone
<1>2. SecretsAreFresh'
  BY DEF SecretsAreFresh, TypeOK, Page, Poll, Call, Secret, FreshPage, NoPoll, Gone
<1>3. AuthorityIsShown'
  BY DEF AuthorityIsShown, TypeOK, Page, Poll, Call, Secret, FreshPage, NoPoll, Gone
<1>4. AnswersAreCurrent'
  BY DEF AnswersAreCurrent, TypeOK, Page, Poll, Call, Secret, FreshPage, NoPoll, Gone
<1> QED
  BY <1>1, <1>2, <1>3, <1>4

LEMMA ReturnFromGitHubPreserves ==
  ASSUME NEW t \in Tab, IInv, ReturnFromGitHub(t)
  PROVE  IInv'
<1> USE SessionAssumption DEF IInv, ReturnFromGitHub, vars, server, browser
<1>1. TypeOK'
  <2>1. [page[t] EXCEPT !.at = "landing"] \in Page
    BY DEF TypeOK, Page
  <2>2. [NoCall EXCEPT !.kind = "callback", !.stage = "sent", !.flow = jar.flow] \in Call
    BY FreshIsTyped DEF TypeOK, Call
  <2> QED
    BY <2>1, <2>2 DEF TypeOK
<1>2. SecretsAreFresh'
  BY DEF SecretsAreFresh, TypeOK, Page, Poll, Call, Secret, NoCall, Gone
<1>3. AuthorityIsShown'
  BY DEF AuthorityIsShown, TypeOK, Page, Poll, Call, Secret, NoCall, Gone
<1>4. AnswersAreCurrent'
  BY DEF AnswersAreCurrent, TypeOK, Page, Poll, Call, Secret, NoCall, Gone
<1> QED
  BY <1>1, <1>2, <1>3, <1>4

LEMMA ExchangeCodePreserves ==
  ASSUME NEW t \in Tab, IInv, ExchangeCode(t)
  PROVE  IInv'
<1> USE SessionAssumption DEF IInv, ExchangeCode, vars, server, browser
<1>a. call[t] \in Call /\ call[t].kind = "callback"
  BY DEF TypeOK
<1>d. UNCHANGED <<row, lapsed, late, jar, page, poll>>
  OBVIOUS
<1>e. \/ Advance(t, "refused")
      \/ \E s \in Session \ Issued :
            call' = [call EXCEPT ![t] = [@ EXCEPT !.stage = "exchanged", !.made = s]]
  OBVIOUS
<1> HIDE DEF ExchangeCode
<1>b. ASSUME Advance(t, "refused")
      PROVE  IInv'
  <2>1. "refused" \in Stage \ {"exchanged"} /\ "refused" \in Stage /\ OnlyRemoved
    BY <1>d DEF Stage, OnlyRemoved, TypeOK
  <2>2. TypeOK' /\ SecretsAreFresh' /\ AnswersAreCurrent'
    BY <1>b, <1>d, <2>1, StatementPreserves
  <2>4. /\ call'[t].stage = "refused"
        /\ \A u \in Tab \ {t} : call'[u] = call[u]
    BY <1>b, <2>1, Advanced
  <2>3. AuthorityIsShown'
    BY <1>d, <2>4 DEF AuthorityIsShown
  <2> QED
    BY <2>2, <2>3
<1>c. ASSUME NEW s \in Session \ Issued,
             call' = [call EXCEPT ![t] = [@ EXCEPT !.stage = "exchanged", !.made = s]]
      PROVE  IInv'
  <2>0. [call[t] EXCEPT !.stage = "exchanged", !.made = s] \in Call
    BY <1>a DEF Call, Secret
  <2>1. TypeOK'
    BY <1>c, <1>d, <2>0 DEF TypeOK
  <2>2. /\ call'[t].stage = "exchanged" /\ call'[t].made = s /\ call'[t].kind = "callback"
        /\ \A u \in Tab \ {t} : call'[u] = call[u]
    BY <1>a, <1>c DEF TypeOK, Call
  <2>3. row[s] = "never" /\ (\A x \in late : x.of # s) /\ \A u \in Tab : call[u].made # s
    BY DEF Issued, TypeOK
  <2>4. SecretsAreFresh'
    <3>1. ASSUME NEW u \in Tab, call'[u].stage = "exchanged"
          PROVE  /\ call'[u].kind = "callback" /\ call'[u].made \in Session
                 /\ row'[call'[u].made] = "never"
                 /\ \A x \in late' : x.of # call'[u].made
                 /\ \A v \in Tab : call'[v].made = call'[u].made => v = u
      <4>1. CASE u = t
        BY <4>1, <1>d, <2>2, <2>3
      <4>2. CASE u # t
        BY <3>1, <4>2, <1>d, <2>2, <2>3 DEF SecretsAreFresh
      <4> QED
        BY <4>1, <4>2
    <3> QED
      BY <3>1, <1>d DEF SecretsAreFresh
  <2>5. AuthorityIsShown'
    BY <1>d, <2>2 DEF AuthorityIsShown
  <2>6. AnswersAreCurrent'
    BY <1>d DEF AnswersAreCurrent, Gone
  <2> QED
    BY <2>1, <2>4, <2>5, <2>6
<1>f. IInv'
  BY <1>b, <1>c, <1>e, Zenon
<1>1. TypeOK'
  BY <1>f
<1>2. SecretsAreFresh'
  BY <1>f
<1>3. AuthorityIsShown'
  BY <1>f
<1>4. AnswersAreCurrent'
  BY <1>f
<1> QED
  BY <1>1, <1>2, <1>3, <1>4

LEMMA SaveConnectionPreserves ==
  ASSUME NEW t \in Tab, IInv, SaveConnection(t)
  PROVE  IInv'
<1> USE SessionAssumption DEF IInv, SaveConnection, vars, server, browser
<1>a. call[t] \in Call /\ call[t].stage = "exchanged" /\ call[t].kind = "callback"
  BY DEF TypeOK
<1>b. PICK stage \in {"ok", "refused"} : Advance(t, stage)
  OBVIOUS
<1>c. stage \in Stage
  BY <1>b DEF Stage
<1>d. /\ call' \in [Tab -> Call]
      /\ call'[t].stage = stage /\ call'[t].kind = "callback"
      /\ \A u \in Tab : call'[u].made = call[u].made
      /\ \A u \in Tab \ {t} : call'[u] = call[u]
  BY <1>a, <1>b, <1>c, Advanced
<1>e. /\ call[t].made \in Session /\ row[call[t].made] = "never"
      /\ \A x \in late : x.of # call[t].made
      /\ \A u \in Tab : call[u].made = call[t].made => u = t
  BY <1>a DEF SecretsAreFresh
<1>f. /\ row' \in [Session -> {"never", "present", "gone"}]
      /\ \A s \in Session \ {call[t].made} : row'[s] = row[s]
  BY DEF TypeOK, Inserted
<1>g. \/ late' = late
      \/ /\ late' = late \cup {[does |-> "save", of |-> call[t].made, by |-> Nothing]}
         /\ row' = row
  OBVIOUS
<1>h. late' \subseteq [does : {"save", "remove"}, of : Session, by : Secret]
  BY <1>e, <1>g DEF TypeOK, Secret
<1>1. TypeOK'
  BY <1>d, <1>f, <1>h DEF TypeOK
<1>2. SecretsAreFresh'
  <2>1. ASSUME NEW u \in Tab, call'[u].stage = "exchanged"
        PROVE  /\ call'[u].kind = "callback" /\ call'[u].made \in Session
               /\ row'[call'[u].made] = "never"
               /\ \A x \in late' : x.of # call'[u].made
               /\ \A v \in Tab : call'[v].made = call'[u].made => v = u
    <3>1. u # t
      BY <2>1, <1>b, <1>d
    <3>2. call'[u] = call[u] /\ call[u].made # call[t].made
      BY <3>1, <1>d, <1>e
    <3> QED
      BY <2>1, <3>2, <1>d, <1>f, <1>g DEF SecretsAreFresh
  <2>2. ASSUME NEW x \in late', x.does = "save"
        PROVE  x.by = Nothing /\ row'[x.of] = "never"
    BY <2>2, <1>e, <1>f, <1>g DEF SecretsAreFresh, TypeOK
  <2> QED
    BY <2>1, <2>2 DEF SecretsAreFresh
<1>3. AuthorityIsShown'
  <2>1. ASSUME NEW u \in Tab
        PROVE  /\ call'[u].kind \in {"sign-out", "submit"}
                  /\ call'[u].stage \in {"authorized", "verified", "ok", "heard"}
                  => call'[u].cookie \in Session /\ call'[u].csrf = call'[u].cookie
                     /\ row'[call'[u].cookie] # "never"
               /\ call'[u].stage = "heard" => call'[u].kind = "sign-out"
               /\ call'[u].kind = "sign-out" /\ call'[u].stage \in {"ok", "heard"}
                  => row'[call'[u].cookie] = "gone"
    <3>1. CASE u = t
      BY <3>1, <1>b, <1>d
    <3>2. CASE u # t
      BY <3>2, <1>d, <1>e, <1>f DEF AuthorityIsShown
    <3> QED
      BY <3>1, <3>2
  <2>2. \A x \in late' : x.does = "remove" => x.by = x.of
    BY <1>g DEF AuthorityIsShown
  <2> QED
    BY <2>1, <2>2 DEF AuthorityIsShown
<1>4. AnswersAreCurrent'
  <2>1. Gone \subseteq Gone'
    BY <1>e, <1>f DEF Gone
  <2> QED
    BY <2>1 DEF AnswersAreCurrent
<1> QED
  BY <1>1, <1>2, <1>3, <1>4

LEMMA ReceiveAnswerPreserves ==
  ASSUME NEW t \in Tab, IInv, ReceiveAnswer(t)
  PROVE  IInv'
<1> USE SessionAssumption DEF IInv, ReceiveAnswer, vars, server, browser
<1>a. call[t] \in Call /\ page[t] \in Page
  BY DEF TypeOK
<1>b. call' = [call EXCEPT ![t] = NoCall] \/ Advance(t, "heard")
  OBVIOUS
<1>c. call' \in [Tab -> Call]
  BY <1>a, <1>b, Advanced, FreshIsTyped DEF TypeOK, Stage
<1>d. page' \in [Tab -> Page]
  <2>1. [page[t] EXCEPT !.waits = "no"] \in Page
    BY <1>a DEF Page
  <2> QED
    BY <2>1, FreshIsTyped DEF TypeOK
<1>e. \A u \in Tab : page'[u] = page[u] \/ page'[u] = FreshPage
                     \/ page'[u] = [page[u] EXCEPT !.waits = "no"]
  BY DEF TypeOK
<1>f. \A u \in Tab : /\ page'[u].over \subseteq page[u].over
                     /\ page'[u].failed = "no" => page'[u].shown \notin page'[u].over
                     /\ page'[u].over = page[u].over \/ page'[u].over = {}
  <2>1. ASSUME NEW u \in Tab
        PROVE  /\ page'[u].over \subseteq page[u].over
               /\ page'[u].failed = "no" => page'[u].shown \notin page'[u].over
               /\ page'[u].over = page[u].over \/ page'[u].over = {}
    <3>1. page[u] \in Page
      BY DEF TypeOK
    <3>2. CASE page'[u] = FreshPage
      BY <3>2 DEF FreshPage
    <3>3. CASE page'[u] = page[u] \/ page'[u] = [page[u] EXCEPT !.waits = "no"]
      <4>1. /\ page'[u].over = page[u].over /\ page'[u].failed = page[u].failed
            /\ page'[u].shown = page[u].shown
        BY <3>1, <3>3 DEF Page
      <4> QED
        BY <4>1 DEF AnswersAreCurrent
    <3> QED
      BY <1>e, <3>2, <3>3
  <2> QED
    BY <2>1
<1>g. jar' \in [session : Secret, flow : Tab \cup {Nothing}]
  BY <1>a DEF TypeOK, CookiesAfter, Call, Secret
<1>1. TypeOK'
  BY <1>c, <1>d, <1>g DEF TypeOK
<1>2. SecretsAreFresh'
  BY <1>a, <1>b DEF SecretsAreFresh, Advance, NoCall, TypeOK, Call
<1>3. AuthorityIsShown'
  BY <1>a, <1>b DEF AuthorityIsShown, Advance, NoCall, TypeOK, Call
<1>4. AnswersAreCurrent'
  BY <1>f DEF AnswersAreCurrent, Gone
<1> QED
  BY <1>1, <1>2, <1>3, <1>4

LEMMA LoseAnswerPreserves ==
  ASSUME NEW t \in Tab, IInv, LoseAnswer(t)
  PROVE  IInv'
<1> USE SessionAssumption DEF IInv, LoseAnswer, vars, server, browser
<1>a. call[t] \in Call /\ page[t] \in Page
  BY DEF TypeOK
<1>b. call' = [call EXCEPT ![t] = NoCall]
  OBVIOUS
<1>c. call' \in [Tab -> Call]
  BY <1>a, <1>b, FreshIsTyped DEF TypeOK
<1>d. page' \in [Tab -> Page]
  <2>1. [page[t] EXCEPT !.waits = "no"] \in Page
    BY <1>a DEF Page
  <2> QED
    BY <2>1, FreshIsTyped DEF TypeOK
<1>e. \A u \in Tab : page'[u] = page[u] \/ page'[u] = FreshPage
                     \/ page'[u] = [page[u] EXCEPT !.waits = "no"]
  BY DEF TypeOK
<1>f. \A u \in Tab : /\ page'[u].over \subseteq page[u].over
                     /\ page'[u].failed = "no" => page'[u].shown \notin page'[u].over
                     /\ page'[u].over = page[u].over \/ page'[u].over = {}
  <2>1. ASSUME NEW u \in Tab
        PROVE  /\ page'[u].over \subseteq page[u].over
               /\ page'[u].failed = "no" => page'[u].shown \notin page'[u].over
               /\ page'[u].over = page[u].over \/ page'[u].over = {}
    <3>1. page[u] \in Page
      BY DEF TypeOK
    <3>2. CASE page'[u] = FreshPage
      BY <3>2 DEF FreshPage
    <3>3. CASE page'[u] = page[u] \/ page'[u] = [page[u] EXCEPT !.waits = "no"]
      <4>1. /\ page'[u].over = page[u].over /\ page'[u].failed = page[u].failed
            /\ page'[u].shown = page[u].shown
        BY <3>1, <3>3 DEF Page
      <4> QED
        BY <4>1 DEF AnswersAreCurrent
    <3> QED
      BY <1>e, <3>2, <3>3
  <2> QED
    BY <2>1
<1>g. jar' \in [session : Secret, flow : Tab \cup {Nothing}]
  BY <1>a DEF TypeOK, Call, Secret
<1>1. TypeOK'
  BY <1>c, <1>d, <1>g DEF TypeOK
<1>2. SecretsAreFresh'
  BY <1>a, <1>b DEF SecretsAreFresh, NoCall, TypeOK, Call
<1>3. AuthorityIsShown'
  BY <1>a, <1>b DEF AuthorityIsShown, NoCall, TypeOK, Call
<1>4. AnswersAreCurrent'
  BY <1>f DEF AnswersAreCurrent, Gone
<1> QED
  BY <1>1, <1>2, <1>3, <1>4

LEMMA FinishSignOutPreserves ==
  ASSUME NEW t \in Tab, IInv, FinishSignOut(t)
  PROVE  IInv'
<1> USE SessionAssumption DEF IInv, FinishSignOut, vars, server, browser
<1>1. TypeOK'
  <2>1. page[t] \in Page /\ call[t].csrf \in Session
    BY DEF TypeOK, AuthorityIsShown, Call
  <2>2. [page[t] EXCEPT !.shown = Nothing, !.failed = "no", !.waits = "no",
                        !.over = page[t].over \cup {call[t].csrf}] \in Page
    BY <2>1 DEF Page, Secret
  <2> QED
    BY <2>2, FreshIsTyped DEF TypeOK
<1>2. SecretsAreFresh'
  BY DEF SecretsAreFresh, TypeOK, Page, Poll, Call, Secret, NoCall, NoPoll, Gone
<1>3. AuthorityIsShown'
  BY DEF AuthorityIsShown, TypeOK, Page, Poll, Call, Secret, NoCall, NoPoll, Gone
<1>4. AnswersAreCurrent'
  <2>1. call[t].csrf \in Gone /\ page[t] \in Page
    BY DEF TypeOK, AuthorityIsShown, Call, Gone
  <2> QED
    <3>1. /\ page'[t].over = page[t].over \cup {call[t].csrf}
          /\ page'[t].shown = Nothing /\ poll'[t] = NoPoll
          /\ \A u \in Tab \ {t} : poll'[u] = poll[u] /\ page'[u] = page[u]
      BY <2>1 DEF TypeOK, Page
    <3>2. Nothing \notin page[t].over \cup {call[t].csrf}
      BY <2>1 DEF Page, Gone
    <3> QED
      BY <2>1, <3>1, <3>2 DEF AnswersAreCurrent, NoPoll, Gone
<1> QED
  BY <1>1, <1>2, <1>3, <1>4

LEMMA ReloadPreserves ==
  ASSUME NEW t \in Tab, IInv, Reload(t)
  PROVE  IInv'
<1> USE SessionAssumption DEF IInv, Reload, vars, server, browser
<1>1. TypeOK'
  BY DEF TypeOK, Page, Poll, Call, Secret, FreshPage, NoPoll, NoCall, Gone
<1>2. SecretsAreFresh'
  BY DEF SecretsAreFresh, TypeOK, Page, Poll, Call, Secret, FreshPage, NoPoll, NoCall, Gone
<1>3. AuthorityIsShown'
  BY DEF AuthorityIsShown, TypeOK, Page, Poll, Call, Secret, FreshPage, NoPoll, NoCall, Gone
<1>4. AnswersAreCurrent'
  BY DEF AnswersAreCurrent, TypeOK, Page, Poll, Call, Secret, FreshPage, NoPoll, NoCall, Gone
<1> QED
  BY <1>1, <1>2, <1>3, <1>4

LEMMA LapsePreserves ==
  ASSUME NEW s \in Session, IInv, Lapse(s)
  PROVE  IInv'
<1> USE SessionAssumption DEF IInv, Lapse, vars, server, browser
<1>1. TypeOK'
  BY DEF TypeOK, Page, Poll, Call, Secret, Issued, Gone
<1>2. SecretsAreFresh'
  BY DEF SecretsAreFresh, TypeOK, Page, Poll, Call, Secret, Issued, Gone
<1>3. AuthorityIsShown'
  BY DEF AuthorityIsShown, TypeOK, Page, Poll, Call, Secret, Issued, Gone
<1>4. AnswersAreCurrent'
  BY DEF AnswersAreCurrent, TypeOK, Page, Poll, Call, Secret, Issued, Gone
<1> QED
  BY <1>1, <1>2, <1>3, <1>4

LEMMA DropCookiePreserves ==
  ASSUME IInv, DropCookie
  PROVE  IInv'
<1> USE SessionAssumption DEF IInv, DropCookie, vars, server, browser
<1>1. TypeOK'
  BY DEF TypeOK, Page, Poll, Call, Secret, Gone
<1>2. SecretsAreFresh'
  BY DEF SecretsAreFresh, TypeOK, Page, Poll, Call, Secret, Gone
<1>3. AuthorityIsShown'
  BY DEF AuthorityIsShown, TypeOK, Page, Poll, Call, Secret, Gone
<1>4. AnswersAreCurrent'
  BY DEF AnswersAreCurrent, TypeOK, Page, Poll, Call, Secret, Gone
<1> QED
  BY <1>1, <1>2, <1>3, <1>4

LEMMA LateLandsPreserves ==
  ASSUME NEW x \in late, IInv, LateLands(x)
  PROVE  IInv'
<1> USE SessionAssumption DEF IInv, LateLands, vars, server, browser
<1>a. /\ x.of \in Session
      /\ row' \in [Session -> {"never", "present", "gone"}]
      /\ \A s \in Session \ {x.of} : row'[s] = row[s]
  BY DEF TypeOK, Inserted, Deleted
<1>b. /\ row[x.of] = "gone" => row'[x.of] = "gone"
      /\ row[x.of] # "never" => row'[x.of] # "never"
      /\ row[x.of] = "never" => row'[x.of] = "never" \/ x.does = "save"
  BY <1>a DEF TypeOK, SecretsAreFresh, Inserted, Deleted
<1>1. TypeOK'
  BY <1>a DEF TypeOK
<1>2. SecretsAreFresh'
  <2>1. \A y \in late : y.does = "save" /\ y.of = x.of /\ x.does = "save" => y = x
    BY DEF SecretsAreFresh, TypeOK
  <2>2. ASSUME NEW u \in Tab, call[u].stage = "exchanged"
        PROVE  row'[call[u].made] = "never"
    BY <2>2, <1>a DEF SecretsAreFresh
  <2>3. ASSUME NEW y \in late', y.does = "save"
        PROVE  y.by = Nothing /\ row'[y.of] = "never"
    BY <2>1, <2>3, <1>a, <1>b DEF SecretsAreFresh, TypeOK
  <2> QED
    BY <2>2, <2>3 DEF SecretsAreFresh
<1>3. AuthorityIsShown'
  BY <1>a, <1>b DEF AuthorityIsShown
<1>4. AnswersAreCurrent'
  <2>1. Gone \subseteq Gone'
    BY <1>a, <1>b DEF Gone
  <2> QED
    BY <2>1 DEF AnswersAreCurrent
<1> QED
  BY <1>1, <1>2, <1>3, <1>4

LEMMA PurgeExpiredPreserves ==
  ASSUME IInv, PurgeExpired
  PROVE  IInv'
<1> USE SessionAssumption DEF IInv, PurgeExpired, vars, server, browser
<1>1. TypeOK'
  BY DEF TypeOK, Page, Poll, Call, Secret, Purgeable, Gone
<1>2. SecretsAreFresh'
  BY DEF SecretsAreFresh, TypeOK, Page, Poll, Call, Secret, Purgeable, Gone
<1>3. AuthorityIsShown'
  BY DEF AuthorityIsShown, TypeOK, Page, Poll, Call, Secret, Purgeable, Gone
<1>4. AnswersAreCurrent'
  BY DEF AnswersAreCurrent, TypeOK, Page, Poll, Call, Secret, Purgeable, Gone
<1> QED
  BY <1>1, <1>2, <1>3, <1>4

LEMMA InitEstablishes == Init => IInv
  BY FreshIsTyped DEF Init, IInv, TypeOK, SecretsAreFresh, AuthorityIsShown, AnswersAreCurrent,
                      FreshPage, NoPoll, NoCall, Gone, Secret

LEMMA NextPreserves ==
  ASSUME IInv, [Next]_vars
  PROVE  IInv'
<1>1. ASSUME NEW t \in Tab, AskSession(t)
      PROVE  IInv'
  BY <1>1, AskSessionPreserves
<1>2. ASSUME NEW t \in Tab, ServeSession(t)
      PROVE  IInv'
  BY <1>2, ServeSessionPreserves
<1>3. ASSUME NEW t \in Tab, ReceiveSession(t)
      PROVE  IInv'
  BY <1>3, ReceiveSessionPreserves
<1>4. ASSUME NEW t \in Tab, ExpireSession(t)
      PROVE  IInv'
  BY <1>4, ExpireSessionPreserves
<1>5. ASSUME NEW t \in Tab, PressSignOut(t)
      PROVE  IInv'
  BY <1>5, PressSignOutPreserves
<1>6. ASSUME NEW t \in Tab, PressSubmit(t)
      PROVE  IInv'
  BY <1>6, PressSubmitPreserves
<1>7. ASSUME NEW t \in Tab, Authorize(t)
      PROVE  IInv'
  BY <1>7, AuthorizePreserves
<1>8. ASSUME NEW t \in Tab, DeleteConnection(t)
      PROVE  IInv'
  BY <1>8, DeleteConnectionPreserves
<1>9. ASSUME NEW t \in Tab, VerifyRepository(t)
      PROVE  IInv'
  BY <1>9, VerifyRepositoryPreserves
<1>10. ASSUME NEW t \in Tab, QueueAnalysis(t)
      PROVE  IInv'
  BY <1>10, QueueAnalysisPreserves
<1>11. ASSUME NEW t \in Tab, StartConnect(t)
      PROVE  IInv'
  BY <1>11, StartConnectPreserves
<1>12. ASSUME NEW t \in Tab, ReturnFromGitHub(t)
      PROVE  IInv'
  BY <1>12, ReturnFromGitHubPreserves
<1>13. ASSUME NEW t \in Tab, ExchangeCode(t)
      PROVE  IInv'
  BY <1>13, ExchangeCodePreserves
<1>14. ASSUME NEW t \in Tab, SaveConnection(t)
      PROVE  IInv'
  BY <1>14, SaveConnectionPreserves
<1>15. ASSUME NEW t \in Tab, ReceiveAnswer(t)
      PROVE  IInv'
  BY <1>15, ReceiveAnswerPreserves
<1>16. ASSUME NEW t \in Tab, LoseAnswer(t)
      PROVE  IInv'
  BY <1>16, LoseAnswerPreserves
<1>17. ASSUME NEW t \in Tab, FinishSignOut(t)
      PROVE  IInv'
  BY <1>17, FinishSignOutPreserves
<1>18. ASSUME NEW t \in Tab, Reload(t)
      PROVE  IInv'
  BY <1>18, ReloadPreserves
<1>19. ASSUME NEW s \in Session, Lapse(s)
      PROVE  IInv'
  BY <1>19, LapsePreserves
<1>20. ASSUME NEW x \in late, LateLands(x)
      PROVE  IInv'
  BY <1>20, LateLandsPreserves
<1>21. CASE DropCookie
  BY <1>21, DropCookiePreserves
<1>22. CASE PurgeExpired
  BY <1>22, PurgeExpiredPreserves
<1>23. CASE UNCHANGED vars
  BY <1>23 DEF vars, IInv, TypeOK, SecretsAreFresh, AuthorityIsShown, AnswersAreCurrent, Gone
<1> QED
  BY <1>1, <1>2, <1>3, <1>4, <1>5, <1>6, <1>7, <1>8, <1>9, <1>10, <1>11, <1>12, <1>13, <1>14, <1>15, <1>16, <1>17, <1>18, <1>19, <1>20, <1>21, <1>22, <1>23 DEF Next

\* The connection table, the requests under way and the pages stay as IInv says.
THEOREM Invariant == Spec => []IInv
  BY InitEstablishes, NextPreserves, PTL DEF Spec

\* A page that has learned that a session is over does not show it again, whatever answers
\* are still on their way, for any number of tabs and sessions.
THEOREM EndedSessionsStayHidden == Spec => []EndedStaysHidden
<1>1. IInv => EndedStaysHidden
  BY SessionAssumption DEF IInv, TypeOK, Page, AnswersAreCurrent, EndedStaysHidden, Rendered
<1> QED
  BY <1>1, Invariant, PTL

\* Nothing but the two INSERTs writes a row that is not there, and those write fresh ones.
LEMMA GoneForGood ==
  ASSUME IInv, [Next]_vars, NEW s \in Session, row[s] = "gone"
  PROVE  row'[s] = "gone"
<1> USE DEF IInv, TypeOK
<1>1. CASE UNCHANGED row
  BY <1>1
<1>2. ASSUME NEW t \in Tab, ServeSession(t) \/ Authorize(t) \/ DeleteConnection(t) \/ VerifyRepository(t)
      PROVE  row'[s] = "gone"
  BY <1>2 DEF ServeSession, Authorize, DeleteConnection, VerifyRepository, Swept, Deleted
<1>3. ASSUME NEW t \in Tab, SaveConnection(t)
      PROVE  row'[s] = "gone"
  BY <1>3 DEF SaveConnection, Inserted, SecretsAreFresh
<1>4. ASSUME NEW x \in late, LateLands(x)
      PROVE  row'[s] = "gone"
  BY <1>4 DEF LateLands, Inserted, Deleted, SecretsAreFresh
<1>5. CASE PurgeExpired
  BY <1>5 DEF PurgeExpired
<1> QED
  BY <1>1, <1>2, <1>3, <1>4, <1>5
     DEF Next, vars, server, browser, AskSession, ReceiveSession, ExpireSession, PressSignOut,
         PressSubmit, QueueAnalysis, StartConnect, ReturnFromGitHub, ExchangeCode, ReceiveAnswer,
         LoseAnswer, FinishSignOut, Reload, Lapse, DropCookie

\* signedOut means deleted, and deleted means for good.
THEOREM SignOutDeletes == Spec => SignedOutIsDeleted
<1>1. ASSUME IInv, IInv', [Next]_vars
      PROVE  /\ \A s \in Session : row[s] = "gone" => row'[s] = "gone"
             /\ \A t \in Tab : call'[t].kind = "sign-out" /\ call'[t].stage = "ok"
                                => row'[call'[t].cookie] = "gone"
  BY <1>1, GoneForGood DEF IInv, AuthorityIsShown
<1> QED
  BY <1>1, Invariant, PTL DEF Spec, SignedOutIsDeleted

\* A live row is removed only for a page that showed its session, and a connected analysis
\* is accepted only for the session its page showed.
THEOREM RequestsActOnWhatWasShown == Spec => ActsOnWhatWasShown
<1>1. ASSUME IInv, [Next]_vars, NEW s \in Session \ lapsed, row[s] = "present", row'[s] = "gone"
      PROVE  AskedToEnd(s)
  <2> USE DEF IInv, TypeOK
  <2>1. ~ UNCHANGED row
    BY <1>1
  <2>2. ASSUME NEW t \in Tab, ServeSession(t) \/ Authorize(t) \/ VerifyRepository(t)
        PROVE  FALSE
    BY <1>1, <2>2 DEF ServeSession, Authorize, VerifyRepository, Swept, Deleted
  <2>3. ASSUME NEW t \in Tab, DeleteConnection(t)
        PROVE  AskedToEnd(s)
    <3>1. call[t].cookie = s
      BY <1>1, <2>3 DEF DeleteConnection, Deleted
    <3> QED
      BY <1>1, <2>3, <3>1 DEF DeleteConnection, AuthorityIsShown, AskedToEnd
  <2>4. ASSUME NEW t \in Tab, SaveConnection(t)
        PROVE  FALSE
    BY <1>1, <2>4 DEF SaveConnection, Inserted, SecretsAreFresh
  <2>5. ASSUME NEW x \in late, LateLands(x)
        PROVE  AskedToEnd(s)
    <3>1. x.does = "remove" /\ x.of = s
      BY <1>1, <2>5 DEF LateLands, Inserted, Deleted
    <3> QED
      BY <1>1, <3>1 DEF AuthorityIsShown, AskedToEnd
  <2>6. CASE PurgeExpired
    BY <1>1, <2>6 DEF PurgeExpired, Purgeable
  <2> QED
    BY <1>1, <2>1, <2>2, <2>3, <2>4, <2>5, <2>6
       DEF Next, vars, server, browser, AskSession, ReceiveSession, ExpireSession, PressSignOut,
           PressSubmit, QueueAnalysis, StartConnect, ReturnFromGitHub, ExchangeCode, ReceiveAnswer,
           LoseAnswer, FinishSignOut, Reload, Lapse, DropCookie
<1>2. ASSUME IInv, IInv', [Next]_vars
      PROVE  /\ \A t \in Tab : call'[t].kind = "submit" /\ call'[t].stage = "ok"
                                => call'[t].csrf = call'[t].cookie
             /\ \A s \in Session \ lapsed : row[s] = "present" /\ row'[s] = "gone"
                                             => AskedToEnd(s)
  BY <1>1, <1>2 DEF IInv, AuthorityIsShown
<1> QED
  BY <1>2, Invariant, PTL DEF Spec, ActsOnWhatWasShown
=============================================================================
