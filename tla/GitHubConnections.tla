------------------------- MODULE GitHubConnections -------------------------
(***************************************************************************)
(* The life of a GitHub connection between the tabs of one browser, their  *)
(* cookies, the API and the connection table.  Requests and responses of   *)
(* different tabs overlap, any response can be lost, and a statement whose *)
(* deadline passed may still take effect later.                            *)
(*                                                                         *)
(* A session stands for everything derived from its random cookie: the     *)
(* session hash (the connection id), the CSRF token and the sealed token,  *)
(* all bound to one GitHub identity when the row is written.               *)
(***************************************************************************)
EXTENDS FiniteSets

CONSTANTS
    Session,        \* the secrets randomSecret() may return
    Tab,            \* the browser's tabs
    Does,           \* what happens in each tab: its pages watch the session, its user acts
    Nothing         \* no cookie, no session, no state cookie

ASSUME SessionAssumption == Nothing \notin Session /\ Nothing \notin Tab
ASSUME DoesAssumption ==
    Does \in [Tab -> SUBSET {"watch", "connect", "sign-out", "submit", "reload"}]

VARIABLES
    row,            \* the row of each session: never written, present, gone
    lapsed,         \* the sessions whose expiresAt has passed
    late,           \* statements given up by the API that may still take effect
    jar,            \* the browser's cookies: the session and the OAuth state
    page,           \* what each tab has open, and its cached session query
    poll,           \* the session query a tab is fetching
    call            \* the state-changing request a tab has sent

vars == <<row, lapsed, late, jar, page, poll, call>>
server == <<row, lapsed, late>>
browser == <<jar, page, poll>>

Secret == Session \cup {Nothing}

\* A page's "at" is the app, GitHub's own pages or the landing page; "shown" is the user of
\* the cached session, "failed" the query's isError, "waits" a sign-out the page waits for,
\* "over" the sessions this page has learned are over (for the properties only).
Page == [at : {"app", "github", "landing"}, shown : Secret, failed : {"no", "yes"},
         waits : {"no", "yes"}, over : SUBSET Session]
FreshPage == [at |-> "app", shown |-> Nothing, failed |-> "no", waits |-> "no", over |-> {}]

\* "ended" holds the sessions already gone when the query was sent.
Poll == [stage : {"none", "sent", "served", "failed"}, cookie : Secret, answer : Secret,
         ended : SUBSET Session]
NoPoll == [stage |-> "none", cookie |-> Nothing, answer |-> Nothing, ended |-> {}]

\* "csrf" is the header of a sign-out or submission, "flow" the state cookie of a callback,
\* "made" the session a callback creates.
Call == [kind : {"none", "sign-out", "submit", "callback"},
         stage : {"none", "sent", "authorized", "verified", "exchanged", "ok", "refused", "heard"},
         cookie : Secret, csrf : Secret, flow : Tab \cup {Nothing}, made : Secret]
NoCall == [kind |-> "none", stage |-> "none", cookie |-> Nothing, csrf |-> Nothing,
           flow |-> Nothing, made |-> Nothing]

TypeOK ==
    /\ row \in [Session -> {"never", "present", "gone"}]
    /\ lapsed \subseteq Session
    /\ late \subseteq [does : {"save", "remove"}, of : Session, by : Secret]
    /\ jar \in [session : Secret, flow : Tab \cup {Nothing}]
    /\ page \in [Tab -> Page]
    /\ poll \in [Tab -> Poll]
    /\ call \in [Tab -> Call]

Init ==
    /\ row = [s \in Session |-> "never"]
    /\ lapsed = {}
    /\ late = {}
    /\ jar = [session |-> Nothing, flow |-> Nothing]
    /\ page = [t \in Tab |-> FreshPage]
    /\ poll = [t \in Tab |-> NoPoll]
    /\ call = [t \in Tab |-> NoCall]

(***************************************************************************)
(* The connection table.                                                   *)
(***************************************************************************)
\* #record returns the row of a live session, and removes one that has expired.
Live(c) == c \in Session /\ row[c] = "present" /\ c \notin lapsed
Deleted(c) == [s \in Session |-> IF s = c /\ row[s] = "present" THEN "gone" ELSE row[s]]
Swept(c) == IF c \in lapsed THEN Deleted(c) ELSE row
Inserted(s) == [row EXCEPT ![s] = "present"]
Gone == {s \in Session : row[s] = "gone"}

\* Secrets already handed out by randomSecret(); two of them are never equal.
Issued ==
    {s \in Session : row[s] # "never"} \cup {x.of : x \in late}
    \cup {call[t].made : t \in Tab}

Advance(t, stage) == call' = [call EXCEPT ![t] = [@ EXCEPT !.stage = stage]]

(***************************************************************************)
(* The session query of a tab.                                             *)
(***************************************************************************)
\* useGitHubSession hides a failed query and an expired user.
Rendered(t) ==
    IF page[t].failed = "yes" \/ page[t].shown \in lapsed THEN Nothing ELSE page[t].shown

\* On mount, on focus and every 60 s the session is fetched again.
AskSession(t) ==
    /\ "watch" \in Does[t]
    /\ page[t].at = "app"
    /\ poll[t].stage = "none"
    /\ poll' = [poll EXCEPT ![t] = [stage |-> "sent", cookie |-> jar.session,
                                    answer |-> Nothing, ended |-> Gone]]
    /\ UNCHANGED <<server, jar, page, call>>

\* GET /v1/auth/session: 200 with the user of a live session or without one; 503 when the
\* connection table cannot be read.
ServeSession(t) ==
    /\ poll[t].stage = "sent"
    /\ \/ /\ poll' = [poll EXCEPT ![t] = [@ EXCEPT !.stage = "served",
                        !.answer = IF Live(poll[t].cookie) THEN poll[t].cookie ELSE Nothing]]
          /\ row' = Swept(poll[t].cookie)
       \/ /\ poll' = [poll EXCEPT ![t].stage = "failed"]
          /\ UNCHANGED row
    /\ UNCHANGED <<lapsed, late, jar, page, call>>

\* usableSession drops a user that expired on the way; an error keeps the cached data.
ReceiveSession(t) ==
    /\ poll[t].stage \in {"served", "failed"}
    /\ poll' = [poll EXCEPT ![t] = NoPoll]
    /\ page' = [page EXCEPT ![t] = [@ EXCEPT
         !.failed = IF poll[t].stage = "failed" THEN "yes" ELSE "no",
         !.shown = IF poll[t].stage = "failed" THEN page[t].shown
                   ELSE IF poll[t].answer \in lapsed THEN Nothing ELSE poll[t].answer,
         !.over = page[t].over \cup poll[t].ended]]
    /\ UNCHANGED <<server, jar, call>>

\* The timer of the expiry effect: setQueryData without a user also clears an error.
ExpireSession(t) ==
    /\ page[t].at = "app"
    /\ page[t].shown \in lapsed
    /\ page' = [page EXCEPT ![t] = [@ EXCEPT !.shown = Nothing, !.failed = "no"]]
    /\ UNCHANGED <<server, jar, poll, call>>

(***************************************************************************)
(* Requests of a connected page.                                           *)
(***************************************************************************)
Send(t, kind) ==
    /\ kind \in Does[t]
    /\ page[t].at = "app"
    /\ call[t].kind = "none"
    /\ Rendered(t) # Nothing
    /\ call' = [call EXCEPT ![t] = [NoCall EXCEPT !.kind = kind, !.stage = "sent",
                                    !.cookie = jar.session, !.csrf = Rendered(t)]]

PressSignOut(t) ==
    /\ Send(t, "sign-out")
    /\ page' = [page EXCEPT ![t].waits = "yes"]
    /\ UNCHANGED <<server, jar, poll>>

PressSubmit(t) ==
    /\ Send(t, "submit")
    /\ UNCHANGED <<server, browser>>

Authorized_AnyCsrf(t) ==                \* mutant: the token is not compared
    Live(call[t].cookie)

\* authorize: the cookie's live session, and the CSRF token that belongs to it.
Authorized(t) == Live(call[t].cookie) /\ call[t].csrf = call[t].cookie
Authorize(t) ==
    /\ call[t].kind \in {"sign-out", "submit"}
    /\ call[t].stage = "sent"
    /\ \/ Advance(t, IF Authorized(t) THEN "authorized" ELSE "refused") /\ row' = Swept(call[t].cookie)
       \/ Advance(t, "refused") /\ UNCHANGED row
    /\ UNCHANGED <<lapsed, late, browser>>

DeleteConnection_AnswersAnyway(t) ==    \* mutant: a failed DELETE is swallowed
    /\ call[t].kind = "sign-out"
    /\ call[t].stage = "authorized"
    /\ Advance(t, "ok")
    /\ \/ row' = Deleted(call[t].cookie) /\ UNCHANGED late
       \/ UNCHANGED <<row, late>>
    /\ UNCHANGED <<lapsed, browser>>

\* signOut: the DELETE is done, fails, or is given up and may still take effect.
DeleteConnection(t) ==
    /\ call[t].kind = "sign-out"
    /\ call[t].stage = "authorized"
    /\ \/ /\ row' = Deleted(call[t].cookie)
          /\ Advance(t, "ok")
          /\ UNCHANGED late
       \/ Advance(t, "refused") /\ UNCHANGED <<row, late>>
       \/ /\ late' = late \cup {[does |-> "remove", of |-> call[t].cookie, by |-> call[t].csrf]}
          /\ Advance(t, "refused")
          /\ UNCHANGED <<row>>
    /\ UNCHANGED <<lapsed, browser>>
\* verifyRepository reads the connection once more for its token; GitHub may also refuse.
VerifyRepository(t) ==
    /\ call[t].kind = "submit"
    /\ call[t].stage = "authorized"
    /\ \/ /\ Advance(t, IF Live(call[t].cookie) THEN "verified" ELSE "refused")
          /\ row' = Swept(call[t].cookie)
       \/ Advance(t, "refused") /\ UNCHANGED row
    /\ UNCHANGED <<lapsed, late, browser>>

\* The analysis is written for the request's session, whether or not its row is still there.
QueueAnalysis(t) ==
    /\ call[t].kind = "submit"
    /\ call[t].stage = "verified"
    /\ Advance(t, "ok") \/ Advance(t, "refused")
    /\ UNCHANGED <<server, browser>>

(***************************************************************************)
(* Connecting.                                                             *)
(***************************************************************************)
\* GET /v1/auth/github/start, from the link or by its address, sets the state cookie and
\* leaves for GitHub; the page unloads.
StartConnect(t) ==
    /\ "connect" \in Does[t]
    /\ page[t].at = "app"
    /\ page[t].failed = "no"
    /\ Rendered(t) = Nothing
    /\ call[t].kind = "none"
    /\ jar' = [jar EXCEPT !.flow = t]
    /\ page' = [page EXCEPT ![t] = [FreshPage EXCEPT !.at = "github"]]
    /\ poll' = [poll EXCEPT ![t] = NoPoll]
    /\ UNCHANGED <<server, call>>

\* The relay returns to the landing page, which posts the code and state it was given.
ReturnFromGitHub(t) ==
    /\ page[t].at = "github"
    /\ page' = [page EXCEPT ![t].at = "landing"]
    /\ call' = [call EXCEPT ![t] = [NoCall EXCEPT !.kind = "callback", !.stage = "sent",
                                    !.flow = jar.flow]]
    /\ UNCHANGED <<server, jar, poll>>

\* finish: the state cookie has to be the one of this flow; then the code is exchanged, the
\* identity read and the secret drawn.  The state may have expired, and GitHub may refuse.
ExchangeCode(t) ==
    /\ call[t].kind = "callback"
    /\ call[t].stage = "sent"
    /\ \/ /\ call[t].flow = t
          /\ \E s \in Session \ Issued :
                call' = [call EXCEPT ![t] = [@ EXCEPT !.stage = "exchanged", !.made = s]]
       \/ Advance(t, "refused")
    /\ UNCHANGED <<server, browser>>

\* store.save: the INSERT is done, fails, or is given up and may still take effect.
SaveConnection(t) ==
    /\ call[t].kind = "callback"
    /\ call[t].stage = "exchanged"
    /\ \/ call[t].made \notin lapsed /\ row' = Inserted(call[t].made) /\ Advance(t, "ok") /\ UNCHANGED late
       \/ Advance(t, "refused") /\ UNCHANGED <<row, late>>
       \/ /\ call[t].made \notin lapsed
          /\ late' = late \cup {[does |-> "save", of |-> call[t].made, by |-> Nothing]}
          /\ Advance(t, "refused")
          /\ UNCHANGED row
    /\ UNCHANGED <<lapsed, browser>>

(***************************************************************************)
(* Answers reach the browser, or are lost.                                 *)
(***************************************************************************)
\* Set-Cookie acts on the jar as it is when the answer arrives.
CookiesAfter(t) ==
    CASE call[t].kind = "sign-out" /\ call[t].stage = "ok" -> [jar EXCEPT !.session = Nothing]
      [] call[t].kind = "callback" ->
            [session |-> IF call[t].stage = "ok" THEN call[t].made ELSE jar.session,
             flow |-> Nothing]
      [] OTHER -> jar

\* A page that was left has cancelled its requests: the browser drops their answers.
StillWaited(t) ==
    CASE call[t].kind = "sign-out" -> page[t].waits = "yes"
      [] call[t].kind = "callback" -> page[t].at = "landing"
      [] OTHER -> TRUE

ReceiveAnswer(t) ==
    /\ call[t].stage \in {"ok", "refused"}
    /\ StillWaited(t)
    /\ jar' = CookiesAfter(t)
    /\ IF call[t].kind = "sign-out" /\ call[t].stage = "ok"
       THEN Advance(t, "heard") /\ UNCHANGED page
       ELSE /\ call' = [call EXCEPT ![t] = NoCall]
            /\ page' = [page EXCEPT ![t] = IF @.at = "landing" THEN FreshPage
                                           ELSE [@ EXCEPT !.waits = "no"]]
    /\ UNCHANGED <<server, poll>>

LoseAnswer(t) ==
    /\ call[t].stage \in {"ok", "refused"}
    /\ call' = [call EXCEPT ![t] = NoCall]
    /\ page' = [page EXCEPT ![t] = IF @.at = "landing" THEN FreshPage
                                   ELSE [@ EXCEPT !.waits = "no"]]
    /\ UNCHANGED <<server, jar, poll>>

FinishSignOut_KeepQuery(t) ==           \* mutant: no cancelQueries
    /\ call[t].stage = "heard"
    /\ call' = [call EXCEPT ![t] = NoCall]
    /\ page' = [page EXCEPT ![t] = [@ EXCEPT !.shown = Nothing, !.failed = "no",
                                    !.waits = "no", !.over = page[t].over \cup {call[t].csrf}]]
    /\ UNCHANGED <<server, poll, jar>>

\* signOut of the control goes on: cancel the session query, forget the user.
FinishSignOut(t) ==
    /\ call[t].stage = "heard"
    /\ call' = [call EXCEPT ![t] = NoCall]
    /\ poll' = [poll EXCEPT ![t] = NoPoll]
    /\ page' = [page EXCEPT ![t] = [@ EXCEPT !.shown = Nothing, !.failed = "no",
                                    !.waits = "no", !.over = page[t].over \cup {call[t].csrf}]]
    /\ UNCHANGED <<server, jar>>

\* The user opens or reloads the app in a tab; the API goes on with what was sent.
Reload(t) ==
    /\ "reload" \in Does[t]
    /\ page' = [page EXCEPT ![t] = FreshPage]
    /\ poll' = [poll EXCEPT ![t] = NoPoll]
    /\ call' = [call EXCEPT ![t] = IF @.stage = "heard" THEN NoCall ELSE @]
    /\ UNCHANGED <<server, jar>>

(***************************************************************************)
(* Time, the table and the retention sweep.                                *)
(***************************************************************************)
Lapse(s) ==
    /\ s \in Issued \ lapsed
    /\ lapsed' = lapsed \cup {s}
    /\ UNCHANGED <<row, late, browser, call>>

\* Max-Age of the session cookie.
DropCookie ==
    /\ jar.session \in lapsed
    /\ jar' = [jar EXCEPT !.session = Nothing]
    /\ UNCHANGED <<server, page, poll, call>>

\* A given-up statement takes effect or is rolled back, at the latest at its timeout.
LateLands(x) ==
    /\ x \in late
    /\ late' = late \ {x}
    /\ \/ row' = IF x.does = "save" THEN Inserted(x.of) ELSE Deleted(x.of)
       \/ UNCHANGED row
    /\ UNCHANGED <<lapsed, browser, call>>

\* purgeExpired removes some of the expired rows (LIMIT, SKIP LOCKED).
Purgeable == {s \in lapsed : row[s] = "present"}
PurgeExpired ==
    \E S \in (SUBSET Purgeable) \ {{}} :
        /\ row' = [s \in Session |-> IF s \in S THEN "gone" ELSE row[s]]
        /\ UNCHANGED <<lapsed, late, browser, call>>

Next ==
    \/ \E t \in Tab :
         \/ AskSession(t) \/ ServeSession(t) \/ ReceiveSession(t) \/ ExpireSession(t)
         \/ PressSignOut(t) \/ PressSubmit(t) \/ Authorize(t) \/ DeleteConnection(t)
         \/ VerifyRepository(t) \/ QueueAnalysis(t)
         \/ StartConnect(t) \/ ReturnFromGitHub(t) \/ ExchangeCode(t) \/ SaveConnection(t)
         \/ ReceiveAnswer(t) \/ LoseAnswer(t) \/ FinishSignOut(t) \/ Reload(t)
    \/ \E s \in Session : Lapse(s)
    \/ DropCookie
    \/ \E x \in late : LateLands(x)
    \/ PurgeExpired

Spec == Init /\ [][Next]_vars

(***************************************************************************)
(* Properties.                                                             *)
(***************************************************************************)
\* A page never shows again a session it has learned is over, by its own confirmed sign-out
\* or by any session query sent after the row was removed: an answer from before the
\* sign-out cannot restore the connected controls.
EndedStaysHidden == \A t \in Tab : Rendered(t) \notin page[t].over

\* signedOut is only answered for a connection that is deleted, and no later statement, of
\* this request or another, brings a removed row back.
SignedOutIsDeleted ==
    [][/\ \A s \in Session : row[s] = "gone" => row'[s] = "gone"
       /\ \A t \in Tab : call'[t].kind = "sign-out" /\ call'[t].stage = "ok"
                           => row'[call'[t].cookie] = "gone"]_vars

\* However the cookies change under the tabs, a request acts on the session its page showed:
\* a connected analysis is accepted for it, and a row is removed before it expires only for a
\* page that showed that very session.
AskedToEnd(s) ==
    \/ \E t \in Tab : call[t].kind = "sign-out" /\ call[t].csrf = s
    \/ \E x \in late : x.does = "remove" /\ x.by = s
ActsOnWhatWasShown ==
    [][/\ \A t \in Tab : call'[t].kind = "submit" /\ call'[t].stage = "ok"
                           => call'[t].csrf = call'[t].cookie
       /\ \A s \in Session \ lapsed : row[s] = "present" /\ row'[s] = "gone"
                                        => AskedToEnd(s)]_vars

(***************************************************************************)
(* Why they hold.                                                          *)
(***************************************************************************)
\* A secret waiting to be saved has no row yet, and nobody else holds it.
SecretsAreFresh ==
    /\ \A t \in Tab : call[t].stage = "exchanged" =>
          /\ call[t].kind = "callback"
          /\ call[t].made \in Session
          /\ row[call[t].made] = "never"
          /\ \A x \in late : x.of # call[t].made
          /\ \A u \in Tab : call[u].made = call[t].made => u = t
    /\ \A x \in late : x.does = "save" => x.by = Nothing /\ row[x.of] = "never"

\* What was authorized is for the session shown, and signedOut follows the deletion.
AuthorityIsShown ==
    /\ \A t \in Tab :
         /\ call[t].kind \in {"sign-out", "submit"}
            /\ call[t].stage \in {"authorized", "verified", "ok", "heard"}
               => call[t].cookie \in Session /\ call[t].csrf = call[t].cookie
                  /\ row[call[t].cookie] # "never"
         /\ call[t].stage = "heard" => call[t].kind = "sign-out"
         /\ call[t].kind = "sign-out" /\ call[t].stage \in {"ok", "heard"}
               => row[call[t].cookie] = "gone"
    /\ \A x \in late : x.does = "remove" => x.by = x.of

\* An answer on its way was read before anything the page has learned since.
AnswersAreCurrent ==
    \A t \in Tab :
        /\ page[t].over \subseteq Gone
        /\ poll[t].ended \subseteq Gone
        /\ poll[t].stage = "served" => poll[t].answer \notin page[t].over \cup poll[t].ended
        /\ page[t].failed = "no" => page[t].shown \notin page[t].over

IInv == TypeOK /\ SecretsAreFresh /\ AuthorityIsShown /\ AnswersAreCurrent
=============================================================================
