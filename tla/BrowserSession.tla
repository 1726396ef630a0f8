---------------------------- MODULE BrowserSession ----------------------------
(***************************************************************************)
(* Signing in and out in one browser tab:                                  *)
(* src/frontend/src/lib/auth-context.tsx with the login page, the logout   *)
(* button of the topbar and the 401 handling of lib/api.ts, and on the     *)
(* server src/backend/src/auth (controller, guard, service).               *)
(*                                                                         *)
(* Sessions are signed tokens in a cookie and the server keeps nothing.  A *)
(* token is the number of the login that issued it.  Calls carry the cookie*)
(* of the moment they are sent; answers come back in any order, or never.  *)
(* The headers of an answer change the cookie, and the page acts on it only*)
(* when the body was read: other answers may come in between.              *)
(***************************************************************************)
EXTENDS Integers

CONSTANTS
  Lines,              \* bound: calls in flight
  MaxLogins,          \* bound: tokens, one of which may be there already
  MaxSessionCalls,    \* bound: calls and reloads
  MaxSessionFaults,   \* bound: calls that fail on the network
  Free                \* a line without a call

ASSUME SessionBounds ==
  MaxLogins \in Nat \ {0} /\ MaxSessionCalls \in Nat /\ MaxSessionFaults \in Nat

VARIABLES
  cookie,        \* the token in the cookie, 0 when there is none
  gone,          \* history: what removed the last cookie
  issuer,        \* how many tokens were issued, and which are past their exp
  tab,           \* AuthProvider's status, the path, and the buttons' flags
  line,          \* the calls in flight
  sessionTally   \* calls and faults so far

sessionVars == <<cookie, gone, issuer, tab, line, sessionTally>>

Token == 0..MaxLogins

\* "headers": those of the answer arrived; "mounted": the page that asked is still there.
SessionCall == [kind : {"me", "login", "logout", "data"}, cookie : Token, right : BOOLEAN,
                answer : {"none", "ok", "denied", "failed"}, token : Token,
                headers : BOOLEAN, mounted : BOOLEAN]

ASSUME FreeIsNoCall == Free \notin SessionCall

NewSessionCall(kind, right) ==
  [kind |-> kind, cookie |-> cookie, right |-> right, answer |-> "none", token |-> 0,
   headers |-> FALSE, mounted |-> TRUE]

SessionSpend ==
  /\ sessionTally.calls < MaxSessionCalls
  /\ sessionTally' = [sessionTally EXCEPT !.calls = @ + 1]

SessionAsk(kind, right) ==
  /\ SessionSpend
  /\ \E l \in Lines : line[l] = Free /\ line' = [line EXCEPT ![l] = NewSessionCall(kind, right)]

\* The tab goes to another page, and the flags of the one it leaves are lost.
GoTo(path) ==
  /\ tab' = [tab EXCEPT !.path = path, !.submitting = FALSE, !.loggingOut = FALSE]
  /\ line' = [l \in Lines |-> IF line[l] = Free THEN Free
                              ELSE [line[l] EXCEPT !.mounted = FALSE]]

\* While checkSession is under way AuthProvider renders none of its children.
Rendered == tab.status # "loading"

-----------------------------------------------------------------------------
(* The operator.                                                           *)

\* The tab is opened or reloaded: its calls are dropped, me is asked.
Reload ==
  /\ SessionSpend
  /\ tab' = [tab EXCEPT !.status = "loading", !.submitting = FALSE, !.loggingOut = FALSE]
  /\ LET first == CHOOSE l \in Lines : TRUE
     IN  line' = [l \in Lines |-> IF l = first THEN NewSessionCall("me", TRUE) ELSE Free]
  /\ UNCHANGED <<cookie, gone, issuer>>

\* The effect of AuthProvider that follows status and path.
Redirect ==
  /\ \/ tab.status = "unauthenticated" /\ tab.path = "app" /\ GoTo("login")
     \/ tab.status = "authenticated" /\ tab.path = "login" /\ GoTo("app")
  /\ UNCHANGED <<cookie, gone, issuer, sessionTally>>

\* A link of the sidebar, or the way back.
Navigate ==
  /\ Rendered
  /\ \/ GoTo("app")
     \/ tab.path = "app" /\ GoTo("login")
  /\ UNCHANGED <<cookie, gone, issuer, sessionTally>>

Login(right) ==
  /\ Rendered /\ tab.path = "login" /\ ~tab.submitting
  /\ SessionAsk("login", right)
  /\ tab' = [tab EXCEPT !.submitting = TRUE]
  /\ UNCHANGED <<cookie, gone, issuer>>

Logout ==
  /\ Rendered /\ tab.path = "app" /\ ~tab.loggingOut
  /\ SessionAsk("logout", TRUE)
  /\ tab' = [tab EXCEPT !.loggingOut = TRUE]
  /\ UNCHANGED <<cookie, gone, issuer>>

\* A page behind the login asks for its data.
LoadPage ==
  /\ Rendered /\ tab.path = "app"
  /\ SessionAsk("data", TRUE)
  /\ UNCHANGED <<cookie, gone, issuer, tab>>

-----------------------------------------------------------------------------
(* The server.                                                             *)

\* The guard admits a token it signed that is not past its exp.
Admitted(token) == token # 0 /\ token \notin issuer.expired

ServeSession(l) ==
  /\ line[l] # Free /\ line[l].answer = "none"
  /\ LET call == line[l]
         reply(answer) == line' = [line EXCEPT ![l].answer = answer]
     IN CASE call.kind = "login" /\ call.right ->
               /\ issuer.issued < MaxLogins
               /\ issuer' = [issuer EXCEPT !.issued = @ + 1]
               /\ line' = [line EXCEPT ![l].answer = "ok", ![l].token = issuer.issued + 1]
          [] call.kind = "login" /\ ~call.right -> reply("denied") /\ UNCHANGED issuer
          [] call.kind = "logout" -> reply("ok") /\ UNCHANGED issuer
          [] OTHER -> /\ reply(IF Admitted(call.cookie) THEN "ok" ELSE "denied")
                      /\ UNCHANGED issuer
  /\ UNCHANGED <<cookie, gone, tab, sessionTally>>

\* A token passes its exp by the clock of the server.
Expire ==
  /\ \E token \in 1..issuer.issued :
       Admitted(token) /\ issuer' = [issuer EXCEPT !.expired = @ \cup {token}]
  /\ UNCHANGED <<cookie, gone, tab, line, sessionTally>>

\* The call or its answer is lost, the body after the headers too; the server may
\* have served it.
LoseSessionCall(l) ==
  /\ line[l] # Free /\ line[l].answer # "failed"
  /\ sessionTally.faults < MaxSessionFaults
  /\ sessionTally' = [sessionTally EXCEPT !.faults = @ + 1]
  /\ line' = [line EXCEPT ![l].answer = "failed"]
  /\ UNCHANGED <<cookie, gone, issuer, tab>>

-----------------------------------------------------------------------------
(* The browser.                                                            *)

\* The cookie is given the exp of its token as the moment it ends, which the
\* browser tells by its own clock; nobody tells the page.
CookieExpires ==
  /\ cookie # 0
  /\ cookie' = 0 /\ gone' = "expired"
  /\ UNCHANGED <<issuer, tab, line, sessionTally>>

\* The answer to a login whose headers arrived and that the page has not read yet.
LoginHalfRead ==
  \E l \in Lines : /\ line[l] # Free /\ line[l].kind = "login"
                    /\ line[l].headers /\ line[l].answer = "ok"

\* Set-Cookie of a login that was granted, or of a logout.
HeadersArrive(l) ==
  /\ line[l] # Free /\ line[l].kind \in {"login", "logout"}
  /\ line[l].answer = "ok" /\ ~line[l].headers
  /\ line' = [line EXCEPT ![l].headers = TRUE]
  /\ IF line[l].kind = "login" THEN cookie' = line[l].token /\ gone' = gone
     ELSE /\ cookie' = 0
          /\ gone' = IF cookie = 0 THEN gone ELSE IF LoginHalfRead THEN "crossed" ELSE "logout"
  /\ UNCHANGED <<issuer, tab, sessionTally>>

-----------------------------------------------------------------------------
(* Answers.                                                                *)

\* An answer that has to change the cookie did so before the page hears of it.
SessionAnswered(l, kind) ==
  /\ line[l] # Free /\ line[l].kind = kind /\ line[l].answer # "none"
  /\ kind \in {"login", "logout"} /\ line[l].answer = "ok" => line[l].headers

SessionDone(l) ==
  /\ line' = [line EXCEPT ![l] = Free]
  /\ UNCHANGED <<cookie, gone, issuer, sessionTally>>

SessionChecked(l) ==
  /\ SessionAnswered(l, "me")
  /\ tab' = [tab EXCEPT !.status = IF line[l].answer = "ok" THEN "authenticated"
                                   ELSE "unauthenticated"]
  /\ SessionDone(l)

\* Mutant: a login that failed counts as signed out.
LoggedInOrOut(l) ==
  /\ SessionAnswered(l, "login")
  /\ tab' = [tab EXCEPT !.status = IF line[l].answer = "ok" THEN "authenticated"
                                   ELSE "unauthenticated", !.submitting = FALSE]
  /\ SessionDone(l)

\* On success the tab goes home, wherever it is by now; a login that failed gives
\* the form back, if it is still the one that asked.
LoggedIn(l) ==
  /\ SessionAnswered(l, "login")
  /\ IF line[l].answer = "ok"
     THEN /\ tab' = [tab EXCEPT !.status = "authenticated", !.path = "app",
                                !.submitting = FALSE, !.loggingOut = FALSE]
          /\ line' = [m \in Lines |-> IF m = l \/ line[m] = Free THEN Free
                                      ELSE [line[m] EXCEPT !.mounted = FALSE]]
          /\ UNCHANGED <<cookie, gone, issuer, sessionTally>>
     ELSE /\ tab' = [tab EXCEPT !.submitting = @ /\ ~line[l].mounted]
          /\ SessionDone(l)

\* Mutant: the login page is shown and the status left alone.
LoggedOutQuietly(l) ==
  /\ SessionAnswered(l, "logout")
  /\ tab' = [tab EXCEPT !.path = "login", !.loggingOut = FALSE]
  /\ SessionDone(l)

\* A logout counts even if the server was not reached, or its answer was lost;
\* the cookie may then still be there.
LoggedOut(l) ==
  /\ SessionAnswered(l, "logout")
  /\ tab' = [tab EXCEPT !.status = "unauthenticated", !.path = "login", !.loggingOut = FALSE]
  /\ SessionDone(l)

\* A 401 outside /auth/ raises bg:unauthorized, whichever session it was about.
PageLoaded(l) ==
  /\ SessionAnswered(l, "data")
  /\ tab' = IF line[l].answer = "denied" THEN [tab EXCEPT !.status = "unauthenticated"] ELSE tab
  /\ SessionDone(l)

SessionStart(cookies) ==
  /\ cookie \in cookies /\ gone = "logout"
  /\ issuer = [issued |-> 1, expired |-> {}]
  /\ tab = [status |-> "loading", path |-> "app", submitting |-> FALSE, loggingOut |-> FALSE]
  /\ LET first == CHOOSE l \in Lines : TRUE
     IN  line = [l \in Lines |-> IF l = first THEN NewSessionCall("me", TRUE) ELSE Free]
  /\ sessionTally = [calls |-> 0, faults |-> 0]

SessionInit == SessionStart({0, 1})

SessionNext ==
  \/ Reload \/ Redirect \/ Navigate \/ Logout \/ LoadPage \/ Expire \/ CookieExpires
  \/ \E right \in BOOLEAN : Login(right)
  \/ \E l \in Lines :
       \/ ServeSession(l) \/ LoseSessionCall(l) \/ HeadersArrive(l)
       \/ SessionChecked(l) \/ LoggedIn(l) \/ LoggedOut(l) \/ PageLoaded(l)

SessionSpec == SessionInit /\ [][SessionNext]_sessionVars

-----------------------------------------------------------------------------
(* Properties.                                                             *)

SessionTypeOK ==
  /\ cookie \in Token /\ gone \in {"expired", "logout", "crossed"}
  /\ issuer \in [issued : Token, expired : SUBSET Token]
  /\ tab \in [status : {"loading", "authenticated", "unauthenticated"},
              path : {"app", "login"}, submitting : BOOLEAN, loggingOut : BOOLEAN]
  /\ line \in [Lines -> SessionCall \cup {Free}]
  /\ sessionTally \in [calls : 0..MaxSessionCalls, faults : 0..MaxSessionFaults]

\* A signed-in operator is signed out only by a reload, by a logout that is
\* answered, or by a page's call that the guard denied: a late answer of the
\* session check or of another login never does it.
OnlyDenialSignsOut ==
  [][tab.status = "authenticated" /\ tab'.status # "authenticated" =>
       \/ tab'.status = "loading"
       \/ \E l \in Lines : /\ line[l] # Free /\ line'[l] = Free
                           /\ \/ line[l].kind = "logout"
                              \/ line[l].kind = "data" /\ line[l].answer = "denied"]_sessionVars

\* A tab that shows itself as signed in holds a session the server issued, or the
\* cookie ran out, which the tab learns from the guard when it asks again: in
\* whatever order logins, logouts and the session check are answered or lost, a
\* logout that was carried out does not leave the tab signed in once the page has
\* heard of it.  The exception is a logout whose headers come between the headers
\* of a login and its body: it takes the new cookie, and the page that reads it
\* first is signed in by the other.
SignedInHoldsSession ==
  tab.status = "authenticated" /\ cookie = 0 =>
    \/ gone \in {"expired", "crossed"}
    \/ \E l \in Lines : line[l] # Free /\ line[l].kind = "logout" /\ line[l].headers
=============================================================================
