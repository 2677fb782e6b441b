------------------------------ MODULE OidcLogin -------------------------------
(***************************************************************************)
(* The OIDC client (desktop/internal/oidc/client.go).  A login waits for   *)
(* one callback of the browser: handlers put the code and then the state   *)
(* into channels of one place, and the login compares the state with one   *)
(* it has generated (nobody else is told it).  The deferred Shutdown waits *)
(* for the handlers without a deadline.  Token requests of several callers *)
(* store what they get, the last one wins.                                 *)
(***************************************************************************)
EXTENDS Naturals, Sequences, FiniteSets

CONSTANTS
  Handlers,   \* callbacks that may come
  Requests,   \* requests for tokens
  None

\* What the constants must satisfy; the MC module assumes it.
FiniteAssumption == IsFiniteSet(Handlers) /\ IsFiniteSet(Requests)

VARIABLES
  login,      \* what StartCallbackServer does
  handler,    \* handler[h]: what the handler does, with the state it carries
  codeCh, stateCh, errCh,
  taken,      \* the callback whose code was taken, and whose state
  outcome,    \* what StartCallbackServer will return
  request,    \* request[r]: None, the refresh it was made with, or the answer
  issued,     \* tokens the provider has issued
  token,      \* c.currentToken
  overlapped  \* history: a request began while another was under way

callback == <<login, handler, codeCh, stateCh, errCh, taken, outcome>>
tokens == <<request, issued, token, overlapped>>
vars == <<callback, tokens>>

\* A token is known by its number; refresh says whether it can be refreshed.
Token == [n : 1..Cardinality(Requests), refresh : BOOLEAN]
States == {"generated", "other"}

TypeOK ==
  /\ login \in {"idle", "serving", "state", "shutdown", "returned"}
  /\ handler \in [Handlers -> [at : {"away", "code", "state", "error", "done"}, state : States]]
  /\ \A q \in {codeCh, stateCh, errCh} : Len(q) <= 1 /\ \A k \in DOMAIN q : q[k] \in Handlers
  /\ taken \in [code : Handlers \cup {None}, state : Handlers \cup {None}]
  /\ outcome \in {None, "code", "mismatch", "error", "cancelled"}
  /\ issued \in 0..Cardinality(Requests)
  /\ token \in Token \cup {None} /\ overlapped \in BOOLEAN

Init ==
  /\ login = "idle" /\ outcome = None
  /\ handler = [h \in Handlers |-> [at |-> "away", state |-> "other"]]
  /\ codeCh = <<>> /\ stateCh = <<>> /\ errCh = <<>>
  /\ taken = [code |-> None, state |-> None]
  /\ request = [r \in Requests |-> [at |-> "idle", with |-> None]]
  /\ issued = 0 /\ token = None /\ overlapped = FALSE

-------------------------------------------------------------------------------
StartCallbackServer ==
  /\ login = "idle" /\ login' = "serving"
  /\ UNCHANGED <<handler, codeCh, stateCh, errCh, taken, outcome, tokens>>

\* A request of the browser, with a code or without one.
Arrive(h) ==
  /\ login \in {"serving", "state"} /\ handler[h].at = "away"
  /\ \E at \in {"code", "error"}, s \in States :
       handler' = [handler EXCEPT ![h] = [at |-> at, state |-> s]]
  /\ UNCHANGED <<login, codeCh, stateCh, errCh, taken, outcome, tokens>>

Moves(h, to) == handler' = [handler EXCEPT ![h].at = to]

PutCode(h) ==
  /\ handler[h].at = "code" /\ codeCh = <<>>
  /\ codeCh' = <<h>> /\ Moves(h, "state")
  /\ UNCHANGED <<login, stateCh, errCh, taken, outcome, tokens>>

PutState(h) ==
  /\ handler[h].at = "state" /\ stateCh = <<>>
  /\ stateCh' = <<h>> /\ Moves(h, "done")
  /\ UNCHANGED <<login, codeCh, errCh, taken, outcome, tokens>>

PutError(h) ==
  /\ handler[h].at = "error" /\ errCh = <<>>
  /\ errCh' = <<h>> /\ Moves(h, "done")
  /\ UNCHANGED <<login, codeCh, stateCh, taken, outcome, tokens>>

Leave(what) == login' = "shutdown" /\ outcome' = what

TakeCode ==
  /\ login = "serving" /\ codeCh # <<>>
  /\ taken' = [taken EXCEPT !.code = codeCh[1]]
  /\ codeCh' = <<>> /\ login' = "state"
  /\ UNCHANGED <<handler, stateCh, errCh, outcome, tokens>>

\* The state is read without a look at the context.
TakeState ==
  /\ login = "state" /\ stateCh # <<>>
  /\ taken' = [taken EXCEPT !.state = stateCh[1]]
  /\ stateCh' = <<>>
  /\ Leave(IF handler[stateCh[1]].state = "generated" THEN "code" ELSE "mismatch")
  /\ UNCHANGED <<handler, codeCh, errCh, tokens>>

TakeError ==
  /\ login = "serving" /\ errCh # <<>>
  /\ errCh' = <<>> /\ Leave("error")
  /\ UNCHANGED <<handler, codeCh, stateCh, taken, tokens>>

Cancel ==
  /\ login = "serving" /\ Leave("cancelled")
  /\ UNCHANGED <<handler, codeCh, stateCh, errCh, taken, tokens>>

Arrived == {h \in Handlers : handler[h].at # "away"}
Shutdown ==
  /\ login = "shutdown" /\ \A h \in Arrived : handler[h].at = "done"
  /\ login' = "returned"
  /\ UNCHANGED <<handler, codeCh, stateCh, errCh, taken, outcome, tokens>>

-------------------------------------------------------------------------------
\* ExchangeCode and PollDeviceToken ask without a token, RefreshToken with the
\* one the caller holds.
Ask(r) ==
  /\ request[r].at = "idle"
  /\ \E with \in {None} \cup {t \in {token} : t # None /\ t.refresh} :
       request' = [request EXCEPT ![r] = [at |-> "asked", with |-> with]]
  /\ overlapped' = (overlapped \/ \E q \in Requests : request[q].at \in {"asked", "answered"})
  /\ UNCHANGED <<callback, issued, token>>

\* The provider answers with a token that may lack a refresh token; a refresh
\* keeps the one it was made with.
Answer(r) ==
  /\ request[r].at = "asked"
  /\ issued' = issued + 1
  /\ \E refresh \in BOOLEAN :
       request' = [request EXCEPT ![r] =
         [at |-> "answered", with |-> request[r].with, n |-> issued + 1,
          refresh |-> refresh \/ request[r].with # None]]
  /\ UNCHANGED <<callback, token, overlapped>>

StoreToken(r) ==
  /\ request[r].at = "answered"
  /\ token' = [n |-> request[r].n, refresh |-> request[r].refresh]
  /\ request' = [request EXCEPT ![r] = [at |-> "stored", with |-> request[r].with]]
  /\ UNCHANGED <<callback, issued, overlapped>>

\* Denied, expired or no answer; a device that is pending asks again.
AskFails(r) ==
  /\ request[r].at = "asked"
  /\ request' = [request EXCEPT ![r].at = "failed"]
  /\ UNCHANGED <<callback, issued, token, overlapped>>

Next ==
  \/ StartCallbackServer \/ TakeCode \/ TakeState \/ TakeError \/ Cancel \/ Shutdown
  \/ \E h \in Handlers : Arrive(h) \/ PutCode(h) \/ PutState(h) \/ PutError(h)
  \/ \E r \in Requests : Ask(r) \/ Answer(r) \/ StoreToken(r) \/ AskFails(r)

Spec == Init /\ [][Next]_vars

-------------------------------------------------------------------------------
\* A login with one callback returns what that callback carried, and a handler
\* never waits for a login that has stopped reading (StartCallbackServer).
LoneCallbackReturns ==
  Cardinality(Arrived) <= 1 =>
    /\ taken.state # None => taken.state = taken.code
    /\ login = "shutdown" => \A h \in Arrived :
         (handler[h].at = "code" => codeCh = <<>>) /\ (handler[h].at = "state" => stateCh = <<>>)

\* Requests that do not overlap leave the newest token (ExchangeCode,
\* RefreshToken, PollDeviceToken).
NewestUnlessOverlapping ==
  ~overlapped /\ token # None /\ (\A r \in Requests : request[r].at # "answered") =>
    token.n = issued

\* Violated: the code and the state that are compared came together.
CodeCameWithState == outcome = "code" => taken.state = taken.code

\* Violated: every login returns.  A handler whose channel is full never ends.
ShutdownCanEnd ==
  login = "shutdown" => \A h \in Arrived :
    (handler[h].at = "code" => codeCh = <<>>) /\ (handler[h].at = "state" => stateCh = <<>>)

\* Violated: the newest token is kept.
NewestIsKept ==
  (\A r \in Requests : request[r].at # "answered") /\ token # None => token.n = issued
===============================================================================
