----------------------------- MODULE NatDetection -----------------------------
(***************************************************************************)
(* One detection of the NAT in front of the desktop program                *)
(* (desktop/internal/nat/detect.go, stun.go) against the STUN server of    *)
(* the project (server/internal/natdetect/server.go).  Test I asks the     *)
(* primary address, Test II asks it to answer from elsewhere on the same   *)
(* socket, Test III asks the alternate address on another socket.  All     *)
(* attempts of all tests on one socket read whatever answer comes first:   *)
(* neither the transaction nor the origin of an answer is compared.        *)
(* A local address is that of a socket bound to 0.0.0.0, which is never    *)
(* the mapped one: the branch for no NAT is not reached.                   *)
(***************************************************************************)
EXTENDS Naturals

CONSTANTS
  Retries,    \* attempts after the first, 3 in the code
  None

\* What the constants must satisfy; the MC module assumes it.
RetriesAssumption == Retries \in Nat

VARIABLES
  device,     \* what the NAT lets in and how it maps
  honours,    \* the server answers from elsewhere when asked to
  listening,  \* addresses the server listens on
  test, attempt, step,
  expired,    \* ctx is done
  requests,   \* requests on their way
  answers,    \* answers that come, or wait in a socket
  mapped,     \* mappedAddr1
  verdict,    \* NATResult.Type, None before Detect returns
  spoiled     \* history: an attempt failed although its answer can come

vars == <<device, honours, listening, test, attempt, step, expired, requests,
          answers, mapped, verdict, spoiled>>

Tests == {"I", "II", "III"}
Types == {"blocked", "full_cone", "restricted", "port_restricted", "symmetric", "error"}
Socket(t) == IF t = "III" THEN 2 ELSE 1
Asked(t) == IF t = "III" THEN "alternate" ELSE "primary"
\* What the NAT makes of a socket towards a destination.
Mapped(s, to) == IF device = "symmetric" THEN <<s, to>> ELSE <<s, "any">>

Requests == [test : Tests, attempt : 0..Retries]
Answers == [test : Tests, attempt : 0..Retries, error : BOOLEAN]

TypeOK ==
  /\ device \in {"open", "filtering", "symmetric", "closed"}
  /\ honours \in BOOLEAN /\ listening \subseteq {"primary", "alternate"}
  /\ test \in Tests /\ attempt \in 0..Retries
  /\ step \in {"idle", "sending", "reading", "backoff", "returned"}
  /\ requests \subseteq Requests /\ answers \subseteq Answers
  /\ mapped \in {None} \cup ({1} \X {"any", "primary"})
  /\ verdict \in Types \cup {None}
  /\ expired \in BOOLEAN /\ spoiled \in BOOLEAN

Init ==
  /\ device \in {"open", "filtering", "symmetric", "closed"} /\ honours \in BOOLEAN
  /\ listening = {} /\ test = "I" /\ attempt = 0 /\ step = "idle" /\ expired = FALSE
  /\ requests = {} /\ answers = {} /\ mapped = None /\ verdict = None /\ spoiled = FALSE

-------------------------------------------------------------------------------
\* The server: one address fails, one covers the other, or both are bound; the
\* first is closed again when the second fails.
ServerStart ==
  /\ listening = {}
  /\ listening' \in {{"primary"}, {"primary", "alternate"}}
  /\ UNCHANGED <<device, honours, test, attempt, step, expired, requests, answers,
                 mapped, verdict, spoiled>>

ServerStop ==
  /\ listening # {} /\ listening' = {}
  /\ UNCHANGED <<device, honours, test, attempt, step, expired, requests, answers,
                 mapped, verdict, spoiled>>

\* What comes back in: an answer from elsewhere only through an open NAT.
ComesIn(r) ==
  /\ device # "closed"
  /\ r.test = "II" /\ honours => device = "open"

Serve ==
  /\ \E r \in requests, error \in BOOLEAN :
       /\ Asked(r.test) \in listening
       /\ requests' = requests \ {r}
       /\ answers' = answers \cup
            {[test |-> q.test, attempt |-> q.attempt, error |-> error] :
               q \in {p \in {r} : ComesIn(p)}}
  /\ UNCHANGED <<device, honours, listening, test, attempt, step, expired, mapped,
                 verdict, spoiled>>

-------------------------------------------------------------------------------
Return(type) == step' = "returned" /\ verdict' = type /\ UNCHANGED <<test, attempt>>
Begin(t) == step' = "sending" /\ test' = t /\ attempt' = 0 /\ UNCHANGED verdict

\* A test without an answer: Test III needs a socket of its own.
TestFails ==
  CASE test = "I"   -> Return("blocked")
    [] test = "II"  -> Begin("III") \/ Return("error")
    [] test = "III" -> Return("port_restricted")

AttemptFails ==
  IF attempt < Retries THEN step' = "backoff" /\ UNCHANGED <<test, attempt, verdict>>
  ELSE TestFails

Detect ==
  /\ step = "idle"
  /\ Begin("I")
  /\ UNCHANGED <<device, honours, listening, expired, requests, answers, mapped, spoiled>>

\* sendAndReceive: a write that fails is a failed attempt.
Send ==
  /\ step = "sending"
  /\ \/ /\ requests' = requests \cup {[test |-> test, attempt |-> attempt]}
        /\ step' = "reading" /\ UNCHANGED <<test, attempt, verdict, spoiled>>
     \/ AttemptFails /\ spoiled' = TRUE /\ UNCHANGED requests
  /\ UNCHANGED <<device, honours, listening, expired, answers, mapped>>

\* The answer read first is taken, whatever it answers.
Read ==
  /\ step = "reading"
  /\ \E a \in answers :
       /\ Socket(a.test) = Socket(test)
       /\ answers' = answers \ {a}
       /\ spoiled' = (spoiled \/ a.error \/ a.test # test)
       /\ IF a.error THEN AttemptFails /\ UNCHANGED mapped
          ELSE CASE test = "I"  -> Begin("II") /\ mapped' = Mapped(1, "primary")
                 [] test = "II" -> Return("full_cone") /\ UNCHANGED mapped
                 [] test = "III" ->
                      /\ Return(IF Mapped(2, "alternate") = mapped
                                THEN "restricted" ELSE "symmetric")
                      /\ UNCHANGED mapped
  /\ UNCHANGED <<device, honours, listening, expired, requests>>

Timeout ==
  /\ step = "reading"
  /\ AttemptFails
  /\ spoiled' = (spoiled \/ ComesIn([test |-> test]))
  /\ UNCHANGED <<device, honours, listening, expired, requests, answers, mapped>>

\* The context is looked at before a further attempt only.
Backoff ==
  /\ step = "backoff"
  /\ IF expired THEN TestFails
     ELSE step' = "sending" /\ attempt' = attempt + 1 /\ UNCHANGED <<test, verdict>>
  /\ UNCHANGED <<device, honours, listening, expired, requests, answers, mapped, spoiled>>

Expire ==
  /\ ~expired /\ step \in {"sending", "reading", "backoff"}
  /\ expired' = TRUE
  /\ UNCHANGED <<device, honours, listening, test, attempt, step, requests, answers,
                 mapped, verdict, spoiled>>

Next ==
  \/ ServerStart \/ ServerStop \/ Serve
  \/ Detect \/ Send \/ Read \/ Timeout \/ Backoff \/ Expire

Spec == Init /\ [][Next]_vars

-------------------------------------------------------------------------------
\* The verdict says what the NAT does: unless an answer was lost, late, an error
\* or that of another test, a server that answers from elsewhere when asked to
\* tells an open NAT from the others, and only a closed one is called blocked
\* (detect.go: Detect; stun.go: doBindingRequest).
VerdictIsTrue ==
  verdict \notin {None, "error"} /\ ~spoiled =>
    /\ (verdict = "blocked") <=> (device = "closed")
    /\ honours => ((verdict = "full_cone") <=> (device = "open"))

\* The address published is the first socket's towards the primary address.
PublishedIsMapped ==
  verdict \notin {None, "blocked", "error"} => mapped = Mapped(1, "primary")

\* Violated: a restricted cone is called one.  Test III asks from another
\* socket, whose mapping differs from the first one's under every NAT.
ConesAreFound ==
  device = "filtering" /\ ~spoiled => verdict \notin {"symmetric"}
===============================================================================
