---------------------------- MODULE EndpointPolicies ---------------------------
(***************************************************************************)
(* The access policy of a public endpoint (server/internal/relay/          *)
(* gateway.go): an administrator puts and deletes it while the gateway     *)
(* answers HTTP requests.  Put installs a fresh state, so the requests     *)
(* that run meanwhile go on with the state they were admitted by: the      *)
(* states are numbered here.  What follows an admitted request is in       *)
(* RelaySessions.  Addresses, credentials and the time span of the policy  *)
(* are one test, Admissible.                                               *)
(***************************************************************************)
EXTENDS Naturals, FiniteSets, Sequences

CONSTANTS
  Requests,       \* HTTP requests (goroutines of the gateway)
  Ips,            \* addresses of visitors
  MaxConcurrent,  \* policy.MaxConcurrent
  RateLimit,      \* policy.RateLimitPerMinute
  Retention,      \* config.RequestLogRetention
  MaxStates       \* bound: states put in a behaviour

\* What the constants must satisfy; the MC module assumes it.
LimitAssumption ==
  {MaxConcurrent, RateLimit, Retention, MaxStates} \subseteq Nat \ {0}

VARIABLES
  policy,      \* s.policies[id]: the number of the state in force, 0: none
  states,      \* how many states have been put
  concurrent,  \* concurrent[n][ip], the counters of state n
  window,      \* rateWindows[ip].count of state n
  request,     \* request[r]: what became of r
  logs,        \* s.requestLogs: the outcomes, oldest first
  admitted     \* history: requests state n let pass in the present window of ip

counters == <<concurrent, window, admitted>>
vars == <<policy, states, counters, request, logs>>

StateIds == 1 .. MaxStates
Idle == [pc |-> "idle", ip |-> CHOOSE i \in Ips : TRUE, by |-> 0]
Outcomes == {"done", "open", "denied", "rate", "busy"}

TypeOK ==
  /\ policy \in 0 .. states /\ states \in 0 .. MaxStates
  /\ concurrent \in [StateIds -> [Ips -> Nat]]
  /\ window \in [StateIds -> [Ips -> Nat]]
  /\ admitted \in [StateIds -> [Ips -> Nat]]
  /\ request \in [Requests -> [pc : {"idle", "evaluate", "running"}, ip : Ips,
                               by : 0 .. MaxStates]]
  /\ logs \in Seq(Outcomes) /\ Len(logs) <= Retention

Init ==
  /\ policy = 0 /\ states = 0
  /\ concurrent = [n \in StateIds |-> [i \in Ips |-> 0]]
  /\ window = concurrent /\ admitted = concurrent
  /\ request = [r \in Requests |-> Idle]
  /\ logs = << >>

UpsertEndpointPolicy ==
  /\ states < MaxStates
  /\ states' = states + 1
  /\ policy' = states'
  /\ UNCHANGED <<counters, request, logs>>

DeleteEndpointPolicy ==
  /\ policy # 0
  /\ policy' = 0
  /\ UNCHANGED <<states, counters, request, logs>>

\* A minute after the window was opened.
WindowOver(n, ip) ==
  /\ window[n][ip] > 0
  /\ window' = [window EXCEPT ![n][ip] = 0]
  /\ admitted' = [admitted EXCEPT ![n][ip] = 0]
  /\ UNCHANGED <<policy, states, concurrent, request, logs>>

-------------------------------------------------------------------------------
\* What the log keeps of an outcome.
Logged(outcome) ==
  LET all == Append(logs, outcome)
  IN SubSeq(all, IF Len(all) > Retention THEN Len(all) - Retention + 1 ELSE 1, Len(all))

\* The request has found its proxy and looks its policy up.
Arrive(r, ip) ==
  /\ request[r] = Idle
  /\ request' = [request EXCEPT ![r] =
       IF policy = 0 THEN Idle ELSE [pc |-> "evaluate", ip |-> ip, by |-> policy]]
  /\ logs' = IF policy = 0 THEN Logged("open") ELSE logs
  /\ UNCHANGED <<policy, states, counters>>

At(r, pc) == request[r].pc = pc
Refuse(r, why) ==
  /\ request' = [request EXCEPT ![r] = Idle]
  /\ logs' = Logged(why)

\* Time span, addresses or credentials say no: nothing is counted.
Denied(r) ==
  /\ At(r, "evaluate")
  /\ Refuse(r, "denied")
  /\ UNCHANGED <<policy, states, counters>>

OverRate(n, ip) == window[n][ip] >= RateLimit
\* Mutant: the limit is one too high.
IsBusyLate(n, ip) == concurrent[n][ip] > MaxConcurrent
IsBusy(n, ip) == concurrent[n][ip] >= MaxConcurrent

\* The request is counted in its window before anything can refuse it.
Evaluate(r) ==
  LET n == request[r].by
      ip == request[r].ip
  IN /\ At(r, "evaluate")
     /\ window' = [window EXCEPT ![n][ip] = IF OverRate(n, ip) THEN @ ELSE @ + 1]
     /\ IF OverRate(n, ip) THEN Refuse(r, "rate") /\ UNCHANGED <<concurrent, admitted>>
        ELSE IF IsBusy(n, ip) THEN Refuse(r, "busy") /\ UNCHANGED <<concurrent, admitted>>
        ELSE /\ concurrent' = [concurrent EXCEPT ![n][ip] = @ + 1]
             /\ admitted' = [admitted EXCEPT ![n][ip] = @ + 1]
             /\ request' = [request EXCEPT ![r].pc = "running"]
             /\ UNCHANGED logs
     /\ UNCHANGED <<policy, states>>

\* The deferred release runs whatever became of the exchange.
Release(r) ==
  LET n == request[r].by
      ip == request[r].ip
  IN /\ At(r, "running")
     /\ concurrent' = [concurrent EXCEPT ![n][ip] = IF @ > 1 THEN @ - 1 ELSE 0]
     /\ request' = [request EXCEPT ![r] = Idle]
     /\ logs' = Logged("done")
     /\ UNCHANGED <<policy, states, window, admitted>>

Next ==
  \/ UpsertEndpointPolicy \/ DeleteEndpointPolicy
  \/ \E n \in StateIds, ip \in Ips : WindowOver(n, ip)
  \/ \E r \in Requests : \/ \E ip \in Ips : Arrive(r, ip)
                         \/ Denied(r) \/ Evaluate(r) \/ Release(r)

Spec == Init /\ [][Next]_vars

-------------------------------------------------------------------------------
Running(n, ip) ==
  Cardinality({r \in Requests : /\ At(r, "running")
                                /\ request[r].by = n /\ request[r].ip = ip})

\* The limits hold for every state and visitor, and a slot is never lost: the
\* counter is the number of requests that really run, also of those the policy
\* was replaced or deleted under (evaluate, its release, UpsertEndpointPolicy).
LimitsHold ==
  \A n \in StateIds, ip \in Ips :
    /\ concurrent[n][ip] = Running(n, ip)
    /\ Running(n, ip) <= MaxConcurrent
    /\ admitted[n][ip] <= RateLimit
===============================================================================
