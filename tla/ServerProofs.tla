------------------------------ MODULE ServerProofs ------------------------------
(***************************************************************************)
(* Proofs about the services of the server and its tools (MCServer), for   *)
(* any requests, visitors, rules, nodes, versions and limits that          *)
(* ConstantsFit allows.  Each part has its own invariant; a step of        *)
(* another part leaves its variables alone.                                *)
(***************************************************************************)
EXTENDS MCServer, FiniteSetTheorems, FunctionTheorems, TLAPS

-------------------------------------------------------------------------------
(* The policies of endpoints.                                              *)

\* The requests that state n let pass and that have not ended.
RunSet(n, ip) ==
  {r \in Callers : Endpoints!At(r, "running") /\ request[r].by = n /\ request[r].ip = ip}
\* What is let pass was counted in the window before.
RateInv == \A n \in Endpoints!StateIds, ip \in Names :
             admitted[n][ip] <= window[n][ip] /\ window[n][ip] <= RateLimit
SlotInv == \A n \in Endpoints!StateIds, ip \in Names :
             /\ concurrent[n][ip] = Cardinality(RunSet(n, ip))
             /\ concurrent[n][ip] <= MaxConcurrent
RequestRecord == [pc : {"idle", "evaluate", "running"}, ip : Names, by : 0 .. MaxStates]
CounterTypes ==
  /\ policy \in 0 .. MaxStates /\ states \in 0 .. MaxStates
  /\ concurrent \in [Endpoints!StateIds -> [Names -> Nat]]
  /\ window \in [Endpoints!StateIds -> [Names -> Nat]]
  /\ admitted \in [Endpoints!StateIds -> [Names -> Nat]]
  /\ request \in [Callers -> RequestRecord]
  /\ \A r \in Callers : ~Endpoints!At(r, "idle") => request[r].by \in Endpoints!StateIds
LogInv == logs \in Seq(Endpoints!Outcomes) /\ Len(logs) <= Retention /\ policy <= states
PoliciesInv == CounterTypes /\ LogInv /\ RateInv /\ SlotInv

\* What the policies' proof assumes of the constants.
PoliciesFit == Endpoints!LimitAssumption /\ IsFiniteSet(Callers) /\ Names # {}


\* The log keeps its newest entries, at most Retention of them.
LEMMA LoggedFits ==
  ASSUME PoliciesFit, logs \in Seq(Endpoints!Outcomes), Len(logs) <= Retention,
         NEW o \in Endpoints!Outcomes
  PROVE  /\ Endpoints!Logged(o) \in Seq(Endpoints!Outcomes)
         /\ Len(Endpoints!Logged(o)) <= Retention
<1> DEFINE all == Append(logs, o)
           from == IF Len(all) > Retention THEN Len(all) - Retention + 1 ELSE 1
<1>1. all \in Seq(Endpoints!Outcomes) /\ Len(all) = Len(logs) + 1 /\ Len(logs) \in Nat
  OBVIOUS
<1>2. from \in Nat \ {0} /\ from >= 1
  BY <1>1 DEF PoliciesFit, Endpoints!LimitAssumption
<1> HIDE DEF all
<1>3. \A i \in from .. Len(all) : all[i] \in Endpoints!Outcomes
  BY <1>1, <1>2
<1>4. SubSeq(all, from, Len(all)) \in Seq(Endpoints!Outcomes)
  BY <1>1, <1>2, <1>3
<1>5. Len(SubSeq(all, from, Len(all))) = IF from <= Len(all) THEN Len(all) - from + 1 ELSE 0
  BY <1>1, <1>2
<1>6. Len(SubSeq(all, from, Len(all))) <= Retention
  BY <1>1, <1>2, <1>5 DEF PoliciesFit, Endpoints!LimitAssumption
<1> QED BY <1>4, <1>6 DEF Endpoints!Logged, all

LEMMA PoliciesInit == PoliciesFit /\ Endpoints!Init => PoliciesInv
<1> SUFFICES ASSUME PoliciesFit, Endpoints!Init PROVE PoliciesInv
  OBVIOUS
<1>1. Endpoints!Idle \in RequestRecord /\ Endpoints!Idle.pc = "idle"
  BY DEF Endpoints!Idle, RequestRecord, PoliciesFit, Endpoints!LimitAssumption
<1>2. CounterTypes
  BY <1>1 DEF Endpoints!Init, CounterTypes, Endpoints!At, PoliciesFit, Endpoints!LimitAssumption
<1>3. RateInv
  BY DEF Endpoints!Init, RateInv, PoliciesFit, Endpoints!LimitAssumption
<1>4. \A n \in Endpoints!StateIds, ip \in Names : RunSet(n, ip) = {}
  BY <1>1 DEF RunSet, Endpoints!Init, Endpoints!At
<1>5. SlotInv
  <2>1. \A n \in Endpoints!StateIds, ip \in Names : Cardinality(RunSet(n, ip)) = 0
    BY <1>4, FS_EmptySet
  <2>2. \A n \in Endpoints!StateIds, ip \in Names : concurrent[n][ip] = 0
    BY DEF Endpoints!Init
  <2>3. 0 <= MaxConcurrent
    BY DEF PoliciesFit, Endpoints!LimitAssumption
  <2> QED BY <2>1, <2>2, <2>3 DEF SlotInv
<1>6. LogInv
  BY DEF Endpoints!Init, LogInv, PoliciesFit, Endpoints!LimitAssumption
<1> QED BY <1>2, <1>3, <1>5, <1>6 DEF PoliciesInv

\* Types are kept by every step.
LEMMA CounterTypesKept == PoliciesFit /\ CounterTypes /\ Endpoints!Next => CounterTypes'
<1> SUFFICES ASSUME PoliciesFit, CounterTypes, Endpoints!Next PROVE CounterTypes'
  OBVIOUS
<1>1. Endpoints!Idle \in RequestRecord /\ Endpoints!Idle.pc = "idle"
  BY DEF Endpoints!Idle, RequestRecord, PoliciesFit, Endpoints!LimitAssumption
<1> USE DEF CounterTypes
<1>2. CASE Endpoints!UpsertEndpointPolicy \/ Endpoints!DeleteEndpointPolicy
  BY <1>2 DEF Endpoints!UpsertEndpointPolicy, Endpoints!DeleteEndpointPolicy, Endpoints!counters, Endpoints!At, PoliciesFit, Endpoints!LimitAssumption
<1>3. ASSUME NEW n \in Endpoints!StateIds, NEW ip \in Names, Endpoints!WindowOver(n, ip) PROVE CounterTypes'
  BY <1>3 DEF Endpoints!WindowOver, Endpoints!At
<1>4. ASSUME NEW r \in Callers, NEW ip \in Names, Endpoints!Arrive(r, ip) PROVE CounterTypes'
  <2>1. policy # 0 => policy \in Endpoints!StateIds
    BY DEF Endpoints!StateIds, PoliciesFit, Endpoints!LimitAssumption
  <2>2. policy # 0 => [pc |-> "evaluate", ip |-> ip, by |-> policy] \in RequestRecord
    BY DEF RequestRecord
  <2> QED BY <1>1, <1>4, <2>1, <2>2 DEF Endpoints!Arrive, Endpoints!counters, Endpoints!At
<1>5. ASSUME NEW r \in Callers, Endpoints!Denied(r) PROVE CounterTypes'
  BY <1>1, <1>5 DEF Endpoints!Denied, Endpoints!Refuse, Endpoints!counters, Endpoints!At
<1>6. ASSUME NEW r \in Callers, Endpoints!Evaluate(r) PROVE CounterTypes'
  <2> DEFINE n == request[r].by
             ip == request[r].ip
  <2>1. n \in Endpoints!StateIds /\ ip \in Names
    BY <1>6 DEF Endpoints!Evaluate, Endpoints!At, RequestRecord
  <2>2. window' \in [Endpoints!StateIds -> [Names -> Nat]]
    BY <1>6, <2>1 DEF Endpoints!Evaluate
  <2>3. concurrent' \in [Endpoints!StateIds -> [Names -> Nat]] /\ admitted' \in [Endpoints!StateIds -> [Names -> Nat]]
    <3>1. CASE UNCHANGED <<concurrent, admitted>>
      BY <3>1
    <3>2. CASE /\ concurrent' = [concurrent EXCEPT ![n][ip] = @ + 1]
               /\ admitted' = [admitted EXCEPT ![n][ip] = @ + 1]
      BY <2>1, <3>2
    <3> QED BY <1>6, <3>1, <3>2 DEF Endpoints!Evaluate
  <2>4. /\ request' \in [Callers -> RequestRecord]
        /\ \A q \in Callers : ~Endpoints!At(q, "idle")' => request'[q].by \in Endpoints!StateIds
    <3>1. [request[r] EXCEPT !.pc = "running"] \in RequestRecord
          /\ [request[r] EXCEPT !.pc = "running"].by = n
      BY DEF RequestRecord
    <3>2. \/ request' = [request EXCEPT ![r] = Endpoints!Idle]
          \/ request' = [request EXCEPT ![r] = [request[r] EXCEPT !.pc = "running"]]
      BY <1>6 DEF Endpoints!Evaluate, Endpoints!Refuse
    <3> QED BY <1>1, <2>1, <3>1, <3>2 DEF Endpoints!At
  <2> QED BY <1>6, <2>2, <2>3, <2>4 DEF Endpoints!Evaluate
<1>7. ASSUME NEW r \in Callers, Endpoints!Release(r) PROVE CounterTypes'
  <2> DEFINE n == request[r].by
             ip == request[r].ip
  <2>1. n \in Endpoints!StateIds /\ ip \in Names
    BY <1>7 DEF Endpoints!Release, Endpoints!At, RequestRecord
  <2>2. concurrent' \in [Endpoints!StateIds -> [Names -> Nat]]
    BY <1>7, <2>1 DEF Endpoints!Release
  <2> QED BY <1>1, <1>7, <2>2 DEF Endpoints!Release, Endpoints!At
<1> QED BY <1>2, <1>3, <1>4, <1>5, <1>6, <1>7 DEF Endpoints!Next

\* Every step but the two that count leaves each request where it ran.
LEMMA CountersKept == PoliciesFit /\ PoliciesInv /\ Endpoints!Next => RateInv' /\ SlotInv'
<1> SUFFICES ASSUME PoliciesFit, PoliciesInv, Endpoints!Next PROVE RateInv' /\ SlotInv'
  OBVIOUS
<1>f. \A n, ip : IsFiniteSet(RunSet(n, ip)) /\ Cardinality(RunSet(n, ip)) \in Nat
  <2> TAKE n, ip
  <2>1. RunSet(n, ip) \subseteq Callers /\ IsFiniteSet(Callers)
    BY DEF RunSet, PoliciesFit
  <2> QED BY <2>1, FS_Subset, FS_CardinalityType
<1>t. CounterTypes /\ RateInv /\ SlotInv /\ Endpoints!Idle.pc = "idle"
      /\ MaxConcurrent \in Nat /\ RateLimit \in Nat
  BY DEF PoliciesInv, Endpoints!Idle, PoliciesFit, Endpoints!LimitAssumption
<1>1. CASE Endpoints!UpsertEndpointPolicy \/ Endpoints!DeleteEndpointPolicy
  BY <1>1, <1>t DEF Endpoints!UpsertEndpointPolicy, Endpoints!DeleteEndpointPolicy, Endpoints!counters, RateInv, SlotInv,
                    RunSet, Endpoints!At
<1>2. ASSUME NEW n \in Endpoints!StateIds, NEW ip \in Names, Endpoints!WindowOver(n, ip)
      PROVE  RateInv' /\ SlotInv'
  <2>1. \A m, i : RunSet(m, i)' = RunSet(m, i)
    BY <1>2 DEF Endpoints!WindowOver, RunSet, Endpoints!At
  <2>2. SlotInv'
    BY <1>2, <1>t, <2>1 DEF Endpoints!WindowOver, SlotInv
  <2>3. \A m \in Endpoints!StateIds, i \in Names :
          /\ window'[m][i] = IF m = n /\ i = ip THEN 0 ELSE window[m][i]
          /\ admitted'[m][i] = IF m = n /\ i = ip THEN 0 ELSE admitted[m][i]
    BY <1>2, <1>t DEF Endpoints!WindowOver, CounterTypes
  <2> QED BY <1>t, <2>2, <2>3 DEF RateInv
<1>3. ASSUME NEW r \in Callers,
             Endpoints!Denied(r) \/ \E ip \in Names : Endpoints!Arrive(r, ip)
      PROVE  RateInv' /\ SlotInv'
  <2>1. ~Endpoints!At(r, "running") /\ ~Endpoints!At(r, "running")'
        /\ \A q \in Callers \ {r} : request'[q] = request[q]
    <3>1. CASE Endpoints!Denied(r)
      BY <1>t, <3>1 DEF Endpoints!Denied, Endpoints!Refuse, Endpoints!At, CounterTypes
    <3>2. ASSUME NEW ip \in Names, Endpoints!Arrive(r, ip)
          PROVE  /\ ~Endpoints!At(r, "running") /\ ~Endpoints!At(r, "running")'
                 /\ \A q \in Callers \ {r} : request'[q] = request[q]
      <4>1. PICK k : k.pc # "running" /\ request' = [request EXCEPT ![r] = k]
        BY <1>t, <3>2 DEF Endpoints!Arrive
      <4> QED BY <1>t, <3>2, <4>1 DEF Endpoints!Arrive, Endpoints!At, CounterTypes
    <3> QED BY <1>3, <3>1, <3>2
  <2>2. \A n, ip : RunSet(n, ip)' = RunSet(n, ip)
    BY <2>1 DEF RunSet, Endpoints!At
  <2>3. UNCHANGED Endpoints!counters
    BY <1>3 DEF Endpoints!Denied, Endpoints!Arrive
  <2> QED BY <1>t, <2>2, <2>3 DEF RateInv, SlotInv, Endpoints!counters
<1>4. ASSUME NEW r \in Callers, Endpoints!Evaluate(r) PROVE RateInv' /\ SlotInv'
  <2> DEFINE n == request[r].by
             ip == request[r].ip
  <2>1. n \in Endpoints!StateIds /\ ip \in Names /\ ~Endpoints!At(r, "running")
    BY <1>4, <1>t DEF Endpoints!Evaluate, Endpoints!At, CounterTypes, RequestRecord
  <2>2. \A m \in Endpoints!StateIds, i \in Names :
          window'[m][i] = IF m = n /\ i = ip /\ ~Endpoints!OverRate(n, ip)
                          THEN window[m][i] + 1 ELSE window[m][i]
    BY <1>4, <1>t, <2>1 DEF Endpoints!Evaluate, CounterTypes
  <2>3. CASE request' = [request EXCEPT ![r] = Endpoints!Idle] /\ UNCHANGED <<concurrent, admitted>>
    <3>1. \A m, i : RunSet(m, i)' = RunSet(m, i)
      BY <1>t, <2>1, <2>3 DEF RunSet, Endpoints!At, CounterTypes
    <3>2. SlotInv'
      BY <1>t, <2>3, <3>1 DEF SlotInv
    <3>3. RateInv'
      BY <1>t, <2>1, <2>2, <2>3 DEF RateInv, Endpoints!OverRate, CounterTypes
    <3> QED BY <3>2, <3>3
  <2>4. CASE /\ ~Endpoints!OverRate(n, ip) /\ ~Endpoints!IsBusy(n, ip)
             /\ concurrent' = [concurrent EXCEPT ![n][ip] = @ + 1]
             /\ admitted' = [admitted EXCEPT ![n][ip] = @ + 1]
             /\ request' = [request EXCEPT ![r].pc = "running"]
    <3>1. \A m, i : RunSet(m, i)' = IF m = n /\ i = ip THEN RunSet(m, i) \cup {r}
                                    ELSE RunSet(m, i)
      BY <1>t, <2>1, <2>4 DEF RunSet, Endpoints!At, CounterTypes, RequestRecord
    <3>2. Cardinality(RunSet(n, ip) \cup {r}) = Cardinality(RunSet(n, ip)) + 1
      <4>1. r \notin RunSet(n, ip)
        BY <2>1 DEF RunSet
      <4> QED BY <1>f, <4>1, FS_AddElement
    <3>3. \A m \in Endpoints!StateIds, i \in Names :
            /\ concurrent'[m][i] = IF m = n /\ i = ip THEN concurrent[m][i] + 1
                                   ELSE concurrent[m][i]
            /\ admitted'[m][i] = IF m = n /\ i = ip THEN admitted[m][i] + 1
                                 ELSE admitted[m][i]
      BY <1>t, <2>1, <2>4 DEF CounterTypes
    <3>4. SlotInv'
      <4> SUFFICES ASSUME NEW m \in Endpoints!StateIds, NEW i \in Names
                   PROVE  /\ concurrent'[m][i] = Cardinality(RunSet(m, i)')
                          /\ concurrent'[m][i] <= MaxConcurrent
        BY DEF SlotInv
      <4>1. concurrent[m][i] = Cardinality(RunSet(m, i)) /\ concurrent[m][i] <= MaxConcurrent
            /\ concurrent[m][i] \in Nat
        BY <1>t DEF SlotInv, CounterTypes
      <4>2. CASE m = n /\ i = ip
        <5>1. RunSet(m, i)' = RunSet(n, ip) \cup {r}
          BY <3>1, <4>2
        <5>2. concurrent'[m][i] = concurrent[m][i] + 1 /\ concurrent[m][i] < MaxConcurrent
          BY <1>t, <2>4, <3>3, <4>1, <4>2 DEF Endpoints!IsBusy
        <5>3. Cardinality(RunSet(m, i)') = concurrent[m][i] + 1
          BY <3>2, <4>1, <4>2, <5>1
        <5> QED BY <1>t, <4>1, <5>2, <5>3
      <4>3. CASE ~(m = n /\ i = ip)
        BY <3>1, <3>3, <4>1, <4>3
      <4> QED BY <4>2, <4>3
    <3>5. RateInv'
      BY <1>t, <2>1, <2>2, <2>4, <3>3 DEF RateInv, Endpoints!OverRate, CounterTypes
    <3> QED BY <3>4, <3>5
  <2> QED BY <1>4, <2>3, <2>4 DEF Endpoints!Evaluate, Endpoints!Refuse
<1>5. ASSUME NEW r \in Callers, Endpoints!Release(r) PROVE RateInv' /\ SlotInv'
  <2> DEFINE n == request[r].by
             ip == request[r].ip
  <2>1. n \in Endpoints!StateIds /\ ip \in Names /\ r \in RunSet(n, ip)
    BY <1>5, <1>t DEF Endpoints!Release, Endpoints!At, CounterTypes, RequestRecord, RunSet
  <2>2. \A m, i : RunSet(m, i)' = IF m = n /\ i = ip THEN RunSet(m, i) \ {r}
                                  ELSE RunSet(m, i)
    BY <1>t, <1>5, <2>1 DEF Endpoints!Release, RunSet, Endpoints!At, CounterTypes, RequestRecord
  <2>3. /\ Cardinality(RunSet(n, ip) \ {r}) = Cardinality(RunSet(n, ip)) - 1
        /\ Cardinality(RunSet(n, ip)) >= 1
    <3>1. /\ IsFiniteSet(RunSet(n, ip) \ {r})
          /\ Cardinality(RunSet(n, ip) \ {r}) = Cardinality(RunSet(n, ip)) - 1
      BY <1>f, <2>1, FS_RemoveElement
    <3>2. Cardinality(RunSet(n, ip) \ {r}) \in Nat
      BY <3>1, FS_CardinalityType
    <3> QED BY <1>f, <3>1, <3>2
  <2>4. \A m \in Endpoints!StateIds, i \in Names :
          concurrent'[m][i] = IF m = n /\ i = ip
                              THEN IF concurrent[m][i] > 1 THEN concurrent[m][i] - 1 ELSE 0
                              ELSE concurrent[m][i]
    BY <1>t, <1>5, <2>1 DEF Endpoints!Release, CounterTypes
  <2>5. SlotInv'
    <3> SUFFICES ASSUME NEW m \in Endpoints!StateIds, NEW i \in Names
                 PROVE  /\ concurrent'[m][i] = Cardinality(RunSet(m, i)')
                        /\ concurrent'[m][i] <= MaxConcurrent
      BY DEF SlotInv
    <3>1. concurrent[m][i] = Cardinality(RunSet(m, i)) /\ concurrent[m][i] <= MaxConcurrent
          /\ concurrent[m][i] \in Nat
      BY <1>t DEF SlotInv, CounterTypes
    <3>2. CASE m = n /\ i = ip
      <4>1. RunSet(m, i)' = RunSet(n, ip) \ {r}
        BY <2>2, <3>2
      <4>2. Cardinality(RunSet(m, i)') = concurrent[m][i] - 1 /\ concurrent[m][i] >= 1
        BY <2>3, <3>1, <3>2, <4>1
      <4>3. concurrent'[m][i] = concurrent[m][i] - 1
        BY <2>4, <3>1, <3>2, <4>2
      <4> QED BY <1>t, <3>1, <4>2, <4>3
    <3>3. CASE ~(m = n /\ i = ip)
      BY <2>2, <2>4, <3>1, <3>3
    <3> QED BY <3>2, <3>3
  <2> QED BY <1>5, <1>t, <2>5 DEF Endpoints!Release, RateInv
<1> QED BY <1>1, <1>2, <1>3, <1>4, <1>5 DEF Endpoints!Next

LEMMA LogKept ==
  ASSUME PoliciesFit, LogInv, CounterTypes, Endpoints!Next
  PROVE  LogInv'
<1>1. \A o \in Endpoints!Outcomes : /\ Endpoints!Logged(o) \in Seq(Endpoints!Outcomes)
                                    /\ Len(Endpoints!Logged(o)) <= Retention
  BY LoggedFits DEF LogInv
<1>2. logs' = logs \/ \E o \in Endpoints!Outcomes : logs' = Endpoints!Logged(o)
  BY Zenon DEF Endpoints!Next, Endpoints!UpsertEndpointPolicy, Endpoints!DeleteEndpointPolicy,
     Endpoints!WindowOver, Endpoints!Arrive, Endpoints!Denied, Endpoints!Evaluate,
     Endpoints!Release, Endpoints!Refuse, Endpoints!Outcomes
<1>3. UNCHANGED <<policy, states>> \/ Endpoints!UpsertEndpointPolicy
        \/ Endpoints!DeleteEndpointPolicy
  BY Zenon DEF Endpoints!Next, Endpoints!WindowOver, Endpoints!Arrive, Endpoints!Denied,
     Endpoints!Evaluate, Endpoints!Release
<1>4. (policy <= states)'
  BY <1>3 DEF CounterTypes, LogInv, Endpoints!UpsertEndpointPolicy,
              Endpoints!DeleteEndpointPolicy
<1> QED BY <1>1, <1>2, <1>4 DEF LogInv

LEMMA PoliciesStep == PoliciesFit /\ (part = "policies" => PoliciesInv) /\ [Next]_vars
                        => (part = "policies" => PoliciesInv)'
<1> SUFFICES ASSUME PoliciesFit, part = "policies" => PoliciesInv, [Next]_vars,
                    part' = "policies"
             PROVE  PoliciesInv'
  OBVIOUS
<1>1. CASE Next
  <2>1. Endpoints!Next /\ PoliciesInv
    BY <1>1 DEF Next
  <2> QED BY <2>1, CounterTypesKept, LogKept, CountersKept DEF PoliciesInv
<1>2. CASE UNCHANGED vars
  BY <1>2 DEF vars, policyVars, PoliciesInv, CounterTypes, LogInv, RateInv, SlotInv, RunSet,
              Endpoints!At
<1> QED BY <1>1, <1>2

\* No slot of a policy is lost or given twice, no window lets too many pass and
\* the log keeps its length, for any requests, visitors and limits, however often
\* the policy is replaced under requests that run (gateway.go: evaluate,
\* UpsertEndpointPolicy).
THEOREM Limits == ASSUME IsFiniteSet(Callers), Names # {} PROVE Spec => []LimitsHold
<1>0. PoliciesFit
  BY ConstantsFit DEF ConstantsFit, PoliciesFit
<1>1. Init => (part = "policies" => PoliciesInv)
  BY <1>0, PoliciesInit DEF Init
<1>2. (part = "policies" => PoliciesInv) /\ [Next]_vars => (part = "policies" => PoliciesInv)'
  BY <1>0, PoliciesStep
<1>3. (part = "policies" => PoliciesInv) => LimitsHold
  <2> SUFFICES ASSUME part = "policies", PoliciesInv PROVE LimitsHold
    BY DEF LimitsHold
  <2>1. Endpoints!TypeOK
    BY DEF PoliciesInv, CounterTypes, LogInv, RequestRecord, Endpoints!TypeOK
  <2>2. Endpoints!LimitsHold
    <3>1. \A n, ip : Endpoints!Running(n, ip) = Cardinality(RunSet(n, ip))
      <4>1. \A S : Endpoints!Cardinality(S) = Cardinality(S)
        BY DEF Endpoints!Cardinality, Cardinality
      <4> QED BY <4>1 DEF Endpoints!Running, RunSet
    <3> QED BY <1>0, <3>1 DEF PoliciesInv, CounterTypes, RateInv, SlotInv,
               Endpoints!LimitsHold, PoliciesFit, Endpoints!LimitAssumption
  <2> QED BY <2>1, <2>2 DEF LimitsHold
<1> QED BY <1>1, <1>2, <1>3, PTL DEF Spec

-------------------------------------------------------------------------------
(* The access rules.                                                       *)

\* Between calls about an ID cache and store are the same and the log says so.
Settled(i) == rules[i] = rows[i] /\ (rules[i] # None <=> audited[i] = "create")
\* What a call about i has done by its next step.
Progress(i, c) ==
  CASE Access!At(c, "save") \/ Access!At(c, "rotate") -> Settled(i)
    [] Access!At(c, "cache") -> rows[i] = call[c].rule
    [] Access!At(c, "logCreate") -> rules[i] = rows[i] /\ rows[i] # None
    [] Access!At(c, "delete") -> rules[i] = None
    [] Access!At(c, "logDelete") -> rules[i] = None /\ rows[i] = None
    [] OTHER -> FALSE
CallsFit ==
  \A c \in Callers :
    /\ Access!At(c, "idle") <=> call[c].id = None
    /\ Access!At(c, "save") \/ Access!At(c, "cache") => call[c].rule # None
CallProgress ==
  \A i \in Flows \ split :
    /\ (\A c \in Callers : call[c].id # i) => Settled(i)
    /\ \A c \in Callers : call[c].id = i =>
         Progress(i, c) /\ \A d \in Callers : call[d].id = i => d = c
AccessInv == Access!TypeOK /\ CallsFit /\ CallProgress

LEMMA AccessConstants == None \notin Flows \cup Access!Rule /\ MaxVersion \in Nat \ {0}
BY ConstantsFit DEF ConstantsFit, Access!NoneAssumption, Access!PriorityAssumption

LEMMA AccessInit == Init => AccessInv
<1> SUFFICES ASSUME Init PROVE AccessInv
  OBVIOUS
<1> USE AccessConstants DEF Init, Access!Init, Access!Idle, Access!At
<1>1. Access!TypeOK
  <2>1. {rows, rules} \subseteq [Flows -> Access!Rule \cup {None}] /\ split \subseteq Flows
    OBVIOUS
  <2>2. keys \in [Flows -> 0 .. MaxVersion]
    OBVIOUS
  <2>3. audited \in [Flows -> {"none", "create", "delete"}]
    OBVIOUS
  <2>4. {late, torn} \subseteq BOOLEAN
    OBVIOUS
  <2>5. call \in [Callers -> [pc : {"idle", "save", "cache", "delete", "logCreate",
                                    "logDelete", "rotate"},
                              id : Flows \cup {None}, rule : Access!Rule \cup {None},
                              version : 0 .. MaxVersion]]
    OBVIOUS
  <2> QED BY <2>1, <2>2, <2>3, <2>4, <2>5 DEF Access!TypeOK
<1>2. CallsFit
  BY DEF CallsFit
<1>3. CallProgress
  BY DEF CallProgress, Settled
<1> QED BY <1>1, <1>2, <1>3 DEF AccessInv

LEMMA AccessStep == AccessInv /\ Access!Next => AccessInv'
<1> SUFFICES ASSUME AccessInv, Access!Next PROVE AccessInv'
  OBVIOUS
<1>n. Access!Next
  OBVIOUS
<1> USE AccessConstants DEF AccessInv, Access!TypeOK, CallsFit, CallProgress, Settled, Progress,
        Access!At, Access!Idle, Access!log, Access!Goto, Access!Return, Access!Begin
<1>1. ASSUME NEW c \in Callers, NEW i \in Flows, Access!RemoveRule(c, i) PROVE AccessInv'
  <2>1. Access!TypeOK'
    BY <1>1 DEF Access!RemoveRule
  <2>2. CallsFit'
    BY <1>1 DEF Access!RemoveRule
  <2>3. CallProgress'
    BY <1>1 DEF Access!RemoveRule
  <2> QED BY <2>1, <2>2, <2>3
<1>2. ASSUME NEW c \in Callers, NEW i \in Flows, Access!RotateKey(c, i) PROVE AccessInv'
  <2>1. Access!TypeOK'
    BY <1>2 DEF Access!RotateKey
  <2>2. CallsFit'
    BY <1>2 DEF Access!RotateKey
  <2>3. CallProgress'
    BY <1>2 DEF Access!RotateKey
  <2> QED BY <2>1, <2>2, <2>3
<1>3. ASSUME NEW c \in Callers, NEW i \in Flows, NEW rule \in Access!Rule,
             Access!AddRule(c, i, rule) PROVE AccessInv'
  <2>1. Access!TypeOK'
    BY <1>3 DEF Access!AddRule
  <2>2. CallsFit'
    BY <1>3 DEF Access!AddRule
  <2>3. CallProgress'
    BY <1>3 DEF Access!AddRule
  <2> QED BY <2>1, <2>2, <2>3
<1>4. ASSUME NEW c \in Callers, Access!SaveRow(c) PROVE AccessInv'
  <2>1. Access!TypeOK'
    BY SMTT(20), <1>4 DEF Access!SaveRow
  <2>2. CallsFit'
    BY <1>4 DEF Access!SaveRow
  <2>3. CallProgress'
    BY <1>4 DEF Access!SaveRow
  <2> QED BY <2>1, <2>2, <2>3
<1>5. ASSUME NEW c \in Callers, Access!CacheRule(c) PROVE AccessInv'
  <2>1. Access!TypeOK'
    BY <1>5 DEF Access!CacheRule
  <2>2. CallsFit'
    BY <1>5 DEF Access!CacheRule
  <2>3. CallProgress'
    BY <1>5 DEF Access!CacheRule
  <2> QED BY <2>1, <2>2, <2>3
<1>6. ASSUME NEW c \in Callers, Access!DeleteRow(c) PROVE AccessInv'
  <2>1. Access!TypeOK'
    BY <1>6 DEF Access!DeleteRow
  <2>2. CallsFit'
    BY <1>6 DEF Access!DeleteRow
  <2>3. CallProgress'
    BY SMTT(20), <1>6 DEF Access!DeleteRow
  <2> QED BY <2>1, <2>2, <2>3
<1>7. ASSUME NEW c \in Callers, Access!SaveRotated(c) PROVE AccessInv'
  <2>1. Access!TypeOK'
    BY <1>7 DEF Access!SaveRotated
  <2>2. CallsFit'
    BY <1>7 DEF Access!SaveRotated
  <2>3. CallProgress'
    BY <1>7 DEF Access!SaveRotated
  <2> QED BY <2>1, <2>2, <2>3
<1>8. ASSUME NEW c \in Callers, NEW action \in {"create", "delete"}, Access!Log(c, action) PROVE AccessInv'
  <2>1. Access!TypeOK'
    BY <1>8 DEF Access!Log
  <2>2. CallsFit'
    BY <1>8 DEF Access!Log
  <2>3. CallProgress'
    BY <1>8 DEF Access!Log
  <2> QED BY <2>1, <2>2, <2>3
<1>9. ASSUME NEW i \in Flows, NEW v \in 1 .. MaxVersion, Access!RegisterKey(i, v) PROVE AccessInv'
  <2>1. Access!TypeOK'
    BY <1>9 DEF Access!RegisterKey
  <2>2. CallsFit'
    BY <1>9 DEF Access!RegisterKey
  <2>3. CallProgress'
    BY <1>9 DEF Access!RegisterKey
  <2> QED BY <2>1, <2>2, <2>3
<1>10. ASSUME Access!Expire PROVE AccessInv'
  <2>1. Access!TypeOK'
    BY <1>10 DEF Access!Expire
  <2>2. CallsFit'
    BY <1>10 DEF Access!Expire
  <2>3. CallProgress'
    BY <1>10 DEF Access!Expire
  <2> QED BY <2>1, <2>2, <2>3
<1>11. ASSUME Access!CrashRestart PROVE AccessInv'
  <2>1. Access!TypeOK'
    <3>1. torn' \in BOOLEAN
      BY <1>11, Zenon DEF Access!CrashRestart
    <3>2. call' \in [Callers -> {Access!Idle}] /\ split' \subseteq Flows
          /\ rules' \in [Flows -> Access!Rule \cup {None}]
      BY <1>11 DEF Access!CrashRestart
    <3>3. UNCHANGED <<rows, late, keys, audited>>
      BY <1>11 DEF Access!CrashRestart
    <3> QED BY <3>1, <3>2, <3>3
  <2>2. CallsFit'
    BY <1>11 DEF Access!CrashRestart
  <2>3. CallProgress'
    BY <1>11 DEF Access!CrashRestart
  <2> QED BY <2>1, <2>2, <2>3
<1> QED BY <1>1, <1>2, <1>3, <1>4, <1>5, <1>6, <1>7, <1>8, <1>9, <1>10, <1>11, <1>n DEF Access!Next

\* The same rules decide alike.
LEMMA SameDecisions == ASSUME rules = rows
                       PROVE  \A a : Access!Evaluate(rules, a) = Access!Evaluate(rows, a)
OBVIOUS

\* Outside calls the rules in force are the stored ones and the log says which
\* exist, for any rules, priorities and handlers, whatever was restarted or failed
\* (controlplane: handleAddACL, handleDeleteACL, restoreRules).
THEOREM RulesAreStored == Spec => []RulesSurvive
<1>1. Init => (part = "access" => AccessInv)
  BY AccessInit
<1>2. (part = "access" => AccessInv) /\ [Next]_vars => (part = "access" => AccessInv)'
  <2> SUFFICES ASSUME part = "access" => AccessInv, [Next]_vars, part' = "access"
               PROVE  AccessInv'
    OBVIOUS
  <2>1. CASE Next
    BY <2>1, AccessStep DEF Next
  <2>2. CASE UNCHANGED vars
    BY <2>2 DEF vars, accessVars, AccessInv, Access!TypeOK, CallsFit, CallProgress, Settled,
                Progress, Access!At
  <2> QED BY <2>1, <2>2
<1>3. (part = "access" => AccessInv) => RulesSurvive
  <2> SUFFICES ASSUME AccessInv PROVE Access!TypeOK /\ Access!RulesSurvive
    BY DEF RulesSurvive
  <2>1. \A i \in Flows \ split : (\A c \in Callers : call[c].id # i) => Settled(i)
    BY DEF AccessInv, CallProgress
  <2>2. ASSUME split = {}, \A c \in Callers : Access!At(c, "idle") PROVE rules = rows
    <3>1. \A i \in Flows, c \in Callers : call[c].id # i
      BY <2>2, AccessConstants DEF AccessInv, CallsFit
    <3>2. \A i \in Flows : rules[i] = rows[i]
      BY <2>1, <2>2, <3>1 DEF Settled
    <3> QED BY <3>2 DEF AccessInv, Access!TypeOK
  <2> QED BY <2>1, <2>2, SameDecisions DEF AccessInv, Access!RulesSurvive, Settled
<1> QED BY <1>1, <1>2, <1>3, PTL DEF Spec

-------------------------------------------------------------------------------
(* The fast path of forwarding rules.                                      *)

\* The table holds what is planned of a list and nothing else.
Agree(list) ==
  \A p \in Names : kernel[p] = IF p \in Xdp!Wanted(list) THEN Xdp!ActionFor(list, p) ELSE None
CallTypes ==
  /\ xdpCall \in [Flows -> [pc : {"idle", "list", "sync", "undo", "last", "undone"},
                            rule : Xdp!Rules \cup {None}, list : Xdp!Lists]]
  /\ \A c \in Flows : xdpCall[c].pc \in {"list", "sync", "undone"} => xdpCall[c].rule \in Xdp!Rules
\* What is in the table is remembered, and in userspace nothing is.
KnownInv == /\ ~damaged => \A p \in Names \ known : kernel[p] = None
            /\ mode = "userspace" => known = {} /\ \A p \in Names : kernel[p] = None
\* Without an overlap there is one change, and its list is the present one.
ChangeInv ==
  ~xdpOverlapped =>
    /\ \A c, d \in Flows : ~Xdp!At(c, "idle") /\ ~Xdp!At(d, "idle") => c = d
    /\ \A c \in Flows : Xdp!At(c, "sync") \/ Xdp!At(c, "last") => xdpCall[c].list = sorted
AgreeInv ==
  mode = "kernel" /\ ~xdpOverlapped /\ ~damaged /\ (\A c \in Flows : Xdp!At(c, "idle"))
    => Agree(sorted)
XdpInv == Xdp!TypeOK /\ CallTypes /\ KnownInv /\ ChangeInv /\ AgreeInv

LEMMA XdpConstants ==
  MaxRules \in Nat /\ MaxKernel \in Nat /\ Every \notin Names /\ None \notin Flows
BY ConstantsFit DEF ConstantsFit, Xdp!RuleAssumption

\* A list within the bound is a sequence of rules.
LEMMA ListIsSeq ==
  ASSUME NEW l \in Xdp!Lists
  PROVE  /\ l \in Seq(Xdp!Rules) /\ Len(l) \in 0 .. MaxRules /\ DOMAIN l = 1 .. Len(l)
         /\ \A i \in 1 .. Len(l) : l[i] \in Xdp!Rules
<1>1. PICK n \in 0 .. MaxRules : l \in [1 .. n -> Xdp!Rules]
  BY DEF Xdp!Lists
<1>2. n \in Nat
  BY <1>1, XdpConstants
<1>3. l \in Seq(Xdp!Rules)
  BY <1>1, <1>2
<1>4. Len(l) = n
  BY <1>1, <1>2, <1>3
<1> QED BY <1>1, <1>2, <1>3, <1>4

\* What a sorted list may become is a list.
LEMMA SortedFits ==
  ASSUME sorted \in Xdp!Lists, NEW rule \in Xdp!Rules, NEW by \in Int,
         Len(sorted) + by <= MaxRules, NEW s \in Xdp!Sorted(rule, by)
  PROVE  s \in Xdp!Lists
<1> DEFINE n == Len(sorted) + by
           pool == {sorted[i] : i \in DOMAIN sorted} \cup {rule}
<1>1. sorted \in Seq(Xdp!Rules) /\ Len(sorted) \in Nat /\ DOMAIN sorted = 1 .. Len(sorted)
      /\ \A i \in 1 .. Len(sorted) : sorted[i] \in Xdp!Rules
  BY ListIsSeq, XdpConstants
<1>2. pool \subseteq Xdp!Rules
  BY <1>1
<1>3. s \in [1 .. n -> pool] /\ Len(s) = n
  BY DEF Xdp!Sorted, Xdp!Orders
<1>4. s \in [1 .. n -> Xdp!Rules]
  BY <1>2, <1>3
<1>5. CASE n < 0
  <2>1. 1 .. n = 1 .. 0
    BY <1>1, <1>5
  <2>2. s \in [1 .. 0 -> Xdp!Rules]
    BY <1>4, <2>1
  <2> QED BY <2>2, XdpConstants DEF Xdp!Lists
<1>6. CASE n >= 0
  <2>1. n \in 0 .. MaxRules
    BY <1>1, <1>6, XdpConstants
  <2> QED BY <1>4, <2>1 DEF Xdp!Lists
<1> QED BY <1>1, <1>5, <1>6

\* A table that agrees with the list answers for a packet as the list does.
LEMMA AgreeMatches ==
  ASSUME NEW list \in Xdp!Lists, Agree(list), NEW k \in Xdp!Packets, kernel[k.port] # None
  PROVE  kernel[k.port] = Xdp!MatchIn(list, k)
<1> DEFINE p == k.port
           i == CHOOSE j \in Xdp!Plan(list) : list[j].port = p
<1>1. p \in Names /\ p # Every
  BY XdpConstants DEF Xdp!Packets
<1>2. p \in Xdp!Wanted(list) /\ kernel[p] = list[i].action
  BY <1>1 DEF Agree, Xdp!ActionFor
<1>3. i \in Xdp!Plan(list) /\ list[i].port = p
  BY <1>2 DEF Xdp!Wanted
<1>4. DOMAIN list = 1 .. Len(list) /\ Len(list) \in Nat
  BY ListIsSeq, XdpConstants
<1> DEFINE hits == {j \in DOMAIN list : Xdp!Matches(list[j], k)}
<1>5. i \in hits
  BY <1>1, <1>3 DEF Xdp!Plan, Xdp!Matches, Xdp!Encodable
<1>6. \A j \in hits : ~(j < i)
  <2> SUFFICES ASSUME NEW j \in hits, j < i PROVE FALSE
    OBVIOUS
  <2>1. ~Xdp!BlockedBy(list[j], p)
    BY <1>3, <1>4 DEF Xdp!Plan
  <2>2. list[j].port \in {Every, p}
    BY DEF Xdp!Matches
  <2> QED BY <2>1, <2>2 DEF Xdp!BlockedBy, Xdp!Encodable, Xdp!MayMatchKey
<1>7. \A h \in hits : (\A j \in hits : h <= j) <=> h = i
  <2>1. hits \subseteq Nat
    BY <1>4
  <2> HIDE DEF hits, i
  <2> QED BY <1>5, <1>6, <2>1
<1>8. (CHOOSE h \in hits : \A j \in hits : h <= j) = i
  BY <1>5, <1>7
<1> QED BY <1>2, <1>5, <1>8 DEF Xdp!MatchIn

\* A synchronisation that is done makes the table agree.
LEMMA RebuiltAgrees ==
  ASSUME \A p \in Names \ known : kernel[p] = None, kernel' = Xdp!Rebuilt(sorted),
         sorted' = sorted
  PROVE  Agree(sorted)'
BY DEF Agree, Xdp!Rebuilt, Xdp!Wanted, Xdp!ActionFor, Xdp!Plan, Xdp!Encodable, Xdp!BlockedBy,
       Xdp!MayMatchKey

LEMMA LoadedAgrees ==
  ASSUME sorted' = sorted,
         kernel' = [p \in Names |-> IF p \in Xdp!Wanted(sorted)
                                    THEN Xdp!ActionFor(sorted, p) ELSE None]
  PROVE  Agree(sorted)'
BY DEF Agree, Xdp!Wanted, Xdp!ActionFor, Xdp!Plan, Xdp!Encodable, Xdp!BlockedBy,
       Xdp!MayMatchKey

LEMMA RebuiltForgets ==
  ASSUME NEW list, \A p \in Names \ known : kernel[p] = None
  PROVE  \A p \in Names \ Xdp!Wanted(list) : Xdp!Rebuilt(list)[p] = None
BY DEF Xdp!Rebuilt

LEMMA AgreeKept ==
  ASSUME kernel' = kernel, sorted' = sorted PROVE Agree(sorted)' <=> Agree(sorted)
BY DEF Agree, Xdp!Wanted, Xdp!ActionFor, Xdp!Plan, Xdp!Encodable, Xdp!BlockedBy,
       Xdp!MayMatchKey

LEMMA PlannedActions ==
  ASSUME NEW list \in Xdp!Lists
  PROVE  /\ Xdp!Wanted(list) \subseteq Names
         /\ \A p \in Xdp!Wanted(list) : Xdp!ActionFor(list, p) \in {"drop", "pass"}
<1>1. \A i \in Xdp!Plan(list) : list[i] \in Xdp!Rules /\ list[i].port # Every
  BY ListIsSeq DEF Xdp!Plan, Xdp!Encodable
<1>2. \A i \in Xdp!Plan(list) : list[i].port \in Names /\ list[i].action \in {"drop", "pass"}
  BY <1>1 DEF Xdp!Rules
<1> QED BY <1>2 DEF Xdp!Wanted, Xdp!ActionFor

\* What a synchronisation may do to the table.
LEMMA SyncDoes ==
  ASSUME Xdp!TypeOK, NEW list \in Xdp!Lists, NEW ok \in BOOLEAN, Xdp!Sync(list, ok)
  PROVE  /\ kernel' \in [Names -> {"drop", "pass", None}] /\ known' \subseteq Names
         /\ mode = "userspace" => ok /\ kernel' = kernel /\ known' = known
         /\ ~ok => known' = known
         /\ ~ok /\ ~Xdp!Fits(list) => kernel' = kernel
         /\ ok /\ mode = "kernel" => /\ kernel' = Xdp!Rebuilt(list)
                                    /\ known' = Xdp!Wanted(list)
<1>1. Xdp!Rebuilt(list) \in [Names -> {"drop", "pass", None}]
  BY PlannedActions DEF Xdp!Rebuilt, Xdp!TypeOK
<1>2. CASE mode # "kernel" \/ ~Xdp!Fits(list)
  <2>1. ok = (mode # "kernel") /\ UNCHANGED <<kernel, known>>
    BY <1>2, Zenon DEF Xdp!Sync
  <2> QED BY <1>2, <2>1 DEF Xdp!TypeOK
<1>3. CASE mode = "kernel" /\ Xdp!Fits(list)
  <2>1. CASE ok /\ kernel' = Xdp!Rebuilt(list) /\ known' = Xdp!Wanted(list)
    BY <1>1, <1>3, <2>1, PlannedActions
  <2>2. ASSUME ~ok, UNCHANGED known,
               NEW some, kernel' = [p \in Names |-> IF p \in some THEN Xdp!Rebuilt(list)[p]
                                                   ELSE kernel[p]]
        PROVE  kernel' \in [Names -> {"drop", "pass", None}]
    BY <1>1, <2>2 DEF Xdp!TypeOK
  <2>3. CASE ~ok /\ UNCHANGED known /\ kernel' \in [Names -> {"drop", "pass", None}]
    BY <1>3, <2>3 DEF Xdp!TypeOK
  <2>4. \/ ok /\ kernel' = Xdp!Rebuilt(list) /\ known' = Xdp!Wanted(list)
        \/ /\ ~ok /\ UNCHANGED known
           /\ \E some : kernel' = [p \in Names |-> IF p \in some THEN Xdp!Rebuilt(list)[p]
                                                  ELSE kernel[p]]
    BY <1>3, Zenon DEF Xdp!Sync
  <2> QED BY <2>1, <2>2, <2>3, <2>4
<1> QED BY <1>2, <1>3 DEF Xdp!TypeOK

\* A record that is changed, field by field.
LEMMA UndoneCall ==
  ASSUME CallTypes, NEW c \in Flows
  PROVE  [xdpCall[c] EXCEPT !.pc = "undone"]
           = [pc |-> "undone", rule |-> xdpCall[c].rule, list |-> xdpCall[c].list]
BY DEF CallTypes

LEMMA XdpInit == Init => XdpInv
<1> SUFFICES ASSUME Init PROVE XdpInv
  OBVIOUS
<1> USE XdpConstants DEF Init, Xdp!Init, Xdp!Idle, Xdp!At
<1>0. << >> \in Xdp!Lists
  <2>1. << >> \in [1 .. 0 -> Xdp!Rules]
    OBVIOUS
  <2> QED BY <2>1 DEF Xdp!Lists
<1>1. CallTypes
  BY <1>0 DEF CallTypes
<1>2. Xdp!TypeOK
  BY <1>0 DEF Xdp!TypeOK
<1>3. KnownInv
  BY DEF KnownInv
<1>4. ChangeInv
  BY DEF ChangeInv
<1>5. AgreeInv
  BY DEF AgreeInv
<1> QED BY <1>1, <1>2, <1>3, <1>4, <1>5 DEF XdpInv

LEMMA XdpStep == XdpInv /\ Xdp!Next => XdpInv'
<1> SUFFICES ASSUME XdpInv, Xdp!Next PROVE XdpInv'
  OBVIOUS
<1>n. Xdp!Next
  OBVIOUS
<1>e. << >> \in Xdp!Lists
  <2>1. << >> \in [1 .. 0 -> Xdp!Rules]
    OBVIOUS
  <2> QED BY <2>1, XdpConstants DEF Xdp!Lists
<1>l. sorted \in Xdp!Lists /\ Len(sorted) \in 0 .. MaxRules
  BY ListIsSeq DEF XdpInv, Xdp!TypeOK
<1> USE XdpConstants DEF XdpInv, CallTypes, Xdp!TypeOK, KnownInv, ChangeInv, AgreeInv, Xdp!At,
        Xdp!Idle, Xdp!table, Xdp!Begin, Xdp!Return
<1>1. ASSUME NEW c \in Flows, NEW rule \in Xdp!Rules, Xdp!AddRule(c, rule) PROVE XdpInv'
  <2>l. sorted' \in Xdp!Lists
    BY <1>1, <1>l, SortedFits DEF Xdp!AddRule
  <2>1. CallTypes'
    BY <1>1, <1>e DEF Xdp!AddRule
  <2>2. Xdp!TypeOK'
    BY <1>1, <1>e, <2>l DEF Xdp!AddRule
  <2>3. KnownInv'
    BY <1>1 DEF Xdp!AddRule
  <2>4. ChangeInv'
    BY <1>1 DEF Xdp!AddRule
  <2>5. AgreeInv'
    BY <1>1 DEF Xdp!AddRule
  <2> QED BY <2>1, <2>2, <2>3, <2>4, <2>5
<1>2. ASSUME NEW c \in Flows, NEW i \in 1 .. MaxRules,
             Xdp!RemoveRule(c, i) PROVE XdpInv'
  <2>l. sorted' \in Xdp!Lists
    <3>1. sorted[i] \in Xdp!Rules
      BY <1>2, <1>l, ListIsSeq DEF Xdp!RemoveRule
    <3>2. Len(sorted) + (0 - 1) <= MaxRules
      BY <1>l
    <3>3. sorted' \in Xdp!Sorted(sorted[i], 0 - 1)
      BY <1>2 DEF Xdp!RemoveRule
    <3> QED BY <1>l, <3>1, <3>2, <3>3, SortedFits
  <2>1. CallTypes'
    BY <1>2, <1>e DEF Xdp!RemoveRule
  <2>2. Xdp!TypeOK'
    BY <1>2, <1>e, <2>l DEF Xdp!RemoveRule
  <2>3. KnownInv'
    BY <1>2 DEF Xdp!RemoveRule
  <2>4. ChangeInv'
    BY <1>2 DEF Xdp!RemoveRule
  <2>5. AgreeInv'
    BY <1>2 DEF Xdp!RemoveRule
  <2> QED BY <2>1, <2>2, <2>3, <2>4, <2>5
<1>3. ASSUME NEW c \in Flows, Xdp!ListRules(c) PROVE XdpInv'
  <2>0. xdpCall' = [xdpCall EXCEPT ![c] =
            [pc |-> IF xdpCall[c].pc = "list" THEN "sync" ELSE "last",
             rule |-> xdpCall[c].rule, list |-> sorted]]
    BY <1>3 DEF Xdp!ListRules
  <2>1. CallTypes'
    BY <1>3, <2>0 DEF Xdp!ListRules
  <2>2. Xdp!TypeOK'
    BY <1>3 DEF Xdp!ListRules
  <2>3. KnownInv'
    BY <1>3 DEF Xdp!ListRules
  <2>4. ChangeInv'
    BY <1>3 DEF Xdp!ListRules
  <2>5. AgreeInv'
    BY <1>3 DEF Xdp!ListRules
  <2> QED BY <2>1, <2>2, <2>3, <2>4, <2>5
<1>4. ASSUME NEW c \in Flows, Xdp!Rollback(c) PROVE XdpInv'
  <2>l. sorted' \in Xdp!Lists
    <3>1. xdpCall[c].rule \in Xdp!Rules
      BY <1>4 DEF Xdp!Rollback
    <3> QED BY <1>4, <1>l, <3>1, SortedFits DEF Xdp!Rollback
  <2>1. CallTypes'
    BY <1>4 DEF Xdp!Rollback
  <2>2. Xdp!TypeOK'
    BY <1>4, <2>l DEF Xdp!Rollback
  <2>3. KnownInv'
    BY <1>4 DEF Xdp!Rollback
  <2>4. ChangeInv'
    BY <1>4 DEF Xdp!Rollback
  <2>5. AgreeInv'
    BY <1>4 DEF Xdp!Rollback
  <2> QED BY <2>1, <2>2, <2>3, <2>4, <2>5
<1>5. ASSUME NEW c \in Flows, NEW ok \in BOOLEAN,
             \/ Xdp!SyncAfterAdd(c, ok)
             \/ /\ Xdp!SyncAfterRemove(c) /\ Xdp!Sync(xdpCall[c].list, ok)
                /\ damaged' = IF ok THEN damaged ELSE TRUE
      PROVE  XdpInv'
  <2> DEFINE list == xdpCall[c].list
  <2>1. /\ list \in Xdp!Lists /\ Xdp!Sync(list, ok)
        /\ sorted' = sorted /\ mode' = mode /\ lock' = lock /\ stats' = stats
        /\ xdpOverlapped' = xdpOverlapped
    BY <1>5 DEF Xdp!SyncAfterAdd, Xdp!SyncAfterRemove
  <2>2. /\ kernel' \in [Names -> {"drop", "pass", None}] /\ known' \subseteq Names
        /\ mode = "userspace" => ok /\ kernel' = kernel /\ known' = known
        /\ ~ok => known' = known
        /\ ~ok /\ ~Xdp!Fits(list) => kernel' = kernel
        /\ ok /\ mode = "kernel" => /\ kernel' = Xdp!Rebuilt(list)
                                   /\ known' = Xdp!Wanted(list)
    BY <2>1, SyncDoes
  <2>3. /\ xdpCall' \in [Flows -> [pc : {"idle", "list", "sync", "undo", "last", "undone"},
                                  rule : Xdp!Rules \cup {None}, list : Xdp!Lists]]
        /\ \A d \in Flows : d # c => xdpCall'[d] = xdpCall[d]
        /\ xdpCall'[c].pc \in {"idle", "undone"}
        /\ xdpCall'[c].pc = "undone" <=> Xdp!SyncAfterAdd(c, ok) /\ ~ok
        /\ xdpCall'[c].pc = "undone" => xdpCall'[c].rule = xdpCall[c].rule
        /\ xdpCall[c].pc \in {"sync", "last"}
        /\ xdpCall[c].pc = "sync" <=> Xdp!SyncAfterAdd(c, ok)
    <3>1. CASE Xdp!SyncAfterAdd(c, ok) /\ ~ok
      <4>1. xdpCall' = [xdpCall EXCEPT ![c] = [pc |-> "undone", rule |-> xdpCall[c].rule,
                                               list |-> xdpCall[c].list]]
        BY <3>1, UndoneCall DEF Xdp!SyncAfterAdd
      <4> QED BY <3>1, <4>1 DEF Xdp!SyncAfterAdd
    <3>2. CASE Xdp!SyncAfterAdd(c, ok) /\ ok
      BY <1>e, <3>2 DEF Xdp!SyncAfterAdd
    <3>3. CASE Xdp!SyncAfterRemove(c)
      BY <1>e, <3>3 DEF Xdp!SyncAfterAdd, Xdp!SyncAfterRemove
    <3> QED BY <1>5, <3>1, <3>2, <3>3
  <2>4. damaged' \in BOOLEAN /\ (~damaged' => ~damaged /\ (ok \/ ~Xdp!Fits(list)))
        /\ (~damaged' /\ ~ok => Xdp!SyncAfterAdd(c, ok))
    <3>1. CASE Xdp!SyncAfterAdd(c, ok)
      BY <3>1 DEF Xdp!SyncAfterAdd
    <3>2. CASE damaged' = IF ok THEN damaged ELSE TRUE
      BY <3>2
    <3> QED BY <1>5, <3>1, <3>2
  <2>5. CallTypes'
    BY <2>3
  <2>6. Xdp!TypeOK'
    BY <2>1, <2>2, <2>3, <2>4
  <2>7. KnownInv'
    <3>1. CASE ~damaged' /\ ok /\ mode = "kernel"
      <4>1. \A p \in Names \ Xdp!Wanted(list) : Xdp!Rebuilt(list)[p] = None
        BY <2>4, <3>1, RebuiltForgets
      <4> QED BY <2>1, <2>2, <3>1, <4>1
    <3> QED BY <2>1, <2>2, <2>4, <3>1
  <2>8. ChangeInv'
    BY <2>1, <2>3
  <2>9. AgreeInv'
    <3> SUFFICES ASSUME mode = "kernel", ~xdpOverlapped, ~damaged',
                        \A d \in Flows : xdpCall'[d].pc = "idle"
                 PROVE  Agree(sorted)'
      BY <2>1
    <3>1. ok /\ list = sorted
      BY <2>3, <2>4
    <3>2. \A p \in Names \ known : kernel[p] = None
      BY <2>4
    <3>3. kernel' = Xdp!Rebuilt(sorted) /\ sorted' = sorted
      BY <2>1, <2>2, <3>1
    <3> QED BY <3>2, <3>3, RebuiltAgrees
  <2> QED BY <2>5, <2>6, <2>7, <2>8, <2>9
<1>6. ASSUME NEW c \in Flows, Xdp!SyncAfterRemove(c) PROVE XdpInv'
  <2>1. PICK ok \in BOOLEAN : Xdp!Sync(xdpCall[c].list, ok) /\ damaged' = IF ok THEN damaged ELSE TRUE
    BY <1>6 DEF Xdp!SyncAfterRemove
  <2> QED BY <1>5, <1>6, <2>1
<1>7. ASSUME Xdp!Load PROVE XdpInv'
  <2>1. CallTypes'
    BY <1>7 DEF Xdp!Load
  <2>2. Xdp!TypeOK'
    BY <1>7, PlannedActions DEF Xdp!Load
  <2>3. KnownInv'
    BY <1>7 DEF Xdp!Load
  <2>4. ChangeInv'
    BY <1>7 DEF Xdp!Load
  <2>5. AgreeInv'
    <3>1. CASE mode' = "userspace"
      BY <3>1
    <3>2. CASE /\ sorted' = sorted
               /\ kernel' = [p \in Names |-> IF p \in Xdp!Wanted(sorted)
                                             THEN Xdp!ActionFor(sorted, p) ELSE None]
      BY <3>2, LoadedAgrees
    <3> QED BY <1>7, <3>1, <3>2 DEF Xdp!Load
  <2> QED BY <2>1, <2>2, <2>3, <2>4, <2>5
<1>8. ASSUME Xdp!StartStats PROVE XdpInv'
  <2>1. CallTypes'
    BY <1>8 DEF Xdp!StartStats
  <2>2. Xdp!TypeOK'
    BY <1>8 DEF Xdp!StartStats
  <2>3. KnownInv'
    BY <1>8 DEF Xdp!StartStats
  <2>4. ChangeInv'
    BY <1>8 DEF Xdp!StartStats
  <2>5. AgreeInv'
    BY <1>8, AgreeKept DEF Xdp!StartStats
  <2> QED BY <2>1, <2>2, <2>3, <2>4, <2>5
<1>9. ASSUME Xdp!Tick PROVE XdpInv'
  <2>1. CallTypes'
    BY <1>9 DEF Xdp!Tick
  <2>2. Xdp!TypeOK'
    BY <1>9 DEF Xdp!Tick
  <2>3. KnownInv'
    BY <1>9 DEF Xdp!Tick
  <2>4. ChangeInv'
    BY <1>9 DEF Xdp!Tick
  <2>5. AgreeInv'
    BY <1>9, AgreeKept DEF Xdp!Tick
  <2> QED BY <2>1, <2>2, <2>3, <2>4, <2>5
<1>10. ASSUME Xdp!Stats PROVE XdpInv'
  <2>1. CallTypes'
    BY <1>10 DEF Xdp!Stats
  <2>2. Xdp!TypeOK'
    BY <1>10 DEF Xdp!Stats
  <2>3. KnownInv'
    BY <1>10 DEF Xdp!Stats
  <2>4. ChangeInv'
    BY <1>10 DEF Xdp!Stats
  <2>5. AgreeInv'
    BY <1>10, AgreeKept DEF Xdp!Stats
  <2> QED BY <2>1, <2>2, <2>3, <2>4, <2>5
<1>11. ASSUME Xdp!Unload PROVE XdpInv'
  <2>1. CallTypes'
    BY <1>11 DEF Xdp!Unload
  <2>2. Xdp!TypeOK'
    BY <1>11 DEF Xdp!Unload
  <2>3. KnownInv'
    BY <1>11 DEF Xdp!Unload
  <2>4. ChangeInv'
    BY <1>11 DEF Xdp!Unload
  <2>5. AgreeInv'
    BY <1>11, AgreeKept DEF Xdp!Unload
  <2> QED BY <2>1, <2>2, <2>3, <2>4, <2>5
<1>12. ASSUME Xdp!StatsStop PROVE XdpInv'
  <2>1. CallTypes'
    BY <1>12 DEF Xdp!StatsStop
  <2>2. Xdp!TypeOK'
    BY <1>12 DEF Xdp!StatsStop
  <2>3. KnownInv'
    BY <1>12 DEF Xdp!StatsStop
  <2>4. ChangeInv'
    BY <1>12 DEF Xdp!StatsStop
  <2>5. AgreeInv'
    BY <1>12, AgreeKept DEF Xdp!StatsStop
  <2> QED BY <2>1, <2>2, <2>3, <2>4, <2>5
<1>13. ASSUME Xdp!Unloaded PROVE XdpInv'
  <2>1. CallTypes'
    BY <1>13 DEF Xdp!Unloaded
  <2>2. Xdp!TypeOK'
    BY <1>13 DEF Xdp!Unloaded
  <2>3. KnownInv'
    BY <1>13 DEF Xdp!Unloaded
  <2>4. ChangeInv'
    BY <1>13 DEF Xdp!Unloaded
  <2>5. AgreeInv'
    BY <1>13 DEF Xdp!Unloaded
  <2> QED BY <2>1, <2>2, <2>3, <2>4, <2>5
<1>14. ASSUME NEW c \in Flows, NEW ok \in BOOLEAN, Xdp!SyncAfterAdd(c, ok) PROVE XdpInv'
  BY <1>5, <1>14
<1> QED BY <1>1, <1>2, <1>3, <1>4, <1>6, <1>7, <1>8, <1>9, <1>10, <1>11, <1>12, <1>13, <1>14,
        <1>n DEF Xdp!Next

-------------------------------------------------------------------------------
(* Traffic shaping.                                                        *)

\* What the proof assumes of the constants: there are flows, and a largest rate.
ShapingFits == Flows # {} /\ \E r \in Rates : \A s \in Rates : s <= r

FlowCallsInv ==
  \A c \in Callers :
    /\ flowCall[c].pc \in {"shape", "set"} => flowCall[c].rate \in Rates
    /\ flowCall[c].pc # "set" => flowCall[c].found = "none"
    /\ flowCall[c].found = "found" => bucket[flowCall[c].flow] # None
\* About a flow that no call raced for there is one SetFlowLimit at most, and what
\* it found is still so.
LimitInv ==
  \A f \in Flows \ flowOverlapped :
    /\ asked[f] # None => bucket[f] # None /\ bucket[f].rate = asked[f]
    /\ \A c \in Callers : Shaping!At(c, "set") /\ flowCall[c].flow = f =>
         /\ flowCall[c].found = IF bucket[f] = None THEN "none" ELSE "found"
         /\ \A d \in Callers : Shaping!At(d, "set") /\ flowCall[d].flow = f => d = c
QueueInv == counters = Len(queue) /\ Len(queue) <= QueueSize
ShapingInv == Shaping!TypeOK /\ FlowCallsInv /\ LimitInv /\ QueueInv

LEMMA ShapingConstants ==
  /\ Rates \subseteq Nat \ {0} /\ Classes \subseteq Nat /\ 0 \in Classes
  /\ QueueSize \in Nat \ {0} /\ None \notin [rate : Nat, tokens : Nat]
BY ConstantsFit DEF ConstantsFit, Shaping!RateAssumption, Shaping!NoneAssumption

LEMMA LargestRate ==
  ASSUME ShapingFits
  PROVE  Shaping!MaxRate \in Rates /\ \A r \in Rates : r <= Shaping!MaxRate
BY DEF ShapingFits, Shaping!MaxRate

\* What the steps make of buckets are buckets.
LEMMA BucketFacts ==
  ASSUME ShapingFits
  PROVE  /\ None \notin Shaping!Bucket
         /\ \A b \in Shaping!Bucket : b.rate \in Rates
         /\ \A r \in Rates :
              /\ [rate |-> r, tokens |-> Shaping!Burst(r)] \in Shaping!Bucket
              /\ \A b \in Shaping!Bucket : [rate |-> r, tokens |-> b.tokens] \in Shaping!Bucket
         /\ \A b \in Shaping!Bucket :
              /\ b.tokens > 0 => [rate |-> b.rate, tokens |-> b.tokens - 1] \in Shaping!Bucket
              /\ [rate |-> b.rate, tokens |->
                    IF b.tokens + b.rate > Shaping!Burst(b.rate) THEN Shaping!Burst(b.rate)
                    ELSE b.tokens + b.rate] \in Shaping!Bucket
<1>1. /\ Shaping!MaxRate \in Nat /\ Rates \subseteq Nat
      /\ \A r \in Rates : r <= Shaping!MaxRate
  BY ShapingConstants, LargestRate
<1>2. \A r \in Rates : Shaping!Burst(r) \in 0 .. Shaping!Burst(Shaping!MaxRate)
  BY <1>1 DEF Shaping!Burst
<1>3. \A b \in Shaping!Bucket : b.rate \in Rates /\ b.tokens \in Nat
  BY DEF Shaping!Bucket
<1>4. None \notin Shaping!Bucket
  <2>1. 0 .. Shaping!Burst(Shaping!MaxRate) \subseteq Nat
    BY <1>1
  <2>2. Shaping!Bucket \subseteq [rate : Nat, tokens : Nat]
    BY <1>1, <2>1 DEF Shaping!Bucket
  <2> QED BY <2>2, ShapingConstants
<1>5. \A r \in Rates, t \in 0 .. Shaping!Burst(Shaping!MaxRate) :
        [rate |-> r, tokens |-> t] \in Shaping!Bucket
  BY DEF Shaping!Bucket
<1>6. \A b \in Shaping!Bucket : b.tokens \in 0 .. Shaping!Burst(Shaping!MaxRate)
  BY DEF Shaping!Bucket
<1>7. Shaping!Burst(Shaping!MaxRate) \in Nat
  BY <1>1 DEF Shaping!Burst
<1>8. \A b \in Shaping!Bucket :
        b.tokens > 0 => b.tokens - 1 \in 0 .. Shaping!Burst(Shaping!MaxRate)
  BY <1>6, <1>7
<1>9. \A b \in Shaping!Bucket :
        (IF b.tokens + b.rate > Shaping!Burst(b.rate) THEN Shaping!Burst(b.rate)
         ELSE b.tokens + b.rate) \in 0 .. Shaping!Burst(Shaping!MaxRate)
  <2> SUFFICES ASSUME NEW b \in Shaping!Bucket
               PROVE  (IF b.tokens + b.rate > Shaping!Burst(b.rate) THEN Shaping!Burst(b.rate)
                       ELSE b.tokens + b.rate) \in 0 .. Shaping!Burst(Shaping!MaxRate)
    OBVIOUS
  <2>1. b.rate \in Nat /\ b.tokens \in Nat
        /\ Shaping!Burst(b.rate) \in 0 .. Shaping!Burst(Shaping!MaxRate)
    BY <1>1, <1>2, <1>3
  <2> QED BY <2>1, <1>7
<1> QED BY <1>2, <1>3, <1>4, <1>5, <1>6, <1>8, <1>9

LEMMA BucketForFits ==
  ASSUME ShapingFits, bucket \in [Flows -> Shaping!Bucket \cup {None}],
         NEW f \in Flows, NEW r \in Rates
  PROVE  /\ Shaping!BucketFor(f, r) \in Shaping!Bucket
         /\ bucket[f] # None => Shaping!BucketFor(f, r) = bucket[f]
         /\ bucket[f] = None => Shaping!BucketFor(f, r).rate = r
BY BucketFacts DEF Shaping!BucketFor

LEMMA IdleFlowCall ==
  ASSUME ShapingFits
  PROVE  /\ Shaping!Idle \in [pc : {"idle", "shape", "push", "set"}, flow : Flows,
                              class : Classes, rate : Shaping!Limits,
                              found : {"none", "found", "gone"}]
         /\ Shaping!Idle.pc = "idle" /\ Shaping!Idle.found = "none"
<1>1. (CHOOSE f \in Flows : TRUE) \in Flows
  BY DEF ShapingFits
<1> QED BY <1>1, ShapingConstants DEF Shaping!Idle, Shaping!Limits

\* Taking one packet out leaves the others.
LEMMA DequeueTakesOne ==
  ASSUME NEW q \in Seq(Shaping!Packet), NEW i \in 1 .. Len(q)
  PROVE  /\ SubSeq(q, 1, i - 1) \o SubSeq(q, i + 1, Len(q)) \in Seq(Shaping!Packet)
         /\ Len(SubSeq(q, 1, i - 1) \o SubSeq(q, i + 1, Len(q))) = Len(q) - 1
<1>1. SubSeq(q, 1, i - 1) \in Seq(Shaping!Packet) /\ Len(SubSeq(q, 1, i - 1)) = i - 1
  OBVIOUS
<1>2. /\ SubSeq(q, i + 1, Len(q)) \in Seq(Shaping!Packet)
      /\ Len(SubSeq(q, i + 1, Len(q))) = Len(q) - i
  OBVIOUS
<1>3. \A s, t \in Seq(Shaping!Packet) : /\ s \o t \in Seq(Shaping!Packet)
                                        /\ Len(s \o t) = Len(s) + Len(t)
  OBVIOUS
<1>4. (i - 1) + (Len(q) - i) = Len(q) - 1 /\ Len(q) \in Nat
  OBVIOUS
<1> QED BY <1>1, <1>2, <1>3, <1>4, Zenon

\* A call that goes on to its push, or whose bucket is removed, is a call.
FlowCalls == [pc : {"idle", "shape", "push", "set"}, flow : Flows, class : Classes,
              rate : Shaping!Limits, found : {"none", "found", "gone"}]
LEMMA CallChanges ==
  ASSUME NEW k \in FlowCalls
  PROVE  /\ [k EXCEPT !.pc = "push"] \in FlowCalls
         /\ [k EXCEPT !.pc = "push"].pc = "push"
         /\ [k EXCEPT !.pc = "push"].found = k.found
         /\ [k EXCEPT !.found = "gone"] \in FlowCalls
         /\ [k EXCEPT !.found = "gone"].found = "gone"
         /\ [k EXCEPT !.found = "gone"].pc = k.pc
         /\ [k EXCEPT !.found = "gone"].flow = k.flow
         /\ [k EXCEPT !.found = "gone"].rate = k.rate
BY DEF FlowCalls

LEMMA PacketPushed ==
  ASSUME queue \in Seq(Shaping!Packet), NEW k \in FlowCalls
  PROVE  LET p == [flow |-> k.flow, class |-> k.class]
         IN Append(queue, p) \in Seq(Shaping!Packet) /\ Len(Append(queue, p)) = Len(queue) + 1
<1> DEFINE p == [flow |-> k.flow, class |-> k.class]
<1>1. p \in Shaping!Packet
  BY DEF FlowCalls, Shaping!Packet
<1> HIDE DEF p
<1>2. Append(queue, p) \in Seq(Shaping!Packet) /\ Len(Append(queue, p)) = Len(queue) + 1
  BY <1>1
<1> QED BY <1>2 DEF p

LEMMA ShapingInit == ShapingFits /\ Init => ShapingInv
<1> SUFFICES ASSUME ShapingFits, Init PROVE ShapingInv
  OBVIOUS
<1> USE ShapingConstants, IdleFlowCall DEF Init, Shaping!Init, Shaping!At
<1>1. << >> \in Seq(Shaping!Packet) /\ Len(<< >>) = 0
  OBVIOUS
<1>2. Shaping!TypeOK
  BY <1>1 DEF Shaping!TypeOK
<1>3. FlowCallsInv
  BY DEF FlowCallsInv
<1>4. LimitInv
  BY DEF LimitInv
<1>5. QueueInv
  BY <1>1 DEF QueueInv
<1> QED BY <1>2, <1>3, <1>4, <1>5 DEF ShapingInv

LEMMA ShapingStep == ShapingFits /\ ShapingInv /\ Shaping!Next => ShapingInv'
<1> SUFFICES ASSUME ShapingFits, ShapingInv, Shaping!Next PROVE ShapingInv'
  OBVIOUS
<1>n. Shaping!Next
  OBVIOUS
<1>m. None \notin Shaping!Bucket /\ \A b \in Shaping!Bucket : b.rate \in Rates
  BY BucketFacts
<1>i. /\ Shaping!Idle \in [pc : {"idle", "shape", "push", "set"}, flow : Flows,
                           class : Classes, rate : Shaping!Limits,
                           found : {"none", "found", "gone"}]
      /\ Shaping!Idle.pc = "idle" /\ Shaping!Idle.found = "none"
  BY IdleFlowCall
<1>c. Rates \subseteq Nat \ {0} /\ 0 \in Classes /\ QueueSize \in Nat \ {0}
  BY ShapingConstants
<1> USE <1>m, <1>i, <1>c DEF ShapingInv, Shaping!TypeOK, FlowCallsInv, LimitInv, QueueInv,
        Shaping!At, Shaping!Limits, Shaping!Racing
<1>1. ASSUME NEW i \in Flows, Shaping!DropRule(i) PROVE ShapingInv'
  <2>1. Shaping!TypeOK'
    BY <1>1 DEF Shaping!DropRule
  <2>2. FlowCallsInv'
    BY <1>1 DEF Shaping!DropRule
  <2>3. LimitInv'
    BY <1>1 DEF Shaping!DropRule
  <2>4. QueueInv'
    BY <1>1 DEF Shaping!DropRule
  <2> QED BY <2>1, <2>2, <2>3, <2>4
<1>2. ASSUME NEW i \in Flows, NEW rule \in Shaping!Rule,
             Shaping!PutRule(i, rule) PROVE ShapingInv'
  <2>1. Shaping!TypeOK'
    BY <1>2 DEF Shaping!PutRule
  <2>2. FlowCallsInv'
    BY <1>2 DEF Shaping!PutRule
  <2>3. LimitInv'
    BY <1>2 DEF Shaping!PutRule
  <2>4. QueueInv'
    BY <1>2 DEF Shaping!PutRule
  <2> QED BY <2>1, <2>2, <2>3, <2>4
<1>3. ASSUME NEW c \in Callers, NEW f \in Flows, Shaping!Send(c, f) PROVE ShapingInv'
  <2>1. Shaping!TypeOK'
    BY <1>3 DEF Shaping!Send
  <2>2. FlowCallsInv'
    BY <1>3 DEF Shaping!Send
  <2>3. LimitInv'
    BY <1>3 DEF Shaping!Send
  <2>4. QueueInv'
    BY <1>3 DEF Shaping!Send
  <2> QED BY <2>1, <2>2, <2>3, <2>4
<1>4. ASSUME NEW c \in Callers, NEW f \in Flows, NEW rate \in Rates,
             Shaping!SetFlowLimit(c, f, rate) PROVE ShapingInv'
  <2>1. Shaping!TypeOK'
    BY <1>4 DEF Shaping!SetFlowLimit
  <2>2. FlowCallsInv'
    BY <1>4 DEF Shaping!SetFlowLimit
  <2>3. LimitInv'
    BY <1>4 DEF Shaping!SetFlowLimit
  <2>4. QueueInv'
    BY <1>4 DEF Shaping!SetFlowLimit
  <2> QED BY <2>1, <2>2, <2>3, <2>4
<1>5. ASSUME NEW c \in Callers, Shaping!Shape(c) PROVE ShapingInv'
  <2> DEFINE f == flowCall[c].flow
  <2>f. f \in Flows /\ flowCall[c].pc = "shape"
    BY <1>5 DEF Shaping!Shape
  <2>b. PICK v \in Shaping!Bucket :
          bucket' = [bucket EXCEPT ![f] = v] /\ (bucket[f] # None => v.rate = bucket[f].rate)
    <3> DEFINE b == Shaping!BucketFor(f, flowCall[c].rate)
               w == IF b.tokens > 0 THEN [rate |-> b.rate, tokens |-> b.tokens - 1] ELSE b
    <3>1. b \in Shaping!Bucket /\ (bucket[f] # None => b = bucket[f])
      BY <2>f, BucketForFits
    <3>2. w \in Shaping!Bucket /\ w.rate = b.rate
      BY <3>1, BucketFacts
    <3>3. bucket' = [bucket EXCEPT ![f] = w]
      BY <1>5 DEF Shaping!Shape
    <3> QED BY <3>1, <3>2, <3>3
  <2>c. \/ flowCall' = [flowCall EXCEPT ![c].pc = "push"]
        \/ flowCall' = [flowCall EXCEPT ![c] = Shaping!Idle]
    BY <1>5, Zenon DEF Shaping!Shape
  <2>d. /\ flowCall' \in [Callers -> [pc : {"idle", "shape", "push", "set"}, flow : Flows,
                                   class : Classes, rate : Rates \cup {0},
                                   found : {"none", "found", "gone"}]]
        /\ \A d \in Callers : d # c => flowCall'[d] = flowCall[d]
        /\ flowCall'[c].pc \in {"idle", "push"} /\ flowCall'[c].found = "none"
    <3>0. flowCall \in [Callers -> FlowCalls] /\ flowCall[c].found = "none"
      BY <2>f DEF FlowCalls
    <3>1. CASE flowCall' = [flowCall EXCEPT ![c].pc = "push"]
      <4>1. /\ [flowCall[c] EXCEPT !.pc = "push"] \in FlowCalls
            /\ [flowCall[c] EXCEPT !.pc = "push"].pc = "push"
            /\ [flowCall[c] EXCEPT !.pc = "push"].found = "none"
        BY <3>0, CallChanges
      <4>2. flowCall' = [flowCall EXCEPT ![c] = [flowCall[c] EXCEPT !.pc = "push"]]
        BY <3>1
      <4> DEFINE pushed == [flowCall[c] EXCEPT !.pc = "push"]
      <4> HIDE DEF pushed
      <4>3. flowCall' = [flowCall EXCEPT ![c] = pushed] /\ pushed \in FlowCalls /\ pushed.pc = "push"
            /\ pushed.found = "none"
        BY <4>1, <4>2 DEF pushed
      <4> QED BY <3>0, <4>3 DEF FlowCalls
    <3>2. CASE flowCall' = [flowCall EXCEPT ![c] = Shaping!Idle]
      BY <3>2
    <3> QED BY <2>c, <3>1, <3>2
  <2>u. /\ UNCHANGED <<flowRules, queue, counters, asked>>
        /\ flowOverlapped' = flowOverlapped \cup {g \in {f} : \E d \in Callers :
             flowCall[d].pc = "set" /\ flowCall[d].flow = g}
    BY <1>5 DEF Shaping!Shape
  <2> HIDE DEF f
  <2>o. flowCall[c].flow = f
    BY DEF f
  <2>1. Shaping!TypeOK'
    BY <2>f, <2>b, <2>d, <2>u, <2>o
  <2>2. FlowCallsInv'
    BY <2>f, <2>b, <2>d, <2>u, <2>o
  <2>3. LimitInv'
    BY SMTT(20), <2>f, <2>b, <2>d, <2>u, <2>o
  <2>4. QueueInv'
    BY <2>f, <2>b, <2>d, <2>u, <2>o
  <2> QED BY <2>1, <2>2, <2>3, <2>4
<1>6. ASSUME NEW c \in Callers, Shaping!Push(c) PROVE ShapingInv'
  <2>0. queue' \in Seq(Shaping!Packet) /\ counters' \in Nat
    <3> HIDE DEF LimitInv, FlowCallsInv
    <3>0. flowCall[c] \in FlowCalls
      BY DEF FlowCalls
    <3>1. Append(queue, [flow |-> flowCall[c].flow, class |-> flowCall[c].class])
            \in Seq(Shaping!Packet)
      BY <3>0, PacketPushed
    <3>2. \/ queue' = queue /\ counters' = counters
          \/ /\ queue' = Append(queue, [flow |-> flowCall[c].flow, class |-> flowCall[c].class])
             /\ counters' = counters + 1
      BY <1>6, Zenon DEF Shaping!Push
    <3>3. CASE queue' = queue /\ counters' = counters
      BY <3>3
    <3>4. CASE /\ queue' = Append(queue, [flow |-> flowCall[c].flow,
                                          class |-> flowCall[c].class])
               /\ counters' = counters + 1
      BY <3>1, <3>4
    <3> QED BY <3>2, <3>3, <3>4, Zenon
  <2>1. Shaping!TypeOK'
    BY <1>6, <2>0 DEF Shaping!Push
  <2>2. FlowCallsInv'
    BY <1>6 DEF Shaping!Push
  <2>3. LimitInv'
    BY <1>6 DEF Shaping!Push
  <2>4. QueueInv'
    <3>1. \A p : Len(Append(queue, p)) = Len(queue) + 1
      OBVIOUS
    <3> QED BY <1>6, <3>1 DEF Shaping!Push
  <2> QED BY <2>1, <2>2, <2>3, <2>4
<1>7. ASSUME NEW c \in Callers, Shaping!SetRate(c) PROVE ShapingInv'
  <2> DEFINE f == flowCall[c].flow
             rate == flowCall[c].rate
  <2>f. f \in Flows /\ rate \in Rates /\ flowCall[c].pc = "set"
    BY <1>7 DEF Shaping!SetRate
  <2>b. PICK v \in Shaping!Bucket \cup {None} :
          /\ bucket' = [bucket EXCEPT ![f] = v]
          /\ (flowCall[c].found = "none" /\ bucket[f] = None) \/ flowCall[c].found = "found"
               => v # None /\ v.rate = rate
          /\ bucket[f] # None => v # None
    <3>1. CASE flowCall[c].found = "none"
      <4>1. /\ Shaping!BucketFor(f, rate) \in Shaping!Bucket
            /\ bucket[f] = None => Shaping!BucketFor(f, rate).rate = rate
        <5>1. \A g \in Flows, r \in Rates :
                /\ Shaping!BucketFor(g, r) \in Shaping!Bucket
                /\ bucket[g] = None => Shaping!BucketFor(g, r).rate = r
          BY BucketForFits
        <5> HIDE DEF f, rate
        <5> QED BY <2>f, <5>1
      <4>2. bucket' = [bucket EXCEPT ![f] = Shaping!BucketFor(f, rate)]
        BY <1>7, <3>1, Zenon DEF Shaping!SetRate
      <4> DEFINE v == Shaping!BucketFor(f, rate)
      <4>3. v \in Shaping!Bucket /\ bucket' = [bucket EXCEPT ![f] = v]
            /\ (bucket[f] = None => v.rate = rate) /\ v # None
        BY <4>1, <4>2
      <4> HIDE DEF f, rate, v
      <4> QED BY <3>1, <4>3
    <3>2. CASE flowCall[c].found = "found"
      <4>1. bucket[f] \in Shaping!Bucket
        BY <2>f, <3>2
      <4>2. [rate |-> rate, tokens |-> bucket[f].tokens] \in Shaping!Bucket
        BY <2>f, <4>1, BucketFacts, Zenon
      <4>3. bucket' = [bucket EXCEPT ![f] = [rate |-> rate, tokens |-> bucket[f].tokens]]
        BY <1>7, <2>f, <3>2 DEF Shaping!SetRate
      <4> DEFINE v == [rate |-> rate, tokens |-> bucket[f].tokens]
      <4>4. v \in Shaping!Bucket /\ bucket' = [bucket EXCEPT ![f] = v] /\ v.rate = rate
            /\ v # None
        BY <4>2, <4>3
      <4> HIDE DEF f, rate, v
      <4> QED BY <3>2, <4>4
    <3>3. CASE flowCall[c].found = "gone"
      <4>1. bucket' = [bucket EXCEPT ![f] = bucket[f]]
        BY <1>7, <3>3 DEF Shaping!SetRate
      <4> QED BY <2>f, <3>3, <4>1
    <3> QED BY <2>f, <3>1, <3>2, <3>3
  <2>u. /\ UNCHANGED <<flowRules, queue, counters, flowOverlapped>>
        /\ asked' = [asked EXCEPT ![f] = rate]
        /\ flowCall' = [flowCall EXCEPT ![c] = Shaping!Idle]
    BY <1>7 DEF Shaping!SetRate
  <2> HIDE DEF f, rate
  <2>o. flowCall[c].flow = f
    BY DEF f
  <2>1. Shaping!TypeOK'
    BY <2>f, <2>b, <2>u, <2>o
  <2>2. FlowCallsInv'
    BY <2>f, <2>b, <2>u, <2>o
  <2>3. LimitInv'
    BY <2>f, <2>b, <2>u, <2>o
  <2>4. QueueInv'
    BY <2>f, <2>b, <2>u, <2>o
  <2> QED BY <2>1, <2>2, <2>3, <2>4
<1>8. ASSUME Shaping!Dequeue PROVE ShapingInv'
  <2>0. \E i \in 1 .. Len(queue) :
          queue' = SubSeq(queue, 1, i - 1) \o SubSeq(queue, i + 1, Len(queue))
    <3>1. DOMAIN queue = 1 .. Len(queue)
      OBVIOUS
    <3> QED BY <1>8, <3>1, Zenon DEF Shaping!Dequeue
  <2>q. queue' \in Seq(Shaping!Packet) /\ Len(queue') = Len(queue) - 1 /\ Len(queue) >= 1
    <3>1. PICK i \in 1 .. Len(queue) :
            queue' = SubSeq(queue, 1, i - 1) \o SubSeq(queue, i + 1, Len(queue))
      BY <2>0
    <3>2. /\ SubSeq(queue, 1, i - 1) \o SubSeq(queue, i + 1, Len(queue)) \in Seq(Shaping!Packet)
          /\ Len(SubSeq(queue, 1, i - 1) \o SubSeq(queue, i + 1, Len(queue))) = Len(queue) - 1
      BY DequeueTakesOne
    <3> DEFINE q == SubSeq(queue, 1, i - 1) \o SubSeq(queue, i + 1, Len(queue))
    <3>3. queue' = q /\ q \in Seq(Shaping!Packet) /\ Len(q) = Len(queue) - 1
      BY <3>1, <3>2, Zenon
    <3>4. Len(queue) >= 1
      OBVIOUS
    <3> HIDE DEF q
    <3> QED BY <3>3, <3>4
  <2>1. Shaping!TypeOK'
    BY SMTT(20), <1>8, <2>q DEF Shaping!Dequeue
  <2>2. FlowCallsInv'
    BY <1>8 DEF Shaping!Dequeue
  <2>3. LimitInv'
    BY <1>8 DEF Shaping!Dequeue
  <2>4. QueueInv'
    BY <1>8, <2>q DEF Shaping!Dequeue
  <2> QED BY <2>1, <2>2, <2>3, <2>4
<1>9. ASSUME NEW f \in Flows, Shaping!Refill(f) PROVE ShapingInv'
  <2>b. PICK v \in Shaping!Bucket :
          bucket' = [bucket EXCEPT ![f] = v] /\ v.rate = bucket[f].rate
    <3>1. bucket[f] \in Shaping!Bucket
      BY <1>9 DEF Shaping!Refill
    <3> DEFINE w == [rate |-> bucket[f].rate, tokens |->
                 IF bucket[f].tokens + bucket[f].rate > Shaping!Burst(bucket[f].rate)
                 THEN Shaping!Burst(bucket[f].rate) ELSE bucket[f].tokens + bucket[f].rate]
    <3>2. w \in Shaping!Bucket
      BY <3>1, BucketFacts, Zenon
    <3>3. bucket' = [bucket EXCEPT ![f] = w]
      BY <1>9 DEF Shaping!Refill
    <3>4. w.rate = bucket[f].rate
      OBVIOUS
    <3> HIDE DEF w
    <3> QED BY <3>2, <3>3, <3>4
  <2>u. bucket[f] # None /\ UNCHANGED <<flowRules, queue, counters, flowCall, asked, flowOverlapped>>
    BY <1>9 DEF Shaping!Refill
  <2>1. Shaping!TypeOK'
    BY <2>b, <2>u
  <2>2. FlowCallsInv'
    BY <2>b, <2>u
  <2>3. LimitInv'
    BY <2>b, <2>u
  <2>4. QueueInv'
    BY <2>b, <2>u
  <2> QED BY <2>1, <2>2, <2>3, <2>4
<1>10. ASSUME NEW f \in Flows, Shaping!RemoveFlowLimit(f) PROVE ShapingInv'
  <2>1. Shaping!TypeOK'
    <3>1. flowCall' \in [Callers -> [pc : {"idle", "shape", "push", "set"}, flow : Flows,
                                    class : Classes, rate : Shaping!Limits,
                                    found : {"none", "found", "gone"}]]
      <4>1. flowCall \in [Callers -> FlowCalls]
        BY DEF FlowCalls
      <4>2. flowCall' \in [Callers -> FlowCalls]
        BY <1>10, <4>1, CallChanges DEF Shaping!RemoveFlowLimit
      <4> QED BY <4>2 DEF FlowCalls
    <3> QED BY <1>10, <3>1 DEF Shaping!RemoveFlowLimit
  <2>2. FlowCallsInv'
    BY <1>10 DEF Shaping!RemoveFlowLimit
  <2>3. LimitInv'
    BY <1>10 DEF Shaping!RemoveFlowLimit
  <2>4. QueueInv'
    BY <1>10 DEF Shaping!RemoveFlowLimit
  <2> QED BY <2>1, <2>2, <2>3, <2>4
<1> QED BY <1>1, <1>2, <1>3, <1>4, <1>5, <1>6, <1>7, <1>8, <1>9, <1>10, <1>n DEF Shaping!Next

\* The table agrees with the rules and a limit stays as it was set, for any rules,
\* ports, priorities, flows and rates, whatever handlers and packets do meanwhile
\* (ebpf/kernel_rules.go, loader_linux.go; sdwan/qos.go).
THEOREM Traffic == ASSUME ShapingFits PROVE Spec => []TrafficIsAsSet
<1> DEFINE Inv == (part = "xdp" => XdpInv) /\ (part = "shaping" => ShapingInv)
<1>1. Init => Inv
  BY XdpInit, ShapingInit
<1>2. Inv /\ [Next]_vars => Inv'
  <2> SUFFICES ASSUME Inv, [Next]_vars PROVE Inv'
    OBVIOUS
  <2>1. CASE Next
    BY <2>1, XdpStep, ShapingStep DEF Next
  <2>2. CASE UNCHANGED vars
    <3>1. ASSUME XdpInv PROVE XdpInv'
      <4>1. AgreeInv'
        BY <2>2, <3>1, AgreeKept DEF vars, xdpVars, XdpInv, AgreeInv, Xdp!At
      <4> QED BY <2>2, <3>1, <4>1 DEF vars, xdpVars, XdpInv, Xdp!TypeOK, CallTypes, KnownInv,
                                      ChangeInv, Xdp!At
    <3>2. ASSUME ShapingInv PROVE ShapingInv'
      BY <2>2, <3>2 DEF vars, flowVars, ShapingInv, Shaping!TypeOK, FlowCallsInv, LimitInv,
                        QueueInv, Shaping!At
    <3> QED BY <2>2, <3>1, <3>2 DEF vars
  <2> QED BY <2>1, <2>2
<1>3. Inv => TrafficIsAsSet
  <2>1. XdpInv => Xdp!TypeOK /\ Xdp!FastPathAgrees
    BY AgreeMatches DEF XdpInv, AgreeInv, Xdp!TypeOK, Xdp!FastPathAgrees
  <2>2. ShapingInv => Shaping!TypeOK /\ Shaping!LimitsAsSet
    BY DEF ShapingInv, LimitInv, QueueInv, Shaping!LimitsAsSet
  <2> QED BY <2>1, <2>2 DEF TrafficIsAsSet
<1> QED BY <1>1, <1>2, <1>3, PTL DEF Spec

-------------------------------------------------------------------------------
(* The edge nodes.                                                         *)

\* A call of c about i is under way.
About(c, i) == ~Edge!Idle(c) /\ edgeCall[c].id = i

\* Unless calls about i overlapped there is one of them at most, and without one
\* the heartbeats are those of the registered object or of none.  A call that
\* announces or starts has that object; one that stops finds it gone.
HeartbeatInv ==
  \A i \in Flows \ edgeOverlapped :
    /\ \A c, d \in Edge!Threads : About(c, i) /\ About(d, i) => c = d
    /\ (\A c \in Edge!Threads : ~About(c, i)) => heartbeat[i] \in {0, registered[i]}
    /\ \A c \in Edge!Threads : About(c, i) =>
         IF edgeCall[c].pc = "stop" THEN registered[i] = 0
         ELSE edgeCall[c].object = registered[i] /\ heartbeat[i] \in {0, registered[i]}

\* Objects are numbered as they are made, and only one that was made is probed.
ObjectInv ==
  /\ \A i \in Flows : registered[i] <= made[i]
  /\ \A i \in Flows, n \in Edge!Objects : n > made[i] => health[i][n] = Edge!Fresh
  /\ \A i \in Flows, n \in Edge!Objects : <<i, n>> \in probing => n <= made[i]

EdgeInv == Edge!TypeOK /\ HeartbeatInv /\ ObjectInv /\ Edge!StatusFollowsProbes

LEMMA EdgeConstants ==
  MaxObjects \in Nat \ {0} /\ Unhealthy \in Nat \ {0} /\ UpAfter \in Nat \ {0}
BY ConstantsFit DEF ConstantsFit, Edge!ThresholdAssumption

\* What a probe does to the status of an object.
LEMMA HealthChanges ==
  ASSUME NEW h \in Edge!Health,
         h.status = "healthy" => h.fails < Unhealthy,
         h.status = "unhealthy" => h.oks < UpAfter
  PROVE  /\ Edge!Failed(h) \in Edge!Health /\ Edge!Offline(Edge!Failed(h)) \in Edge!Health
         /\ Edge!Answered(h) \in Edge!Health
         /\ [status |-> h.status, fails |-> h.fails, oks |-> h.oks, long |-> TRUE]
              \in Edge!Health
         /\ \A g \in {Edge!Failed(h), Edge!Answered(h)} :
              /\ g.status = "healthy" => g.fails < Unhealthy
              /\ g.status = "unhealthy" => g.oks < UpAfter
              /\ g.status = "offline" => h.status = "offline"
         /\ Edge!Offline(Edge!Failed(h)).status = "offline"
<1> USE EdgeConstants DEF Edge!Health
<1>1. Edge!Failed(h) \in Edge!Health
  BY DEF Edge!Failed
<1>2. Edge!Offline(Edge!Failed(h)) \in Edge!Health
  BY <1>1 DEF Edge!Offline
<1>3. Edge!Answered(h) \in Edge!Health
  <2> DEFINE oks == IF h.oks < UpAfter THEN h.oks + 1 ELSE h.oks
  <2>1. oks \in 0 .. UpAfter /\ h.status \in {"healthy", "unhealthy", "offline"}
        /\ h.long \in BOOLEAN
    OBVIOUS
  <2>2. Edge!Answered(h) =
          [status |-> IF h.status = "unhealthy" /\ oks >= UpAfter THEN "healthy" ELSE h.status,
           fails |-> 0, oks |-> oks,
           long |-> IF h.status = "unhealthy" /\ oks >= UpAfter THEN FALSE ELSE h.long]
    BY DEF Edge!Answered
  <2>3. PICK st \in {"healthy", "unhealthy", "offline"}, long \in BOOLEAN :
          Edge!Answered(h) = [status |-> st, fails |-> 0, oks |-> oks, long |-> long]
    BY <2>1, <2>2
  <2> HIDE DEF oks
  <2> QED BY <2>1, <2>3
<1>4. [status |-> h.status, fails |-> h.fails, oks |-> h.oks, long |-> TRUE] \in Edge!Health
  OBVIOUS
<1>5. /\ Edge!Failed(h).status = "healthy" => Edge!Failed(h).fails < Unhealthy
      /\ Edge!Failed(h).status = "unhealthy" => Edge!Failed(h).oks < UpAfter
      /\ Edge!Failed(h).status = "offline" => h.status = "offline"
  BY DEF Edge!Failed
<1>6. /\ Edge!Answered(h).status = "healthy" => Edge!Answered(h).fails < Unhealthy
      /\ Edge!Answered(h).status = "unhealthy" => Edge!Answered(h).oks < UpAfter
      /\ Edge!Answered(h).status = "offline" => h.status = "offline"
  BY DEF Edge!Answered
<1> QED BY <1>1, <1>2, <1>3, <1>4, <1>5, <1>6 DEF Edge!Offline

\* The table of statuses with one object's replaced.
LEMMA HealthTable ==
  ASSUME NEW T, NEW t \in [Flows -> [Edge!Objects -> T]], NEW i \in Flows,
         NEW n \in Edge!Objects, NEW v \in T, NEW u, u = [t EXCEPT ![i][n] = v]
  PROVE  /\ u \in [Flows -> [Edge!Objects -> T]]
         /\ u[i][n] = v
         /\ \A j \in Flows, m \in Edge!Objects : j # i \/ m # n => u[j][m] = t[j][m]
OBVIOUS

LEMMA HeartbeatTable ==
  ASSUME NEW t \in [Flows -> 0 .. MaxObjects], NEW i \in Flows, NEW n \in 0 .. MaxObjects,
         NEW u, u = t \/ u = [t EXCEPT ![i] = n]
  PROVE  u \in [Flows -> 0 .. MaxObjects] /\ \A j \in Flows \ {i} : u[j] = t[j]
OBVIOUS

LEMMA EdgeInit == ASSUME Flows # {} PROVE Init => EdgeInv
<1> SUFFICES ASSUME Init PROVE EdgeInv
  OBVIOUS
<1> USE EdgeConstants DEF Init, Edge!Init
<1>0. (CHOOSE i \in Flows : TRUE) \in Flows
  OBVIOUS
<1>1. Edge!TypeOK
  <2>1. registered \in [Flows -> 0 .. MaxObjects] /\ made \in [Flows -> 0 .. MaxObjects]
        /\ heartbeat \in [Flows -> 0 .. MaxObjects]
    OBVIOUS
  <2>2. Edge!Fresh \in Edge!Health
    BY DEF Edge!Health, Edge!Fresh
  <2>3. health \in [Flows -> [Edge!Objects -> Edge!Health]]
    BY <2>2
  <2>4. edgeCall \in [Edge!Threads -> [pc : {"idle", "announce", "start", "stop"},
                                       id : Flows, object : 0 .. MaxObjects]]
    BY <1>0
  <2> QED BY <2>1, <2>3, <2>4 DEF Edge!TypeOK
<1>2. HeartbeatInv
  BY DEF HeartbeatInv, About, Edge!Idle
<1>3. ObjectInv
  BY DEF ObjectInv, Edge!Objects
<1>4. Edge!StatusFollowsProbes
  BY DEF Edge!StatusFollowsProbes, Edge!Fresh
<1> QED BY <1>1, <1>2, <1>3, <1>4 DEF EdgeInv

LEMMA EdgeStep == EdgeInv /\ Edge!Next => EdgeInv'
<1> SUFFICES ASSUME EdgeInv, Edge!Next PROVE EdgeInv'
  OBVIOUS
<1>n. Edge!Next
  OBVIOUS
<1> USE EdgeConstants DEF EdgeInv, Edge!TypeOK, HeartbeatInv, ObjectInv,
        Edge!StatusFollowsProbes, About, Edge!Idle, Edge!Goto, Edge!Begin, Edge!Remove,
        Edge!Objects, Edge!Threads, Edge!nodes
<1>1. ASSUME NEW c \in Callers, NEW i \in Flows, Edge!Register(c, i) PROVE EdgeInv'
  <2>0. made[i] + 1 \in 1 .. MaxObjects /\ health[i][made[i] + 1] = Edge!Fresh
    BY <1>1 DEF Edge!Register
  <2>1. Edge!TypeOK'
    BY <1>1 DEF Edge!Register
  <2>2. HeartbeatInv'
    BY <1>1, <2>0 DEF Edge!Register
  <2>3. ObjectInv'
    BY <1>1 DEF Edge!Register
  <2>4. Edge!StatusFollowsProbes'
    BY <1>1, <2>0 DEF Edge!Register, Edge!Fresh
  <2> QED BY <2>1, <2>2, <2>3, <2>4
<1>2. ASSUME NEW c \in Callers, NEW i \in Flows, Edge!Deregister(c, i) PROVE EdgeInv'
  <2>1. Edge!TypeOK'
    BY <1>2 DEF Edge!Deregister
  <2>2. HeartbeatInv'
    BY <1>2 DEF Edge!Deregister
  <2>3. ObjectInv'
    BY <1>2 DEF Edge!Deregister
  <2>4. Edge!StatusFollowsProbes'
    BY <1>2 DEF Edge!Deregister
  <2> QED BY <2>1, <2>2, <2>3, <2>4
<1>3. ASSUME NEW c \in Edge!Threads,
             Edge!Announced(c) \/ Edge!AnnounceFails(c) \/ Edge!StartHeartbeatLoop(c)
               \/ Edge!StopHeartbeatLoop(c)
      PROVE EdgeInv'
  <2>i. PICK i \in Flows : i = edgeCall[c].id
    BY <1>3
  <2>c. /\ ~Edge!Idle(c) /\ UNCHANGED <<registered, made, health, checking, probing,
                                       edgeOverlapped>>
        /\ \/ edgeCall[c].pc = "announce" /\ heartbeat' = heartbeat
           \/ edgeCall[c].pc = "start" /\ heartbeat' = [heartbeat EXCEPT ![i] = edgeCall[c].object]
           \/ edgeCall[c].pc = "stop" /\ heartbeat' = [heartbeat EXCEPT ![i] = 0]
    BY <1>3, <2>i DEF Edge!Announced, Edge!AnnounceFails, Edge!StartHeartbeatLoop,
                      Edge!StopHeartbeatLoop
  <2>d. PICK to \in {"idle", "start"} :
          /\ edgeCall' = [edgeCall EXCEPT ![c] = [pc |-> to, id |-> i,
                                                 object |-> edgeCall[c].object]]
          /\ edgeCall[c].pc # "announce" => to = "idle"
    BY <1>3, <2>i DEF Edge!Announced, Edge!AnnounceFails, Edge!StartHeartbeatLoop,
                      Edge!StopHeartbeatLoop
  <2>e. /\ edgeCall' \in [Edge!Threads -> [pc : {"idle", "announce", "start", "stop"},
                                           id : Flows, object : 0 .. MaxObjects]]
        /\ edgeCall'[c].pc = to /\ edgeCall'[c].id = i
        /\ edgeCall'[c].object = edgeCall[c].object
        /\ \A d \in Edge!Threads \ {c} : edgeCall'[d] = edgeCall[d]
    BY <2>d
  <2>f. heartbeat' \in [Flows -> 0 .. MaxObjects]
        /\ \A j \in Flows \ {i} : heartbeat'[j] = heartbeat[j]
    <3>1. PICK n \in 0 .. MaxObjects :
            heartbeat' = heartbeat \/ heartbeat' = [heartbeat EXCEPT ![i] = n]
      BY <2>c
    <3>2. heartbeat \in [Flows -> 0 .. MaxObjects] /\ i \in Flows /\ n \in 0 .. MaxObjects
      BY <3>1, <2>i
    <3> DEFINE t == heartbeat
               u == heartbeat'
    <3>3. t \in [Flows -> 0 .. MaxObjects] /\ (u = t \/ u = [t EXCEPT ![i] = n])
      BY <3>1, <3>2
    <3> HIDE DEF t, u
    <3>4. u \in [Flows -> 0 .. MaxObjects] /\ \A j \in Flows \ {i} : u[j] = t[j]
      BY <3>2, <3>3, HeartbeatTable
    <3> QED BY <3>4 DEF t, u
  <2>1. Edge!TypeOK'
    BY <2>c, <2>e, <2>f
  <2>2. HeartbeatInv'
    <3> SUFFICES ASSUME NEW j \in Flows \ edgeOverlapped
                 PROVE  /\ \A b, d \in Edge!Threads : About(b, j)' /\ About(d, j)' => b = d
                        /\ (\A d \in Edge!Threads : ~About(d, j)')
                             => heartbeat'[j] \in {0, registered[j]}
                        /\ \A d \in Edge!Threads : About(d, j)' =>
                             IF edgeCall'[d].pc = "stop" THEN registered[j] = 0
                             ELSE /\ edgeCall'[d].object = registered[j]
                                  /\ heartbeat'[j] \in {0, registered[j]}
      BY <2>c
    <3>1. CASE j # i
      <4>1. \A d \in Edge!Threads : About(d, j)' => d # c /\ About(d, j)
        BY <3>1, <2>e
      <4>2. \A d \in Edge!Threads : About(d, j) => About(d, j)'
        BY <3>1, <2>e, <2>i
      <4> QED BY <3>1, <4>1, <4>2, <2>e, <2>f
    <3>2. CASE j = i
      <4>1. \A d \in Edge!Threads : About(d, j)' => d = c
        BY <3>2, <2>c, <2>e, <2>i
      <4>2. heartbeat'[j] \in {0, registered[j]}
        BY <3>2, <2>c, <2>i
      <4> QED BY <3>2, <4>1, <4>2, <2>c, <2>d, <2>e, <2>i
    <3> QED BY <3>1, <3>2
  <2>3. ObjectInv'
    BY <2>c
  <2>4. Edge!StatusFollowsProbes'
    BY <2>c
  <2> QED BY <2>1, <2>2, <2>3, <2>4
<1>4. ASSUME Edge!StopAll \/ Edge!StartChecks \/ Edge!StopChecks \/ Edge!ProbeAll
      PROVE EdgeInv'
  <2> USE DEF Edge!StopAll, Edge!StartChecks, Edge!StopChecks, Edge!ProbeAll
  <2>p. probing' \in SUBSET (Flows \X Edge!Objects)
    <3>1. CASE Edge!ProbeAll
      <4>1. \A i \in Flows : registered[i] # 0 => registered[i] \in Edge!Objects
        OBVIOUS
      <4> QED BY <3>1, <4>1
    <3> QED BY <1>4, <3>1
  <2>1. Edge!TypeOK'
    <3>1. heartbeat' \in [Flows -> 0 .. MaxObjects] /\ checking' \in BOOLEAN
      <4>1. CASE Edge!StopAll
        BY <4>1
      <4>2. CASE Edge!StartChecks \/ Edge!StopChecks \/ Edge!ProbeAll
        BY <4>2
      <4> QED BY <1>4, <4>1, <4>2
    <3>2. UNCHANGED <<registered, made, health, edgeCall, edgeOverlapped>>
      BY <1>4
    <3> QED BY <2>p, <3>1, <3>2
  <2>2. HeartbeatInv'
    BY SMTT(20), <1>4
  <2>3. ObjectInv'
    BY SMTT(20), <1>4
  <2>4. Edge!StatusFollowsProbes'
    BY <1>4
  <2> QED BY <2>1, <2>2, <2>3, <2>4
<1>5. ASSUME NEW i \in Flows, NEW n \in Edge!Objects,
             Edge!ProbeFails(i, n) \/ Edge!ProbeSucceeds(i, n) \/ Edge!TimePasses(i, n)
      PROVE EdgeInv'
  <2> DEFINE h == health[i][n]
  <2>h. h \in Edge!Health /\ n \in Nat \ {0}
    OBVIOUS
  <2>l. PICK over \in BOOLEAN :
          /\ over => Edge!ProbeFails(i, n)
          /\ Edge!ProbeFails(i, n) =>
               health' = [health EXCEPT ![i][n] = IF over THEN Edge!Offline(Edge!Failed(h))
                                                  ELSE Edge!Failed(h)]
          /\ over => registered' = [registered EXCEPT ![i] = 0]
    <3>1. CASE Edge!ProbeFails(i, n)
      <4> WITNESS (Edge!Failed(h).status = "unhealthy" /\ Edge!Failed(h).long) \in BOOLEAN
      <4> QED BY <3>1 DEF Edge!ProbeFails
    <3> QED BY <3>1
  <2>v. PICK v \in Edge!Health :
          /\ health' = [health EXCEPT ![i][n] = v]
          /\ v.status = "healthy" => v.fails < Unhealthy
          /\ v.status = "unhealthy" => v.oks < UpAfter
          /\ v.status = "offline" => h.status = "offline" \/ over
    BY <1>5, <2>h, <2>l, HealthChanges DEF Edge!ProbeSucceeds, Edge!TimePasses
  <2>t. /\ health' \in [Flows -> [Edge!Objects -> Edge!Health]]
        /\ health'[i][n] = v
        /\ \A j \in Flows, m \in Edge!Objects : j # i \/ m # n => health'[j][m] = health[j][m]
    BY <2>v, HealthTable
  <2>m. n <= made[i]
    <3>1. CASE Edge!TimePasses(i, n)
      <4>1. h # Edge!Fresh
        BY <3>1 DEF Edge!TimePasses, Edge!Fresh
      <4> QED BY <4>1, <2>h
    <3>2. CASE Edge!ProbeFails(i, n) \/ Edge!ProbeSucceeds(i, n)
      BY <3>2 DEF Edge!ProbeFails, Edge!ProbeSucceeds
    <3> QED BY <1>5, <3>1, <3>2
  <2>r. /\ \/ UNCHANGED <<registered, edgeCall, edgeOverlapped>>
           \/ registered[i] # 0 /\ Edge!Idle(Checker) /\ Edge!Remove(Checker, i)
        /\ UNCHANGED <<made, heartbeat, checking>> /\ probing' \subseteq probing
    BY <1>5 DEF Edge!ProbeFails, Edge!ProbeSucceeds, Edge!TimePasses
  <2>1. Edge!TypeOK'
    <3>1. CASE UNCHANGED <<registered, edgeCall, edgeOverlapped>>
      BY <3>1, <2>t, <2>r
    <3>2. CASE Edge!Remove(Checker, i)
      <4>1. /\ registered' \in [Flows -> 0 .. MaxObjects] /\ edgeOverlapped' \subseteq Flows
            /\ edgeCall' \in [Edge!Threads -> [pc : {"idle", "announce", "start", "stop"},
                                               id : Flows, object : 0 .. MaxObjects]]
        BY <3>2
      <4> QED BY <4>1, <2>t, <2>r
    <3> QED BY <2>r, <3>1, <3>2
  <2>2. HeartbeatInv'
    <3>1. CASE UNCHANGED <<registered, edgeCall, edgeOverlapped>>
      BY <3>1, <2>r
    <3>2. CASE registered[i] # 0 /\ Edge!Idle(Checker) /\ Edge!Remove(Checker, i)
      BY SMTT(20), <3>2, <2>r
    <3> QED BY <2>r, <3>1, <3>2
  <2>3. ObjectInv'
    BY SMTT(20), <2>t, <2>m, <2>r
  <2>4. Edge!StatusFollowsProbes'
    BY <2>v, <2>t, <2>r, <2>l, <2>h
  <2> QED BY <2>1, <2>2, <2>3, <2>4
<1> QED BY <1>1, <1>2, <1>3, <1>4, <1>5, <1>n DEF Edge!Next

-------------------------------------------------------------------------------
(* The choice of an edge node.                                             *)

AnycastInv == Anycast!TypeOK /\ IsFiniteSet(DOMAIN nodes) /\ Anycast!AnswerIsNearest

LEMMA AnycastConstants == Places \in [Anycast!Regions -> Nat] /\ Priorities \subseteq Int
<1>1. Anycast!CoordinatesAssumption /\ Anycast!PrioritiesAssumption
  BY ConstantsFit DEF ConstantsFit
<1> QED BY <1>1 DEF Anycast!CoordinatesAssumption, Anycast!PrioritiesAssumption,
                    Anycast!Regions

\* A finite set with a strict order has a minimal element: one below which there
\* are fewest.
LEMMA MinimalElement ==
  ASSUME NEW S, IsFiniteSet(S), S # {}, NEW R \in SUBSET (S \X S),
         \A x \in S : <<x, x>> \notin R,
         \A x, y, z \in S : <<x, y>> \in R /\ <<y, z>> \in R => <<x, z>> \in R
  PROVE  \E x \in S : \A y \in S : <<y, x>> \notin R
<1> DEFINE Below(x) == {y \in S : <<y, x>> \in R}
           Counts == {Cardinality(Below(x)) : x \in S}
<1>1. \A x \in S : IsFiniteSet(Below(x)) /\ Cardinality(Below(x)) \in Nat
  <2> TAKE x \in S
  <2>1. Below(x) \in SUBSET S
    OBVIOUS
  <2> HIDE DEF Below
  <2> QED BY <2>1, FS_Subset, FS_CardinalityType
<1>2. Counts \subseteq Nat /\ Counts # {}
  <2> HIDE DEF Below
  <2> QED BY <1>1
<1>3. PICK k \in Counts : \A n \in Counts : ~(<<n, k>> \in OpToRel(<, Nat))
  <2> HIDE DEF Counts
  <2> QED BY <1>2, NatLessThanWellFounded, WFMin
<1>4. \A n \in Counts : ~(n < k)
  <2> HIDE DEF Counts
  <2> QED BY <1>2, <1>3 DEF OpToRel
<1>5. PICK x \in S : k = Cardinality(Below(x))
  BY <1>3
<1>6. ASSUME NEW y \in S, <<y, x>> \in R PROVE FALSE
  <2>1. Below(y) \in SUBSET Below(x) /\ Below(y) # Below(x)
    BY <1>6
  <2>2. Cardinality(Below(y)) \in Counts
    OBVIOUS
  <2>3. /\ IsFiniteSet(Below(x)) /\ Cardinality(Below(x)) \in Nat
        /\ Cardinality(Below(y)) \in Nat
    BY <1>1
  <2> HIDE DEF Below, Counts
  <2>4. /\ Cardinality(Below(y)) <= Cardinality(Below(x))
        /\ Cardinality(Below(x)) = Cardinality(Below(y)) => Below(x) = Below(y)
    BY <2>1, <2>3, FS_Subset
  <2> QED BY <1>4, <1>5, <2>1, <2>2, <2>3, <2>4
<1> QED BY <1>6

\* The tables, as functions on what they hold.
LEMMA PartialFunctions ==
  ASSUME NEW S, NEW T, NEW g
  PROVE  g \in Anycast!Partial(S, T) <=> DOMAIN g \subseteq S /\ g \in [DOMAIN g -> T]
<1>1. g \in Anycast!Partial(S, T) <=> \E D \in SUBSET S : g \in [D -> T]
  BY DEF Anycast!Partial
<1> QED BY <1>1

LEMMA NodesChange ==
  ASSUME nodes \in Anycast!Partial(Members, Anycast!NodeInfo),
         NEW i \in Members, NEW n \in Anycast!NodeInfo
  PROVE  /\ Anycast!Put(nodes, i, n) \in Anycast!Partial(Members, Anycast!NodeInfo)
         /\ DOMAIN Anycast!Put(nodes, i, n) = DOMAIN nodes \cup {i}
         /\ Anycast!Drop(nodes, i) \in Anycast!Partial(Members, Anycast!NodeInfo)
         /\ DOMAIN Anycast!Drop(nodes, i) = DOMAIN nodes \ {i}
<1>1. DOMAIN nodes \subseteq Members /\ nodes \in [DOMAIN nodes -> Anycast!NodeInfo]
  BY PartialFunctions
<1>2. Anycast!Put(nodes, i, n) \in [DOMAIN nodes \cup {i} -> Anycast!NodeInfo]
  BY <1>1 DEF Anycast!Put
<1>3. Anycast!Drop(nodes, i) \in [DOMAIN nodes \ {i} -> Anycast!NodeInfo]
  BY <1>1 DEF Anycast!Drop
<1>4. /\ DOMAIN Anycast!Put(nodes, i, n) = DOMAIN nodes \cup {i}
      /\ DOMAIN Anycast!Drop(nodes, i) = DOMAIN nodes \ {i}
  BY <1>2, <1>3
<1> QED BY <1>1, <1>2, <1>3, <1>4, PartialFunctions

LEMMA AnycastInit == Init => AnycastInv
<1> SUFFICES ASSUME Init PROVE AnycastInv
  OBVIOUS
<1> USE DEF Init, Anycast!Init
<1>1. nodes \in Anycast!Partial(Members, Anycast!NodeInfo) /\ DOMAIN nodes = {}
  BY PartialFunctions
<1>2. mapping \in Anycast!Partial(Anycast!Keys, Anycast!Regions)
  BY PartialFunctions
<1>3. IsFiniteSet(DOMAIN nodes)
  BY <1>1, FS_EmptySet
<1> QED BY <1>1, <1>2, <1>3 DEF AnycastInv, Anycast!TypeOK, Anycast!AnswerIsNearest

LEMMA AnycastStep == AnycastInv /\ Anycast!Next => AnycastInv'
<1> SUFFICES ASSUME AnycastInv, Anycast!Next PROVE AnycastInv'
  OBVIOUS
<1>n. Anycast!Next
  OBVIOUS
<1> USE DEF AnycastInv, Anycast!TypeOK, Anycast!AnswerIsNearest
<1>1. ASSUME NEW i \in Members, NEW n \in Anycast!NodeInfo, Anycast!AddNode(i, n)
      PROVE AnycastInv'
  <2>1. nodes' \in Anycast!Partial(Members, Anycast!NodeInfo)
        /\ DOMAIN nodes' = DOMAIN nodes \cup {i}
    <3>1. /\ Anycast!Put(nodes, i, n) \in Anycast!Partial(Members, Anycast!NodeInfo)
          /\ DOMAIN Anycast!Put(nodes, i, n) = DOMAIN nodes \cup {i}
      <4>1. nodes \in Anycast!Partial(Members, Anycast!NodeInfo)
        OBVIOUS
      <4> HIDE DEF AnycastInv, Anycast!TypeOK, Anycast!AnswerIsNearest
      <4> QED BY <4>1, NodesChange
    <3>2. nodes' = Anycast!Put(nodes, i, n)
      BY <1>1 DEF Anycast!AddNode
    <3> QED BY <3>1, <3>2
  <2>2. IsFiniteSet(DOMAIN nodes')
    BY <2>1, FS_AddElement
  <2> QED BY <1>1, <2>1, <2>2 DEF Anycast!AddNode
<1>2. ASSUME NEW i \in Members, Anycast!RemoveNode(i) PROVE AnycastInv'
  <2>0. PICK n : n \in Anycast!NodeInfo
    BY <1>2, PartialFunctions DEF Anycast!RemoveNode
  <2>1. nodes' \in Anycast!Partial(Members, Anycast!NodeInfo)
        /\ DOMAIN nodes' = DOMAIN nodes \ {i}
    <3>1. /\ Anycast!Drop(nodes, i) \in Anycast!Partial(Members, Anycast!NodeInfo)
          /\ DOMAIN Anycast!Drop(nodes, i) = DOMAIN nodes \ {i}
      <4>1. nodes \in Anycast!Partial(Members, Anycast!NodeInfo) /\ n \in Anycast!NodeInfo
        BY <2>0
      <4> HIDE DEF AnycastInv, Anycast!TypeOK, Anycast!AnswerIsNearest
      <4> QED BY <4>1, NodesChange
    <3>2. nodes' = Anycast!Drop(nodes, i)
      BY <1>2 DEF Anycast!RemoveNode
    <3> QED BY <3>1, <3>2
  <2>2. IsFiniteSet(DOMAIN nodes')
    BY <2>1, FS_RemoveElement
  <2> QED BY <1>2, <2>1, <2>2 DEF Anycast!RemoveNode
<1>3. ASSUME NEW i \in Members, NEW healthy \in BOOLEAN, Anycast!UpdateHealth(i, healthy)
      PROVE AnycastInv'
  <2>0. DOMAIN nodes \subseteq Members /\ nodes \in [DOMAIN nodes -> Anycast!NodeInfo]
        /\ i \in DOMAIN nodes
    BY <1>3, PartialFunctions DEF Anycast!UpdateHealth
  <2>1. [region |-> nodes[i].region, healthy |-> healthy, priority |-> nodes[i].priority]
          \in Anycast!NodeInfo
    BY <2>0 DEF Anycast!NodeInfo
  <2>2. nodes' \in [DOMAIN nodes -> Anycast!NodeInfo] /\ DOMAIN nodes' = DOMAIN nodes
    BY <1>3, <2>0, <2>1 DEF Anycast!UpdateHealth
  <2>3. nodes' \in Anycast!Partial(Members, Anycast!NodeInfo)
    BY <2>0, <2>2, PartialFunctions
  <2> QED BY <1>3, <2>2, <2>3 DEF Anycast!UpdateHealth
<1>4. ASSUME NEW k \in Anycast!Keys, NEW r \in Anycast!Regions, Anycast!AddMapping(k, r)
      PROVE AnycastInv'
  <2>1. mapping' \in Anycast!Partial(Anycast!Keys, Anycast!Regions)
    BY <1>4, PartialFunctions DEF Anycast!AddMapping, Anycast!Put
  <2>2. \A p : Anycast!SelectNearest(p)' = Anycast!SelectNearest(p)
    BY <1>4 DEF Anycast!AddMapping, Anycast!SelectNearest, Anycast!Healthy, Anycast!Before,
                Anycast!Distance
  <2> QED BY <1>4, <2>1, <2>2 DEF Anycast!AddMapping
<1>5. ASSUME NEW c \in Ports, Anycast!BeginResolve(c) PROVE AnycastInv'
  <2>1. Anycast!ResolveRegion(c) \subseteq Anycast!Regions
    BY PartialFunctions DEF Anycast!ResolveRegion
  <2>2. \A p : Anycast!SelectNearest(p)' = Anycast!SelectNearest(p)
    BY <1>5 DEF Anycast!BeginResolve, Anycast!SelectNearest, Anycast!Healthy, Anycast!Before,
                Anycast!Distance
  <2> QED BY <1>5, <2>1, <2>2 DEF Anycast!BeginResolve
<1>6. ASSUME Anycast!EndResolve PROVE AnycastInv'
  <2>u. UNCHANGED <<nodes, mapping>> /\ resolving' = None /\ moved' = FALSE
    BY <1>6 DEF Anycast!EndResolve
  <2>p. PICK p \in Nat :
          answer' = None \/ \E i \in Anycast!SelectNearest(p), r \in Anycast!Regions :
                              answer' = [node |-> i, at |-> p, region |-> r]
    <3>1. \A i \in DOMAIN nodes : i \in Members /\ nodes[i].region \in Anycast!Regions
      <4>1. DOMAIN nodes \subseteq Members /\ nodes \in [DOMAIN nodes -> Anycast!NodeInfo]
        BY PartialFunctions
      <4> QED BY <4>1 DEF Anycast!NodeInfo
    <3>2. \A p : Anycast!SelectNearest(p) \subseteq DOMAIN nodes
      BY DEF Anycast!SelectNearest, Anycast!Healthy
    <3>3. CASE resolving = Anycast!Unknown
      BY <1>6, <3>1, <3>2, <3>3 DEF Anycast!EndResolve
    <3>4. CASE resolving \in Anycast!Regions /\ resolving # Anycast!Unknown
      BY <1>6, <3>4, AnycastConstants DEF Anycast!EndResolve
    <3> QED BY <1>6, <3>3, <3>4 DEF Anycast!EndResolve
  <2>2. \A q : Anycast!SelectNearest(q)' = Anycast!SelectNearest(q)
    BY <2>u DEF Anycast!SelectNearest, Anycast!Healthy, Anycast!Before, Anycast!Distance
  <2>3. \A q : Anycast!SelectNearest(q) \subseteq Members
    BY PartialFunctions DEF Anycast!SelectNearest, Anycast!Healthy
  <2>4. Anycast!TypeOK'
    <3>1. answer' = None
           \/ answer' \in [node : Members, region : Anycast!Regions, at : Nat]
      BY <2>p, <2>3
    <3> QED BY <2>u, <3>1
  <2>5. Anycast!AnswerIsNearest'
    <3>1. answer' # None => answer'.node \in Anycast!SelectNearest(answer'.at)
      BY <2>p
    <3> QED BY <2>2, <3>1
  <2> QED BY <2>u, <2>4, <2>5
<1> QED BY <1>1, <1>2, <1>3, <1>4, <1>5, <1>6, <1>n DEF Anycast!Next

\* Among the healthy nodes but one is one that no other of them comes before.
LEMMA SecondNearest ==
  ASSUME AnycastInv, NEW p \in Nat, NEW S \in SUBSET Anycast!Healthy, S # {}
  PROVE  \E m \in S : \A j \in S : ~Anycast!Before(p, j, m)
<1> DEFINE R == {e \in S \X S : Anycast!Before(p, e[1], e[2])}
<1>1. DOMAIN nodes \subseteq Members /\ nodes \in [DOMAIN nodes -> Anycast!NodeInfo]
  BY PartialFunctions DEF AnycastInv, Anycast!TypeOK
<1>2. \A i \in S : Anycast!Distance(p, i) \in Int /\ nodes[i].priority \in Int
  <2>1. \A i \in S : nodes[i].region \in Anycast!Regions /\ nodes[i].priority \in Priorities
    BY <1>1 DEF Anycast!Healthy, Anycast!NodeInfo
  <2>2. \A i \in S : Places[nodes[i].region] \in Nat
    BY <2>1, AnycastConstants
  <2>3. \A i \in S : Anycast!Distance(p, i) \in Int
    BY <2>2 DEF Anycast!Distance
  <2> QED BY <2>1, <2>3, AnycastConstants
<1>3. IsFiniteSet(S)
  <2>1. S \in SUBSET DOMAIN nodes
    BY DEF Anycast!Healthy
  <2> QED BY <2>1, FS_Subset DEF AnycastInv
<1>4. \A x, y \in S : <<x, y>> \in R <=> Anycast!Before(p, x, y)
  OBVIOUS
<1>5. R \in SUBSET (S \X S)
  OBVIOUS
<1>6. \A x \in S : ~Anycast!Before(p, x, x)
  BY <1>2 DEF Anycast!Before
<1>7. \A x, y, z \in S : Anycast!Before(p, x, y) /\ Anycast!Before(p, y, z)
                           => Anycast!Before(p, x, z)
  BY <1>2 DEF Anycast!Before
<1> HIDE DEF R
<1>8. \E x \in S : \A y \in S : <<y, x>> \notin R
  BY <1>3, <1>4, <1>5, <1>6, <1>7, MinimalElement
<1> QED BY <1>4, <1>8

LEMMA AnycastAgrees == AnycastInv => Anycast!WaysAgree
<1> SUFFICES ASSUME AnycastInv, NEW c \in Ports
             PROVE  LET regions == Anycast!ResolveRegion(c)
                        dns == IF regions = {} THEN Anycast!SelectNearest(0)
                               ELSE UNION {Anycast!SelectNearest(Places[r]) : r \in regions}
                    IN /\ Anycast!SelectNearestForIP(c) = dns
                       /\ Anycast!Healthy # {} => \A p \in Anycast!StaticPlaces(c) :
                            Anycast!SelectNearest(p)
                              = {q[1] : q \in Anycast!SelectNearestWithFailover(p, 2)}
                       /\ \A p \in Anycast!StaticPlaces(c) : \A i \in Anycast!SelectNearest(p) :
                            \E j \in Anycast!SelectByRegion(p, nodes[i].region) :
                              Anycast!Distance(p, i) = Anycast!Distance(p, j)
  BY DEF Anycast!WaysAgree
<1>0. DOMAIN nodes \subseteq Members /\ nodes \in [DOMAIN nodes -> Anycast!NodeInfo]
  BY PartialFunctions DEF AnycastInv, Anycast!TypeOK
<1>p. Anycast!StaticPlaces(c) \subseteq Nat
  <2>1. Anycast!ResolveRegion(c) \subseteq Anycast!Regions
    BY PartialFunctions DEF Anycast!ResolveRegion, AnycastInv, Anycast!TypeOK
  <2> QED BY <2>1, AnycastConstants DEF Anycast!StaticPlaces
<1>d. \A p \in Nat, i \in Anycast!Healthy : Anycast!Distance(p, i) \in Int
  <2>1. \A i \in Anycast!Healthy : nodes[i].region \in Anycast!Regions
    BY <1>0 DEF Anycast!Healthy, Anycast!NodeInfo
  <2>2. \A i \in Anycast!Healthy : Places[nodes[i].region] \in Nat
    BY <2>1, AnycastConstants
  <2> QED BY <2>2 DEF Anycast!Distance
<1>1. Anycast!SelectNearestForIP(c)
        = IF Anycast!ResolveRegion(c) = {} THEN Anycast!SelectNearest(0)
          ELSE UNION {Anycast!SelectNearest(Places[r]) : r \in Anycast!ResolveRegion(c)}
  BY DEF Anycast!SelectNearestForIP, Anycast!StaticPlaces
<1>2. ASSUME Anycast!Healthy # {}, NEW p \in Anycast!StaticPlaces(c)
      PROVE  Anycast!SelectNearest(p)
               = {q[1] : q \in Anycast!SelectNearestWithFailover(p, 2)}
  <2> DEFINE H == Anycast!Healthy
             n == IF 2 < Cardinality(H) THEN 2 ELSE Cardinality(H)
  <2>p. p \in Nat
    BY <1>p
  <2>1. IsFiniteSet(H) /\ Cardinality(H) \in Nat \ {0}
    <3>1. H \in SUBSET DOMAIN nodes
      BY DEF Anycast!Healthy
    <3>2. IsFiniteSet(H)
      BY <3>1, FS_Subset DEF AnycastInv
    <3> HIDE DEF H
    <3> QED BY <1>2, <3>2, FS_CardinalityType, FS_EmptySet DEF H
  <2>2. n \in {1, 2} /\ (n = 1 => Cardinality(H) = 1)
    BY <2>1
  <2>3. Anycast!SelectNearestWithFailover(p, 2)
          = {q \in [1 .. n -> H] :
               /\ \A j, k \in 1 .. n : j < k => q[j] # q[k] /\ ~Anycast!Before(p, q[k], q[j])
               /\ \A i \in H \ {q[k] : k \in 1 .. n} : \A k \in 1 .. n :
                    ~Anycast!Before(p, i, q[k])}
    <3>1. \A S : Anycast!Cardinality(S) = Cardinality(S)
      BY DEF Anycast!Cardinality, Cardinality
    <3> QED BY <3>1 DEF Anycast!SelectNearestWithFailover
  <2>i. \A x \in H : ~Anycast!Before(p, x, x)
    <3>1. \A x \in H : nodes[x].priority \in Int
      BY <1>0, AnycastConstants DEF Anycast!Healthy, Anycast!NodeInfo
    <3> QED BY <2>p, <1>d, <3>1 DEF Anycast!Before
  <2>4. ASSUME NEW q \in Anycast!SelectNearestWithFailover(p, 2)
        PROVE  q[1] \in Anycast!SelectNearest(p)
    <3>1. q[1] \in H
      BY <2>2, <2>3
    <3>2. ASSUME NEW j \in H PROVE ~Anycast!Before(p, j, q[1])
      <4>1. CASE j \in {q[k] : k \in 1 .. n}
        BY <4>1, <3>1, <2>2, <2>3, <2>i
      <4>2. CASE j \notin {q[k] : k \in 1 .. n}
        BY <4>2, <2>2, <2>3
      <4> QED BY <4>1, <4>2
    <3> QED BY <3>1, <3>2 DEF Anycast!SelectNearest
  <2>5. ASSUME NEW i \in Anycast!SelectNearest(p)
        PROVE  \E q \in Anycast!SelectNearestWithFailover(p, 2) : q[1] = i
    <3>1. i \in H /\ \A j \in H : ~Anycast!Before(p, j, i)
      BY DEF Anycast!SelectNearest
    <3>2. CASE n = 1
      <4>1. H = {i}
        <5> HIDE DEF H
        <5> QED BY <2>1, <2>2, <3>1, <3>2, FS_Singleton
      <4> DEFINE q == [k \in 1 .. 1 |-> i]
      <4>2. q \in [1 .. n -> H] /\ q[1] = i
        BY <3>1, <3>2
      <4>3. q \in Anycast!SelectNearestWithFailover(p, 2)
        <5>1. \A k \in 1 .. n : k = 1
          BY <3>2
        <5>2. H \ {q[k] : k \in 1 .. n} = {}
          BY <3>2, <4>1, <4>2
        <5>3. /\ \A j, k \in 1 .. n : j < k => q[j] # q[k] /\ ~Anycast!Before(p, q[k], q[j])
              /\ \A x \in H \ {q[k] : k \in 1 .. n} : \A k \in 1 .. n :
                   ~Anycast!Before(p, x, q[k])
          BY <3>2, <5>2
        <5> HIDE DEF q, n, H
        <5> QED BY <2>3, <4>2, <5>3
      <4> QED BY <4>2, <4>3
    <3>3. CASE n = 2
      <4>1. H \ {i} # {}
        <5>1. Cardinality(H) # 1
          BY <3>3, <2>1
        <5> HIDE DEF H
        <5> QED BY <5>1, <2>1, <3>1, FS_Singleton
      <4>2. PICK m \in H \ {i} : \A j \in H \ {i} : ~Anycast!Before(p, j, m)
        BY <4>1, <2>p, SecondNearest
      <4> DEFINE q == [k \in 1 .. 2 |-> IF k = 1 THEN i ELSE m]
      <4>3. q \in [1 .. n -> H] /\ q[1] = i /\ q[2] = m
        BY <3>1, <3>3, <4>2
      <4>4. q \in Anycast!SelectNearestWithFailover(p, 2)
        <5> HIDE DEF q
        <5> QED BY <2>3, <3>1, <3>3, <4>2, <4>3
      <4> QED BY <4>3, <4>4
    <3> QED BY <2>2, <3>2, <3>3
  <2> QED BY <2>4, <2>5
<1>3. ASSUME NEW p \in Anycast!StaticPlaces(c), NEW i \in Anycast!SelectNearest(p)
      PROVE  \E j \in Anycast!SelectByRegion(p, nodes[i].region) :
               Anycast!Distance(p, i) = Anycast!Distance(p, j)
  <2>1. i \in Anycast!SelectByRegion(p, nodes[i].region)
    BY <1>p, <1>d DEF Anycast!SelectNearest, Anycast!SelectByRegion, Anycast!Before
  <2> QED BY <2>1
<1> QED BY <1>1, <1>2, <1>3

\* Heartbeats and status follow the registered nodes, and every way to a node
\* leads to a nearest healthy one, whatever overlaps meanwhile, for any edge
\* nodes, thresholds, addresses and places (edge/health.go, controlplane.go;
\* anycast/router.go, geoip.go).
THEOREM Edges == ASSUME Flows # {} PROVE Spec => []EdgeFollows
<1> DEFINE Inv == (part = "edge" => EdgeInv) /\ (part = "anycast" => AnycastInv)
<1>1. Init => Inv
  BY EdgeInit, AnycastInit
<1>2. Inv /\ [Next]_vars => Inv'
  <2> SUFFICES ASSUME Inv, [Next]_vars PROVE Inv'
    OBVIOUS
  <2>1. CASE Next
    BY <2>1, EdgeStep, AnycastStep DEF Next
  <2>2. CASE UNCHANGED vars
    <3>1. ASSUME EdgeInv PROVE EdgeInv'
      BY <2>2, <3>1 DEF vars, edgeVars, EdgeInv, Edge!TypeOK, HeartbeatInv, ObjectInv, About,
                        Edge!Idle, Edge!StatusFollowsProbes
    <3>2. ASSUME AnycastInv PROVE AnycastInv'
      <4>1. \A q : Anycast!SelectNearest(q)' = Anycast!SelectNearest(q)
        BY <2>2 DEF vars, anycastVars, Anycast!SelectNearest, Anycast!Healthy,
                    Anycast!Before, Anycast!Distance
      <4> QED BY <2>2, <3>2, <4>1 DEF vars, anycastVars, AnycastInv, Anycast!TypeOK,
                                      Anycast!AnswerIsNearest
    <3> QED BY <2>2, <3>1, <3>2 DEF vars
  <2> QED BY <2>1, <2>2
<1>3. Inv => EdgeFollows
  <2>1. EdgeInv => Edge!TypeOK /\ Edge!HeartbeatsFollow /\ Edge!StatusFollowsProbes
    BY DEF EdgeInv, HeartbeatInv, About, Edge!HeartbeatsFollow
  <2>2. AnycastInv => Anycast!TypeOK /\ Anycast!WaysAgree /\ Anycast!AnswerIsNearest
    BY AnycastAgrees DEF AnycastInv
  <2> QED BY <2>1, <2>2 DEF EdgeFollows
<1> QED BY <1>1, <1>2, <1>3, PTL DEF Spec

-------------------------------------------------------------------------------
(* The contexts of the command line.                                       *)

\* A copy of the contexts is sound.
Sound(s) ==
  /\ s.current # None => s.contexts[s.current] # None
  /\ \A n \in Members : s.contexts[n] # None =>
       s.contexts[n].token \in {s.contexts[n].dashboard, None}
\* What a command is about to put into its copy has a token of its dashboard.
EntriesFit ==
  \A c \in Callers :
    /\ edit[c].pc \in {"post", "login", "set"} =>
         /\ edit[c].entry \in Contexts!Context
         /\ edit[c].entry.token \in {edit[c].entry.dashboard, None}
    /\ edit[c].pc \in {"post", "login", "set", "use"} => edit[c].name \in Members
CopiesFit ==
  /\ \A c \in Callers : Sound(edit[c].store)
  /\ config \notin {None, Cut} => Sound(config)
ContextInv == Contexts!TypeOK /\ EntriesFit /\ CopiesFit /\ Contexts!FileReads

Edits == [pc : {"idle", "post", "login", "set", "use", "save", "write"},
          name : Members \cup {None}, entry : Contexts!Context \cup {None},
          store : Contexts!Store]

LEMMA ContextConstants ==
  /\ None \notin Members /\ None \notin Contexts!Context
  /\ None # Cut /\ None \notin Contexts!Store /\ Cut \notin Contexts!Store
BY ConstantsFit DEF ConstantsFit, Contexts!NoneAssumption

LEMMA EmptyStore == Contexts!Empty \in Contexts!Store /\ Sound(Contexts!Empty)
BY ContextConstants DEF Contexts!Empty, Contexts!Store, Sound

\* A context replaced by one whose token fits, which is then the current one or
\* leaves the current one as it was.
LEMMA StoreChanges ==
  ASSUME NEW s \in Contexts!Store, Sound(s), NEW n \in Members, NEW e \in Contexts!Context,
         e.token \in {e.dashboard, None}, NEW m \in {n, s.current}, m = None => s.current = None
  PROVE  LET u == [current |-> m, contexts |-> [s.contexts EXCEPT ![n] = e]]
         IN u \in Contexts!Store /\ Sound(u)
<1> DEFINE g == [s.contexts EXCEPT ![n] = e]
<1>1. s.current \in Members \cup {None} /\ s.contexts \in [Members -> Contexts!Context \cup {None}]
  BY DEF Contexts!Store
<1>2. /\ g \in [Members -> Contexts!Context \cup {None}] /\ g[n] = e
      /\ \A k \in Members \ {n} : g[k] = s.contexts[k]
  BY <1>1
<1> HIDE DEF g
<1>3. [current |-> m, contexts |-> g] \in Contexts!Store
  BY <1>1, <1>2 DEF Contexts!Store
<1>4. Sound([current |-> m, contexts |-> g])
  BY <1>1, <1>2, ContextConstants DEF Sound
<1> QED BY <1>3, <1>4 DEF g

LEMMA ContextInit == Init => ContextInv
<1> SUFFICES ASSUME Init PROVE ContextInv
  OBVIOUS
<1> USE ContextConstants, EmptyStore DEF Init, Contexts!Init, Contexts!Idle
<1> HIDE DEF Contexts!Empty
<1>1. Contexts!TypeOK
  BY DEF Contexts!TypeOK
<1>2. EntriesFit
  BY DEF EntriesFit
<1>3. CopiesFit
  BY DEF CopiesFit
<1>4. Contexts!FileReads
  BY DEF Contexts!FileReads
<1> QED BY <1>1, <1>2, <1>3, <1>4 DEF ContextInv

\* A command does a step that leaves the file alone.
LEMMA EditStep ==
  ASSUME ContextInv, NEW c \in Callers, NEW k \in Edits, edit' = [edit EXCEPT ![c] = k],
         UNCHANGED <<config, spoilt>>, edit[c].pc # "write",
         k.pc \in {"post", "login", "set"} =>
           k.entry \in Contexts!Context /\ k.entry.token \in {k.entry.dashboard, None},
         k.pc \in {"post", "login", "set", "use"} => k.name \in Members,
         Sound(k.store)
  PROVE  ContextInv'
<1>1. /\ edit' \in [Callers -> Edits] /\ edit'[c] = k
      /\ \A d \in Callers \ {c} : edit'[d] = edit[d]
  BY DEF ContextInv, Contexts!TypeOK, Edits
<1>2. Contexts!TypeOK'
  BY <1>1 DEF ContextInv, Contexts!TypeOK, Edits
<1>3. EntriesFit'
  BY <1>1 DEF ContextInv, EntriesFit
<1>4. CopiesFit'
  BY <1>1 DEF ContextInv, CopiesFit, Sound
<1>5. Contexts!FileReads'
  BY <1>1 DEF ContextInv, Contexts!FileReads, Contexts!At
<1> QED BY <1>2, <1>3, <1>4, <1>5 DEF ContextInv

LEMMA ContextStep == ContextInv /\ Contexts!Next => ContextInv'
<1> SUFFICES ASSUME ContextInv, NEW c \in Callers,
                    \/ Contexts!BeginSet(c) \/ Contexts!BeginUse(c) \/ Contexts!BeginLogin(c)
                    \/ Contexts!Post(c) \/ Contexts!LoadFails(c) \/ Contexts!SetContext(c)
                    \/ Contexts!UseContext(c) \/ Contexts!Login(c) \/ Contexts!Truncate(c)
                    \/ Contexts!Write(c) \/ Contexts!Interrupt(c)
             PROVE  ContextInv'
  BY DEF Contexts!Next
<1>n. \/ Contexts!BeginSet(c) \/ Contexts!BeginUse(c) \/ Contexts!BeginLogin(c)
      \/ Contexts!Post(c) \/ Contexts!LoadFails(c) \/ Contexts!SetContext(c)
      \/ Contexts!UseContext(c) \/ Contexts!Login(c) \/ Contexts!Truncate(c)
      \/ Contexts!Write(c) \/ Contexts!Interrupt(c)
  OBVIOUS
<1>e. edit \in [Callers -> Edits] /\ edit[c] \in Edits
  BY DEF ContextInv, Contexts!TypeOK, Edits
<1>i. Contexts!Idle \in Edits /\ Contexts!Idle.pc = "idle" /\ Sound(Contexts!Idle.store)
  BY EmptyStore DEF Contexts!Idle, Edits
<1>l. config # Cut => Contexts!Loaded \in Contexts!Store /\ Sound(Contexts!Loaded)
  BY EmptyStore DEF Contexts!Loaded, ContextInv, CopiesFit, Contexts!TypeOK
<1>1. ASSUME Contexts!BeginSet(c) PROVE ContextInv'
  <2>1. PICK n \in Members, p \in BOOLEAN, d \in Names \cup {None} :
          Contexts!Start(c, "set", n, [plane |-> p, dashboard |-> d, token |-> d])
    BY <1>1 DEF Contexts!BeginSet
  <2>2. PICK e \in Contexts!Context : e.token = e.dashboard /\ Contexts!Start(c, "set", n, e)
    BY <2>1 DEF Contexts!Context
  <2>3. [pc |-> "set", name |-> n, entry |-> e, store |-> Contexts!Empty] \in Edits
    BY EmptyStore DEF Edits
  <2> QED BY <2>2, <2>3, EditStep, EmptyStore DEF Contexts!Start, Contexts!At
<1>2. ASSUME Contexts!BeginUse(c) PROVE ContextInv'
  <2>1. PICK n \in Members : Contexts!Start(c, "use", n, None)
    BY <1>2 DEF Contexts!BeginUse
  <2>2. [pc |-> "use", name |-> n, entry |-> None, store |-> Contexts!Empty] \in Edits
    BY EmptyStore DEF Edits
  <2> QED BY <2>1, <2>2, EditStep, EmptyStore DEF Contexts!Start, Contexts!At
<1>3. ASSUME Contexts!BeginLogin(c) PROVE ContextInv'
  <2>1. PICK n \in Members, d \in Names :
          Contexts!Start(c, "post", n, [plane |-> FALSE, dashboard |-> d, token |-> None])
    BY <1>3 DEF Contexts!BeginLogin
  <2>2. PICK e \in Contexts!Context : e.token = None /\ Contexts!Start(c, "post", n, e)
    BY <2>1 DEF Contexts!Context
  <2>3. [pc |-> "post", name |-> n, entry |-> e, store |-> Contexts!Empty] \in Edits
    BY EmptyStore DEF Edits
  <2> QED BY <2>2, <2>3, EditStep, EmptyStore DEF Contexts!Start, Contexts!At
<1>f. ASSUME Contexts!Finish(c), UNCHANGED <<config, spoilt>>, edit[c].pc # "write"
      PROVE  ContextInv'
  BY <1>f, <1>i, EditStep DEF Contexts!Finish
<1>4. ASSUME Contexts!Post(c) PROVE ContextInv'
  <2>1. /\ edit[c].entry \in Contexts!Context /\ edit[c].name \in Members
        /\ edit[c].pc = "post" /\ Sound(edit[c].store) /\ edit[c].store \in Contexts!Store
        /\ UNCHANGED <<config, spoilt>>
    BY <1>4, <1>e DEF Contexts!Post, Contexts!At, ContextInv, EntriesFit, CopiesFit, Edits
  <2>2. CASE Contexts!Finish(c)
    BY <1>f, <2>1, <2>2
  <2> DEFINE d == edit[c].entry.dashboard
             e == [plane |-> edit[c].entry.plane, dashboard |-> d, token |-> d]
             k == [pc |-> "login", name |-> edit[c].name, store |-> edit[c].store, entry |-> e]
  <2>3. CASE edit' = [edit EXCEPT ![c] = k]
    <3>1. e \in Contexts!Context /\ e.token = e.dashboard
      BY <2>1 DEF Contexts!Context
    <3> HIDE DEF e
    <3>2. k \in Edits /\ k.pc = "login" /\ k.entry = e /\ k.name = edit[c].name
          /\ k.store = edit[c].store
      BY <2>1, <3>1 DEF Edits
    <3> HIDE DEF k
    <3> QED BY <2>1, <2>3, <3>1, <3>2, EditStep
  <2> QED BY <1>4, <2>2, <2>3 DEF Contexts!Post
<1>5. ASSUME Contexts!LoadFails(c) PROVE ContextInv'
  BY <1>5, <1>f DEF Contexts!LoadFails
\* What the commands that save do: their copy is sound.
<1>s. ASSUME NEW s \in Contexts!Store, Sound(s), Contexts!Save(c, s), edit[c].pc # "write",
             UNCHANGED <<config, spoilt>>
      PROVE  ContextInv'
  <2>1. [pc |-> "save", name |-> None, entry |-> None, store |-> s] \in Edits
    BY DEF Edits
  <2> QED BY <1>s, <2>1, EditStep DEF Contexts!Save
<1>6. ASSUME Contexts!SetContext(c) PROVE ContextInv'
  <2> DEFINE n == edit[c].name
             s == Contexts!Loaded
             e == edit[c].entry
             m == IF s.current = None THEN n ELSE s.current
  <2>1. /\ n \in Members /\ e \in Contexts!Context /\ e.token \in {e.dashboard, None}
        /\ s \in Contexts!Store /\ Sound(s) /\ edit[c].pc = "set"
        /\ UNCHANGED <<config, spoilt>>
        /\ Contexts!Save(c, [current |-> m, contexts |-> [s.contexts EXCEPT ![n] = e]])
    BY <1>6, <1>l DEF Contexts!SetContext, Contexts!At, ContextInv, EntriesFit
  <2>2. m \in {n, s.current} /\ (m = None => s.current = None)
    BY <2>1, ContextConstants
  <2> HIDE DEF n, s, e, m
  <2>3. LET u == [current |-> m, contexts |-> [s.contexts EXCEPT ![n] = e]]
        IN u \in Contexts!Store /\ Sound(u)
    BY <2>1, <2>2, StoreChanges
  <2> QED BY <1>s, <2>1, <2>3
<1>7. ASSUME Contexts!UseContext(c) PROVE ContextInv'
  <2> DEFINE s == Contexts!Loaded
             u == [current |-> edit[c].name, contexts |-> s.contexts]
  <2>1. /\ edit[c].name \in Members /\ s \in Contexts!Store /\ Sound(s) /\ edit[c].pc = "use"
        /\ UNCHANGED <<config, spoilt>>
    BY <1>7, <1>l DEF Contexts!UseContext, Contexts!At, ContextInv, EntriesFit
  <2>2. CASE s.contexts[edit[c].name] = None
    BY <1>7, <1>f, <2>1, <2>2 DEF Contexts!UseContext
  <2>3. CASE s.contexts[edit[c].name] # None
    <3>1. Contexts!Save(c, u)
      BY <1>7, <2>3 DEF Contexts!UseContext
    <3>2. u \in Contexts!Store /\ Sound(u)
      <4> HIDE DEF s
      <4> QED BY <2>1, <2>3 DEF Contexts!Store, Sound
    <3> HIDE DEF u
    <3> QED BY <1>s, <2>1, <3>1, <3>2
  <2> QED BY <2>2, <2>3
<1>8. ASSUME Contexts!Login(c) PROVE ContextInv'
  <2> DEFINE n == edit[c].name
             s == Contexts!Loaded
             p == s.contexts[n] # None /\ s.contexts[n].plane
             e == [plane |-> p, dashboard |-> edit[c].entry.dashboard,
                   token |-> edit[c].entry.token]
  <2>1. /\ n \in Members /\ edit[c].entry \in Contexts!Context
        /\ edit[c].entry.token \in {edit[c].entry.dashboard, None}
        /\ s \in Contexts!Store /\ Sound(s) /\ edit[c].pc = "login"
        /\ UNCHANGED <<config, spoilt>>
        /\ Contexts!Save(c, [current |-> n, contexts |-> [s.contexts EXCEPT ![n] = e]])
    BY <1>8, <1>l DEF Contexts!Login, Contexts!At, ContextInv, EntriesFit
  <2>2. e \in Contexts!Context /\ e.token \in {e.dashboard, None}
    BY <2>1 DEF Contexts!Context
  <2>3. n \in {n, s.current} /\ n # None
    BY <2>1, ContextConstants
  <2> HIDE DEF n, s, p, e
  <2>4. LET u == [current |-> n, contexts |-> [s.contexts EXCEPT ![n] = e]]
        IN u \in Contexts!Store /\ Sound(u)
    BY <2>1, <2>2, <2>3, StoreChanges
  <2> QED BY <1>s, <2>1, <2>4
<1>9. ASSUME Contexts!Truncate(c) PROVE ContextInv'
  <2>1. PICK k \in Edits :
          edit' = [edit EXCEPT ![c] = k] /\ k.pc = "write" /\ Sound(k.store)
    <3> DEFINE k == [pc |-> "write", name |-> edit[c].name, entry |-> edit[c].entry,
                     store |-> edit[c].store]
    <3>1. k \in Edits /\ k.pc = "write" /\ k.store = edit[c].store
      BY <1>e DEF Edits
    <3>2. edit' = [edit EXCEPT ![c] = k]
      BY <1>9 DEF Contexts!Truncate
    <3>3. Sound(edit[c].store)
      BY DEF ContextInv, CopiesFit
    <3> HIDE DEF k
    <3> QED BY <3>1, <3>2, <3>3
  <2>2. config' = Cut /\ spoilt' = spoilt
    BY <1>9 DEF Contexts!Truncate
  <2>3. /\ edit' \in [Callers -> Edits] /\ edit'[c] = k
        /\ \A d \in Callers \ {c} : edit'[d] = edit[d]
    BY <2>1, <1>e
  <2>4. Contexts!TypeOK'
    BY <2>2, <2>3 DEF ContextInv, Contexts!TypeOK, Edits
  <2>5. EntriesFit'
    BY <2>1, <2>3 DEF ContextInv, EntriesFit
  <2>6. CopiesFit'
    BY <2>1, <2>2, <2>3 DEF ContextInv, CopiesFit, Sound
  <2>7. Contexts!FileReads'
    BY <2>1, <2>3 DEF Contexts!FileReads, Contexts!At
  <2> QED BY <2>4, <2>5, <2>6, <2>7 DEF ContextInv
<1>10. ASSUME Contexts!Write(c) \/ (Contexts!Interrupt(c) /\ edit[c].pc = "write")
       PROVE  ContextInv'
  <2>1. /\ edit' = [edit EXCEPT ![c] = Contexts!Idle] /\ spoilt' \in BOOLEAN
        /\ config' \in {edit[c].store, Cut, config} /\ (spoilt => spoilt')
        /\ (config' = Cut => spoilt' \/ config' = edit[c].store)
    BY <1>10 DEF Contexts!Write, Contexts!Interrupt, Contexts!Finish, Contexts!At, ContextInv,
                 Contexts!TypeOK
  <2>2. /\ edit' \in [Callers -> Edits] /\ edit'[c] = Contexts!Idle
        /\ \A d \in Callers \ {c} : edit'[d] = edit[d]
    BY <2>1, <1>e, <1>i
  <2>3. edit[c].store \in Contexts!Store /\ Sound(edit[c].store)
    BY <1>e DEF Edits, ContextInv, CopiesFit
  <2>4. Contexts!TypeOK'
    BY <2>1, <2>2, <2>3 DEF ContextInv, Contexts!TypeOK, Edits
  <2>5. EntriesFit'
    BY <2>2, <1>i DEF ContextInv, EntriesFit
  <2>6. CopiesFit'
    BY <2>1, <2>2, <2>3, <1>i DEF ContextInv, CopiesFit, Sound
  <2>7. Contexts!FileReads'
    BY <2>1, <2>3, ContextConstants DEF Contexts!FileReads
  <2> QED BY <2>4, <2>5, <2>6, <2>7 DEF ContextInv
<1>11. ASSUME Contexts!Interrupt(c), edit[c].pc # "write" PROVE ContextInv'
  BY <1>11, <1>f DEF Contexts!Interrupt, Contexts!At
<1> QED BY <1>1, <1>2, <1>3, <1>4, <1>5, <1>6, <1>7, <1>8, <1>9, <1>10, <1>11, <1>n

-------------------------------------------------------------------------------
(* The processes of the server.                                            *)

Parts == Processes!Parts
Deeds == {"start", "stop"} \X Parts
Commands == [plan : Seq(Deeds), at : {"look", "spawn", "write", "kill", "remove"},
             pid : Pids \cup {None}]

\* c is between its look at a start of s and the file it writes for it.
InStart(c, s) ==
  /\ Processes!At(c, "start", "spawn") \/ Processes!At(c, "start", "write")
  /\ Processes!Name(c) = s

\* Of the starts of a part that nothing went wrong with there is one at a time;
\* until it makes the process there is none, and then it is the only one.
StartsInv ==
  \A c \in Callers, s \in Parts \ lost : InStart(c, s) =>
    /\ \A d \in Callers : InStart(d, s) => d = c
    /\ \A n \in Pids : runs[n] = s =>
         Processes!At(c, "start", "write") /\ command[c].pid = n
ProcessInv ==
  /\ runs \in [Pids -> Parts \cup {Other, None}]
  /\ pidFile \in [Parts -> Pids \cup {None}]
  /\ command \in [Callers -> Commands]
  /\ \A c \in Callers : Processes!At(c, "start", "write") => command[c].pid \in Pids
  /\ \A c \in Callers : Processes!At(c, "stop", "kill") => command[c].pid \in Pids
  /\ lost \subseteq Parts
  /\ StartsInv
  /\ Processes!ServersAreTracked

LEMMA ProcessConstants ==
  /\ None \notin Pids /\ None \notin Parts /\ Other \notin Parts
  /\ Stack \in Seq(Parts)
<1>1. None \notin Pids /\ None \notin Parts /\ Other \notin Parts
  BY ConstantsFit DEF ConstantsFit, Processes!NoneAssumption, Parts, Processes!Parts
<1>2. Stack \in Seq(Parts)
  BY DEF Stack, Parts, Processes!Parts, Processes!ToSet
<1> QED BY <1>1, <1>2

LEMMA Plans ==
  {Processes!Starts, Processes!Stops, Processes!Stops \o Processes!Starts} \subseteq Seq(Deeds)
<1>1. Len(Stack) \in Nat /\ \A k \in 1 .. Len(Stack) : Stack[k] \in Parts
  BY ProcessConstants
<1> HIDE DEF Stack
<1>2. Processes!Starts \in Seq(Deeds)
  BY <1>1 DEF Processes!Starts, Deeds
<1>3. Processes!Stops \in Seq(Deeds)
  <2>1. \A k \in 1 .. Len(Stack) : Len(Stack) + 1 - k \in 1 .. Len(Stack)
    BY <1>1
  <2> QED BY <1>1, <2>1 DEF Processes!Stops, Deeds
<1> QED BY <1>2, <1>3

\* The step of a command is one of its plan.
LEMMA Steps ==
  ASSUME NEW k \in Commands, k.plan # <<>>
  PROVE  /\ Head(k.plan) \in Deeds /\ Tail(k.plan) \in Seq(Deeds)
         /\ Head(k.plan)[1] \in {"start", "stop"} /\ Head(k.plan)[2] \in Parts
<1>1. Head(k.plan) \in Deeds /\ Tail(k.plan) \in Seq(Deeds)
  BY DEF Commands
<1> QED BY <1>1 DEF Deeds

LEMMA ProcessInit == Init => ProcessInv
<1> SUFFICES ASSUME Init PROVE ProcessInv
  OBVIOUS
<1> USE ProcessConstants DEF Init, Processes!Init
<1>1. Processes!Done \in Commands
  BY DEF Processes!Done, Commands
<1>2. \A c \in Callers : command[c].plan = <<>>
  BY DEF Processes!Done
<1>3. \A c \in Callers : \A what, at : ~Processes!At(c, what, at)
  BY <1>2 DEF Processes!At, Processes!Idle
<1>4. StartsInv
  BY <1>3 DEF StartsInv, InStart
<1>5. Processes!ServersAreTracked
  BY DEF Processes!ServersAreTracked, Parts
<1> QED BY <1>1, <1>3, <1>4, <1>5 DEF ProcessInv, Parts

\* A command whose new step starts nothing, and what it did before with the
\* process it has started.
LEMMA CommandStep ==
  ASSUME ProcessInv, NEW c \in Callers, NEW k \in Commands,
         command' = [command EXCEPT ![c] = k],
         ~(k.plan # <<>> /\ Head(k.plan)[1] = "start" /\ k.at \in {"spawn", "write"}),
         (k.plan # <<>> /\ Head(k.plan)[1] = "stop" /\ k.at = "kill") => k.pid \in Pids,
         runs' \in [Pids -> Parts \cup {Other, None}],
         pidFile' \in [Parts -> Pids \cup {None}],
         lost \subseteq lost', lost' \subseteq Parts,
         \A n \in Pids : runs'[n] \in {runs[n], None},
         \A n \in Pids : runs'[n] \in Parts \ lost' => \/ pidFile'[runs[n]] = n
           \/ /\ pidFile'[runs[n]] = pidFile[runs[n]]
              /\ ~(Processes!At(c, "start", "write") /\ command[c].pid = n
                   /\ Processes!Name(c) = runs[n])
           \/ \E d \in Callers \ {c} : Processes!At(d, "start", "write")
                /\ command[d].pid = n /\ Processes!Name(d) = runs[n]
  PROVE  ProcessInv'
<1> USE ProcessConstants
<1>1. /\ command' \in [Callers -> Commands] /\ command'[c] = k
      /\ \A d \in Callers \ {c} : command'[d] = command[d]
  BY DEF ProcessInv
<1>2. \A what, at : \A d \in Callers \ {c} :
        /\ Processes!At(d, what, at)' <=> Processes!At(d, what, at)
        /\ Processes!Name(d)' = Processes!Name(d)
  BY <1>1 DEF Processes!At, Processes!Idle, Processes!Step, Processes!Name
<1>3. /\ ~Processes!At(c, "start", "spawn")' /\ ~Processes!At(c, "start", "write")'
      /\ Processes!At(c, "stop", "kill")' => command'[c].pid \in Pids
  BY <1>1 DEF Processes!At, Processes!Idle, Processes!Step
<1>4. StartsInv'
  <2> SUFFICES ASSUME NEW b \in Callers, NEW s \in Parts \ lost', InStart(b, s)'
               PROVE  /\ \A d \in Callers : InStart(d, s)' => d = b
                      /\ \A n \in Pids : runs'[n] = s =>
                           Processes!At(b, "start", "write")' /\ command'[b].pid = n
    BY DEF StartsInv
  <2>1. b # c /\ InStart(b, s) /\ s \in Parts \ lost
    BY <1>2, <1>3 DEF InStart
  <2>2. \A d \in Callers : InStart(d, s)' => InStart(d, s)
    BY <1>2, <1>3 DEF InStart
  <2>3. \A n \in Pids : runs'[n] = s => runs[n] = s
    OBVIOUS
  <2>4. /\ \A d \in Callers : InStart(d, s) => d = b
        /\ \A n \in Pids : runs[n] = s =>
             Processes!At(b, "start", "write") /\ command[b].pid = n
    BY <2>1 DEF ProcessInv, StartsInv
  <2> QED BY <1>1, <1>2, <2>1, <2>2, <2>3, <2>4
<1>5. Processes!ServersAreTracked'
  <2> SUFFICES ASSUME NEW n \in Pids, runs'[n] \in Parts \ lost'
               PROVE  \/ pidFile'[runs'[n]] = n
                      \/ \E d \in Callers : Processes!At(d, "start", "write")'
                           /\ command'[d].pid = n /\ Processes!Name(d)' = runs'[n]
    BY DEF Processes!ServersAreTracked, Parts
  <2>1. runs'[n] = runs[n] /\ runs[n] \in Parts \ lost
    OBVIOUS
  <2>2. \/ pidFile[runs[n]] = n
        \/ \E d \in Callers : Processes!At(d, "start", "write")
             /\ command[d].pid = n /\ Processes!Name(d) = runs[n]
    BY <2>1 DEF ProcessInv, Processes!ServersAreTracked, Parts
  <2> QED BY <1>1, <1>2, <2>1, <2>2
<1>6. \A d \in Callers : Processes!At(d, "start", "write")' => command'[d].pid \in Pids
  BY <1>1, <1>2, <1>3 DEF ProcessInv
<1>7. \A d \in Callers : Processes!At(d, "stop", "kill")' => command'[d].pid \in Pids
  BY <1>1, <1>2, <1>3 DEF ProcessInv
<1> QED BY <1>1, <1>4, <1>5, <1>6, <1>7 DEF ProcessInv

LEMMA ProcessStep == ProcessInv /\ Processes!Next => ProcessInv'
<1> SUFFICES ASSUME ProcessInv, Processes!Next PROVE ProcessInv'
  OBVIOUS
<1>n. Processes!Next
  OBVIOUS
<1> USE ProcessConstants
<1>t. /\ runs \in [Pids -> Parts \cup {Other, None}]
      /\ pidFile \in [Parts -> Pids \cup {None}]
      /\ command \in [Callers -> Commands] /\ lost \subseteq Parts
  BY DEF ProcessInv
<1>k. \A c \in Callers : ~Processes!Idle(c) =>
        /\ Tail(command[c].plan) \in Seq(Deeds) /\ command[c].plan \in Seq(Deeds)
        /\ Processes!Step(c)[1] \in {"start", "stop"} /\ Processes!Name(c) \in Parts
  BY <1>t, Steps DEF Processes!Idle, Processes!Step, Processes!Name, Commands
<1>d. Processes!Done \in Commands /\ Processes!Done.plan = <<>>
  BY DEF Processes!Done, Commands
\* A command looks at its next step, with nothing in hand.
<1>f. ASSUME NEW plan \in Seq(Deeds)
      PROVE  [plan |-> plan, at |-> "look", pid |-> None] \in Commands
  BY DEF Commands
<1>1. ASSUME NEW c \in Callers, Processes!Begin(c) PROVE ProcessInv'
  <2>1. PICK plan \in Seq(Deeds) : Processes!Follow(c, plan)
    BY <1>1, Plans DEF Processes!Begin
  <2> DEFINE k == [plan |-> plan, at |-> "look", pid |-> None]
  <2>2. k \in Commands /\ k.at = "look" /\ command' = [command EXCEPT ![c] = k]
    BY <1>f, <2>1 DEF Processes!Follow
  <2>3. Processes!Idle(c) /\ UNCHANGED <<runs, pidFile, lost>>
    BY <1>1 DEF Processes!Begin
  <2> HIDE DEF k
  <2> QED BY <1>t, <2>2, <2>3, CommandStep DEF Processes!At
<1>a. ASSUME NEW c \in Callers, ~Processes!Idle(c), Processes!Advance(c)
      PROVE  \E k \in Commands : k.at = "look" /\ command' = [command EXCEPT ![c] = k]
  <2> DEFINE k == [plan |-> Tail(command[c].plan), at |-> "look", pid |-> None]
  <2>1. k \in Commands /\ k.at = "look"
    BY <1>a, <1>f, <1>k
  <2>2. command' = [command EXCEPT ![c] = k]
    BY <1>a DEF Processes!Advance, Processes!Follow
  <2> HIDE DEF k
  <2> QED BY <2>1, <2>2
<1>2. ASSUME NEW c \in Callers, Processes!SkipStart(c) \/ Processes!SkipStop(c)
      PROVE  ProcessInv'
  <2>1. /\ ~Processes!Idle(c) /\ Processes!Advance(c) /\ command[c].at = "look"
        /\ UNCHANGED <<runs, pidFile, lost>>
    BY <1>2 DEF Processes!SkipStart, Processes!SkipStop, Processes!At
  <2>2. PICK k \in Commands : k.at = "look" /\ command' = [command EXCEPT ![c] = k]
    BY <1>a, <2>1
  <2> QED BY <1>t, <2>1, <2>2, CommandStep DEF Processes!At
<1>3. ASSUME NEW c \in Callers, Processes!LookStart(c) PROVE ProcessInv'
  <2>1. /\ ~Processes!Idle(c) /\ Processes!Step(c)[1] = "start" /\ command[c].at = "look"
        /\ ~Processes!Exists(pidFile[Processes!Name(c)])
        /\ UNCHANGED <<runs, pidFile>>
        /\ lost' = IF Processes!Starting(c) THEN lost \cup {Processes!Name(c)} ELSE lost
    BY <1>3 DEF Processes!LookStart, Processes!At
  <2>2. /\ command' \in [Callers -> Commands]
        /\ command'[c].plan = command[c].plan /\ command'[c].at = "spawn"
        /\ \A d \in Callers \ {c} : command'[d] = command[d]
    <3> DEFINE k == [plan |-> command[c].plan, at |-> "spawn", pid |-> None]
    <3>1. k \in Commands /\ k.plan = command[c].plan /\ k.at = "spawn"
      BY <1>t DEF Commands
    <3>2. command' = [command EXCEPT ![c] = k]
      BY <1>3 DEF Processes!LookStart, Processes!Goto
    <3> HIDE DEF k
    <3> QED BY <1>t, <3>1, <3>2
  <2>3. /\ Processes!At(c, "start", "spawn")' /\ ~Processes!At(c, "start", "write")'
        /\ ~Processes!At(c, "stop", "kill")' /\ Processes!Name(c)' = Processes!Name(c)
        /\ ~Processes!At(c, "start", "write")
    BY <2>1, <2>2 DEF Processes!At, Processes!Idle, Processes!Step, Processes!Name
  <2>4. \A what, at : \A d \in Callers \ {c} :
          /\ Processes!At(d, what, at)' <=> Processes!At(d, what, at)
          /\ Processes!Name(d)' = Processes!Name(d)
    BY <2>2 DEF Processes!At, Processes!Idle, Processes!Step, Processes!Name
  <2>5. lost \subseteq lost' /\ lost' \subseteq Parts
    BY <1>t, <1>k, <2>1
  <2>6. StartsInv'
    <3> SUFFICES ASSUME NEW b \in Callers, NEW s \in Parts \ lost', InStart(b, s)'
                 PROVE  /\ \A d \in Callers : InStart(d, s)' => d = b
                        /\ \A n \in Pids : runs[n] = s =>
                             Processes!At(b, "start", "write")' /\ command'[b].pid = n
      BY <2>1 DEF StartsInv
    <3>1. CASE s = Processes!Name(c)
      <4>1. \A d \in Callers \ {c} : ~InStart(d, s)
        BY <2>1, <3>1 DEF Processes!Starting, InStart
      <4>2. \A d \in Callers \ {c} : ~InStart(d, s)'
        BY <2>4, <4>1 DEF InStart
      <4>3. \A n \in Pids : runs[n] # s
        <5> SUFFICES ASSUME NEW n \in Pids, runs[n] = s PROVE FALSE
          OBVIOUS
        <5>1. pidFile[s] = n
          BY <2>3, <2>5, <4>1 DEF ProcessInv, Processes!ServersAreTracked, Parts, InStart
        <5> QED BY <2>1, <3>1, <5>1 DEF Processes!Exists
      <4> QED BY <4>2, <4>3
    <3>2. CASE s # Processes!Name(c)
      <4>1. b # c /\ InStart(b, s)
        BY <2>3, <2>4, <3>2 DEF InStart
      <4>2. \A d \in Callers : InStart(d, s)' => InStart(d, s)
        BY <2>3, <2>4, <3>2 DEF InStart
      <4> QED BY <2>2, <2>4, <2>5, <4>1, <4>2 DEF ProcessInv, StartsInv
    <3> QED BY <3>1, <3>2
  <2>7. Processes!ServersAreTracked'
    BY <2>1, <2>2, <2>3, <2>4, <2>5 DEF ProcessInv, Processes!ServersAreTracked, Parts
  <2>8. /\ \A d \in Callers : Processes!At(d, "start", "write")' => command'[d].pid \in Pids
        /\ \A d \in Callers : Processes!At(d, "stop", "kill")' => command'[d].pid \in Pids
    BY <2>2, <2>3, <2>4 DEF ProcessInv
  <2> QED BY <1>t, <2>1, <2>2, <2>5, <2>6, <2>7, <2>8 DEF ProcessInv
<1>4. ASSUME NEW c \in Callers, Processes!Spawn(c) PROVE ProcessInv'
  <2>1. /\ Processes!At(c, "start", "spawn") /\ ~Processes!Idle(c)
        /\ Processes!Step(c)[1] = "start" /\ command[c].at = "spawn"
        /\ UNCHANGED <<pidFile, lost>>
    BY <1>4 DEF Processes!Spawn, Processes!At
  <2>2. PICK n \in Pids : /\ runs[n] = None
                          /\ runs' = [runs EXCEPT ![n] = Processes!Name(c)]
                          /\ Processes!Goto(c, "write", n)
    BY <1>4 DEF Processes!Spawn
  <2>3. /\ command' \in [Callers -> Commands]
        /\ command'[c].plan = command[c].plan /\ command'[c].at = "write"
        /\ command'[c].pid = n
        /\ \A d \in Callers \ {c} : command'[d] = command[d]
    <3> DEFINE k == [plan |-> command[c].plan, at |-> "write", pid |-> n]
    <3>1. k \in Commands /\ k.plan = command[c].plan /\ k.at = "write" /\ k.pid = n
      BY <1>t, <2>2 DEF Commands
    <3>2. command' = [command EXCEPT ![c] = k]
      BY <2>2 DEF Processes!Goto
    <3> HIDE DEF k
    <3> QED BY <1>t, <3>1, <3>2
  <2>4. /\ Processes!At(c, "start", "write")' /\ ~Processes!At(c, "stop", "kill")'
        /\ Processes!Name(c)' = Processes!Name(c)
    BY <2>1, <2>3 DEF Processes!At, Processes!Idle, Processes!Step, Processes!Name
  <2>5. \A what, at : \A d \in Callers \ {c} :
          /\ Processes!At(d, what, at)' <=> Processes!At(d, what, at)
          /\ Processes!Name(d)' = Processes!Name(d)
    BY <2>3 DEF Processes!At, Processes!Idle, Processes!Step, Processes!Name
  <2>6. /\ runs' \in [Pids -> Parts \cup {Other, None}] /\ runs'[n] = Processes!Name(c)
        /\ \A m \in Pids \ {n} : runs'[m] = runs[m]
    BY <1>t, <1>k, <2>1, <2>2
  <2>7. StartsInv'
    <3> SUFFICES ASSUME NEW b \in Callers, NEW s \in Parts \ lost, InStart(b, s)'
                 PROVE  /\ \A d \in Callers : InStart(d, s)' => d = b
                        /\ \A m \in Pids : runs'[m] = s =>
                             Processes!At(b, "start", "write")' /\ command'[b].pid = m
      BY <2>1 DEF StartsInv
    <3>1. \A d \in Callers : InStart(d, s)' => InStart(d, s)
      BY <2>1, <2>4, <2>5 DEF InStart
    <3>2. /\ \A d \in Callers : InStart(d, s)' => d = b
          /\ \A m \in Pids : runs[m] = s =>
               Processes!At(b, "start", "write") /\ command[b].pid = m
      BY <3>1 DEF ProcessInv, StartsInv
    <3>3. CASE b = c
      <4>1. \A m \in Pids : runs[m] # s
        BY <2>1, <3>2, <3>3 DEF Processes!At
      <4> QED BY <2>3, <2>4, <2>6, <3>2, <3>3, <4>1
    <3>4. CASE b # c
      <4>1. s # Processes!Name(c)
        BY <2>1, <2>4, <3>1, <3>2, <3>4 DEF InStart
      <4> QED BY <2>3, <2>5, <2>6, <3>2, <3>4, <4>1
    <3> QED BY <3>3, <3>4
  <2>8. Processes!ServersAreTracked'
    <3> SUFFICES ASSUME NEW m \in Pids, runs'[m] \in Parts \ lost
                 PROVE  \/ pidFile[runs'[m]] = m
                        \/ \E d \in Callers : Processes!At(d, "start", "write")'
                             /\ command'[d].pid = m /\ Processes!Name(d)' = runs'[m]
      BY <2>1 DEF Processes!ServersAreTracked, Parts
    <3>1. CASE m = n
      BY <2>3, <2>4, <2>6, <3>1
    <3>2. CASE m # n
      <4>1. \/ pidFile[runs[m]] = m
            \/ \E d \in Callers : Processes!At(d, "start", "write")
                 /\ command[d].pid = m /\ Processes!Name(d) = runs[m]
        BY <2>6, <3>2 DEF ProcessInv, Processes!ServersAreTracked, Parts
      <4>2. ~Processes!At(c, "start", "write")
        BY <2>1 DEF Processes!At
      <4> QED BY <2>3, <2>5, <2>6, <3>2, <4>1, <4>2
    <3> QED BY <3>1, <3>2
  <2>9. /\ \A d \in Callers : Processes!At(d, "start", "write")' => command'[d].pid \in Pids
        /\ \A d \in Callers : Processes!At(d, "stop", "kill")' => command'[d].pid \in Pids
    BY <2>2, <2>3, <2>4, <2>5 DEF ProcessInv
  <2> QED BY <1>t, <2>1, <2>3, <2>6, <2>7, <2>8, <2>9 DEF ProcessInv
<1>5. ASSUME NEW c \in Callers, Processes!SpawnFails(c) PROVE ProcessInv'
  <2>1. /\ command' = [command EXCEPT ![c] = Processes!Done] /\ command[c].at = "spawn"
        /\ UNCHANGED <<runs, pidFile, lost>>
    BY <1>5 DEF Processes!SpawnFails, Processes!At
  <2> QED BY <1>t, <1>d, <2>1, CommandStep DEF Processes!At
<1>6. ASSUME NEW c \in Callers, Processes!WritePid(c) PROVE ProcessInv'
  <2>1. /\ Processes!At(c, "start", "write") /\ ~Processes!Idle(c) /\ Processes!Advance(c)
        /\ UNCHANGED runs /\ command[c].pid \in Pids
    BY <1>6 DEF Processes!WritePid, Processes!At, ProcessInv
  <2>2. PICK k \in Commands : k.at = "look" /\ command' = [command EXCEPT ![c] = k]
    BY <1>a, <2>1
  <2> DEFINE s == Processes!Name(c)
  <2>3. s \in Parts
    BY <1>k, <2>1
  <2>4. \/ pidFile' = [pidFile EXCEPT ![s] = command[c].pid] /\ UNCHANGED lost
        \/ UNCHANGED pidFile /\ lost' = lost \cup {s}
    BY <1>6 DEF Processes!WritePid
  <2>5. pidFile' \in [Parts -> Pids \cup {None}] /\ lost \subseteq lost' /\ lost' \subseteq Parts
    BY <1>t, <2>1, <2>3, <2>4
  <2>6. \A n \in Pids : runs[n] \in Parts \ lost' => \/ pidFile'[runs[n]] = n
           \/ /\ pidFile'[runs[n]] = pidFile[runs[n]]
              /\ ~(Processes!At(c, "start", "write") /\ command[c].pid = n
                   /\ Processes!Name(c) = runs[n])
    <3> SUFFICES ASSUME NEW n \in Pids, runs[n] \in Parts \ lost'
                 PROVE  \/ pidFile'[runs[n]] = n
                        \/ /\ pidFile'[runs[n]] = pidFile[runs[n]] /\ runs[n] # s
      OBVIOUS
    <3>1. CASE runs[n] = s
      <4>1. InStart(c, s) /\ s \in Parts \ lost
        BY <2>1, <2>3, <2>5, <3>1 DEF InStart
      <4>2. command[c].pid = n
        BY <3>1, <4>1 DEF ProcessInv, StartsInv
      <4> QED BY <1>t, <2>3, <2>4, <3>1, <4>2
    <3>2. CASE runs[n] # s
      BY <1>t, <2>3, <2>4, <3>2
    <3> QED BY <3>1, <3>2
  <2> HIDE DEF s
  <2> QED BY <1>t, <2>1, <2>2, <2>5, <2>6, CommandStep
<1>7. ASSUME NEW c \in Callers, Processes!ReadPid(c) PROVE ProcessInv'
  <2>1. /\ ~Processes!Idle(c) /\ Processes!Step(c)[1] = "stop" /\ command[c].at = "look"
        /\ pidFile[Processes!Name(c)] \in Pids /\ UNCHANGED <<runs, pidFile, lost>>
    BY <1>7, <1>t, <1>k DEF Processes!ReadPid, Processes!At
  <2>2. PICK k \in Commands : /\ command' = [command EXCEPT ![c] = k]
                              /\ k.plan = command[c].plan /\ k.pid \in Pids
    <3>1. PICK at \in {"kill", "remove"} :
            command' = [command EXCEPT ![c] = [plan |-> command[c].plan, at |-> at,
                                               pid |-> pidFile[Processes!Name(c)]]]
      BY <1>7 DEF Processes!ReadPid, Processes!Goto
    <3> DEFINE k == [plan |-> command[c].plan, at |-> at, pid |-> pidFile[Processes!Name(c)]]
    <3>2. k \in Commands /\ k.plan = command[c].plan /\ k.pid \in Pids
      BY <1>t, <2>1, <3>1 DEF Commands
    <3> HIDE DEF k
    <3> QED BY <3>1, <3>2 DEF k
  <2>3. Head(k.plan)[1] # "start"
    BY <2>1, <2>2 DEF Processes!Step
  <2> QED BY <1>t, <2>1, <2>2, <2>3, CommandStep DEF Processes!At
<1>8. ASSUME NEW c \in Callers, Processes!Kill(c) PROVE ProcessInv'
  <2>1. /\ ~Processes!Idle(c) /\ Processes!Step(c)[1] = "stop" /\ command[c].at = "kill"
        /\ UNCHANGED pidFile /\ Processes!Goto(c, "remove", command[c].pid)
        /\ command[c].pid \in Pids
    BY <1>8 DEF Processes!Kill, Processes!At, ProcessInv
  <2>2. PICK k \in Commands : /\ command' = [command EXCEPT ![c] = k]
                              /\ k.plan = command[c].plan /\ k.at = "remove"
    <3> DEFINE k == [plan |-> command[c].plan, at |-> "remove", pid |-> command[c].pid]
    <3>1. k \in Commands /\ k.plan = command[c].plan /\ k.at = "remove"
      BY <1>t DEF Commands
    <3>2. command' = [command EXCEPT ![c] = k]
      BY <2>1 DEF Processes!Goto
    <3> HIDE DEF k
    <3> QED BY <3>1, <3>2
  <2>3. /\ runs' \in [Pids -> Parts \cup {Other, None}]
        /\ \A n \in Pids : runs'[n] \in {runs[n], None}
        /\ lost \subseteq lost' /\ lost' \subseteq Parts
    BY <1>8, <1>t, <1>k, <2>1 DEF Processes!Kill
  <2> QED BY <1>t, <2>1, <2>2, <2>3, CommandStep DEF Processes!At
<1>9. ASSUME NEW c \in Callers, Processes!RemovePid(c) PROVE ProcessInv'
  <2> DEFINE s == Processes!Name(c)
  <2>1. /\ ~Processes!Idle(c) /\ Processes!Advance(c) /\ command[c].at = "remove"
        /\ UNCHANGED runs /\ pidFile' = [pidFile EXCEPT ![s] = None]
        /\ lost' = IF pidFile[s] # None /\ runs[pidFile[s]] = s THEN lost \cup {s} ELSE lost
    BY <1>9 DEF Processes!RemovePid, Processes!At
  <2>2. PICK k \in Commands : k.at = "look" /\ command' = [command EXCEPT ![c] = k]
    BY <1>a, <2>1
  <2>3. s \in Parts
    BY <1>k, <2>1
  <2>4. pidFile' \in [Parts -> Pids \cup {None}] /\ lost \subseteq lost' /\ lost' \subseteq Parts
    BY <1>t, <2>1, <2>3
  <2>5. \A n \in Pids : runs[n] \in Parts \ lost' =>
           \/ pidFile'[runs[n]] = pidFile[runs[n]]
           \/ \E d \in Callers \ {c} : Processes!At(d, "start", "write")
                /\ command[d].pid = n /\ Processes!Name(d) = runs[n]
    <3> SUFFICES ASSUME NEW n \in Pids, runs[n] = s, s \in Parts \ lost'
                 PROVE  \E d \in Callers \ {c} : Processes!At(d, "start", "write")
                          /\ command[d].pid = n /\ Processes!Name(d) = runs[n]
      BY <1>t, <2>1, <2>3
    <3>1. pidFile[s] # n
      BY <2>1
    <3>2. ~Processes!At(c, "start", "write")
      BY <2>1 DEF Processes!At
    <3> QED BY <2>4, <3>1, <3>2 DEF ProcessInv, Processes!ServersAreTracked, Parts
  <2>6. ~Processes!At(c, "start", "write")
    BY <2>1 DEF Processes!At
  <2> HIDE DEF s
  <2> QED BY <1>t, <2>1, <2>2, <2>4, <2>5, <2>6, CommandStep
<1>10. ASSUME NEW c \in Callers, Processes!Interrupt(c) PROVE ProcessInv'
  <2>1. /\ command' = [command EXCEPT ![c] = Processes!Done] /\ UNCHANGED <<runs, pidFile>>
        /\ lost' = IF Processes!At(c, "start", "write") THEN lost \cup {Processes!Name(c)}
                   ELSE lost
        /\ ~Processes!Idle(c)
    BY <1>10 DEF Processes!Interrupt
  <2>2. lost \subseteq lost' /\ lost' \subseteq Parts
    BY <1>t, <1>k, <2>1
  <2> QED BY <1>t, <1>d, <2>1, <2>2, CommandStep
<1>11. ASSUME NEW n \in Pids, Processes!Ends(n) \/ Processes!StrangerStarts(n)
       PROVE  ProcessInv'
  <2>1. UNCHANGED <<pidFile, command, lost>>
    BY <1>11 DEF Processes!Ends, Processes!StrangerStarts
  <2>2. PICK v \in {Other, None} : runs' = [runs EXCEPT ![n] = v]
    BY <1>11 DEF Processes!Ends, Processes!StrangerStarts
  <2>3. /\ runs' \in [Pids -> Parts \cup {Other, None}]
        /\ \A m \in Pids : runs'[m] \in Parts => runs'[m] = runs[m]
    BY <1>t, <2>2
  <2>4. \A what, at : \A d \in Callers :
          /\ Processes!At(d, what, at)' <=> Processes!At(d, what, at)
          /\ Processes!Name(d)' = Processes!Name(d)
    BY <2>1 DEF Processes!At, Processes!Idle, Processes!Step, Processes!Name
  <2>5. StartsInv'
    BY <2>1, <2>3, <2>4 DEF ProcessInv, StartsInv, InStart
  <2>6. Processes!ServersAreTracked'
    BY <2>1, <2>3, <2>4 DEF ProcessInv, Processes!ServersAreTracked, Parts
  <2> QED BY <1>t, <2>1, <2>3, <2>4, <2>5, <2>6 DEF ProcessInv
<1> QED BY <1>1, <1>2, <1>3, <1>4, <1>5, <1>6, <1>7, <1>8, <1>9, <1>10, <1>11, <1>n
        DEF Processes!Next

LEMMA ProcessTypes == ProcessInv => Processes!TypeOK
<1> SUFFICES ASSUME ProcessInv, NEW c \in Callers
             PROVE  /\ command[c].at \in {"look", "spawn", "write", "kill", "remove"}
                    /\ command[c].pid \in Pids \cup {None}
                    /\ Processes!ToSet(command[c].plan) \subseteq {"start", "stop"} \X Parts
  BY DEF ProcessInv, Processes!TypeOK, Parts
<1>1. command[c] \in Commands
  BY DEF ProcessInv
<1>2. command[c].plan \in Seq(Deeds)
  BY <1>1 DEF Commands
<1>3. Processes!ToSet(command[c].plan) \subseteq Deeds
  BY <1>2 DEF Processes!ToSet
<1> QED BY <1>1, <1>3 DEF Commands, Deeds

LEMMA ProcessesOnce == ProcessInv => Processes!OneOfEach
<1> SUFFICES ASSUME ProcessInv, NEW m \in Pids, NEW n \in Pids, runs[m] \in Parts \ lost,
                    runs[m] = runs[n]
             PROVE  m = n
  BY DEF Processes!OneOfEach, Parts
<1>1. /\ \/ pidFile[runs[m]] = m
         \/ \E c \in Callers : Processes!At(c, "start", "write")
              /\ command[c].pid = m /\ Processes!Name(c) = runs[m]
      /\ \/ pidFile[runs[m]] = n
         \/ \E c \in Callers : Processes!At(c, "start", "write")
              /\ command[c].pid = n /\ Processes!Name(c) = runs[m]
  BY DEF ProcessInv, Processes!ServersAreTracked, Parts
<1>2. \A c \in Callers : Processes!At(c, "start", "write") /\ Processes!Name(c) = runs[m] =>
        command[c].pid = m /\ command[c].pid = n
  BY DEF ProcessInv, StartsInv, InStart
<1> QED BY <1>1, <1>2

\* Every process of the server is found and runs once, and no command line breaks
\* the contexts, for any commands at a time that end anywhere, numbers given
\* again, contexts and dashboards (cli/internal/system/process.go;
\* configstore/store.go, command/remote.go).
THEOREM Tools == Spec => []ToolsAreSound
<1> DEFINE Inv == (part = "processes" => ProcessInv) /\ (part = "contexts" => ContextInv)
<1>1. Init => Inv
  BY ProcessInit, ContextInit
<1>2. Inv /\ [Next]_vars => Inv'
  <2> SUFFICES ASSUME Inv, [Next]_vars PROVE Inv'
    OBVIOUS
  <2>1. CASE Next
    BY <2>1, ProcessStep, ContextStep DEF Next
  <2>2. CASE UNCHANGED vars
    <3>1. ASSUME ProcessInv PROVE ProcessInv'
      BY <2>2, <3>1 DEF vars, processVars, ProcessInv, StartsInv, InStart,
                        Processes!ServersAreTracked, Processes!At, Processes!Idle,
                        Processes!Step, Processes!Name
    <3>2. ASSUME ContextInv PROVE ContextInv'
      BY <2>2, <3>2 DEF vars, contextVars, ContextInv, Contexts!TypeOK, EntriesFit, CopiesFit,
                        Sound, Contexts!FileReads, Contexts!At
    <3> QED BY <2>2, <3>1, <3>2 DEF vars
  <2> QED BY <2>1, <2>2
<1>3. Inv => ToolsAreSound
  <2>1. ProcessInv =>
          Processes!TypeOK /\ Processes!ServersAreTracked /\ Processes!OneOfEach
    BY ProcessTypes, ProcessesOnce DEF ProcessInv
  <2>2. ContextInv => Contexts!TypeOK /\ Contexts!ContextsFit /\ Contexts!FileReads
    <3>1. ContextInv => \A s \in Contexts!Stores : Sound(s)
      BY DEF ContextInv, CopiesFit, Contexts!Stores
    <3> QED BY <3>1 DEF ContextInv, Contexts!ContextsFit, Sound
  <2> QED BY <2>1, <2>2 DEF ToolsAreSound
<1> QED BY <1>1, <1>2, <1>3, PTL DEF Spec

-------------------------------------------------------------------------------
(* The helper of macOS.                                                    *)

HelperCalls == [op : {"none", "install", "restart", "uninstall"}, pc : Helper!Steps,
                version : Members \cup {None}, clean : BOOLEAN]
Binaries == Members \cup {None}

\* The steps of each operation.
CallFits(k) ==
  /\ k.pc # "idle" => k.op # "none"
  /\ k.pc \in {"copy", "rename", "plist", "mkdir"} => k.op = "install"
  /\ k.pc \in {"bootstrap", "kickstart"} => k.op \in {"install", "restart"}
  /\ k.pc \in {"rmsocket", "rmhelper", "rmplist", "rmdir"} => k.op = "uninstall"
  /\ k.op = "install" => k.version \in Members
\* What a call that meets no other, and whose bootout had its effect, has done.
HelperProgress(k) ==
  /\ k.pc \notin {"bootout", "kickstart"} => ~loaded /\ proc = Helper!Off
  /\ k.op = "install" =>
       /\ k.pc \in {"plist", "mkdir", "bootstrap", "kickstart"} => helper = k.version
       /\ k.pc \in {"mkdir", "bootstrap", "kickstart"} => plist
  /\ k.pc \in {"rmhelper", "rmplist", "rmdir"} => socket = "none"
  /\ k.pc \in {"rmplist", "rmdir"} => helper = None
  /\ k.pc = "rmdir" => ~plist
HelperTypes ==
  /\ helper \in Binaries /\ plist \in BOOLEAN /\ dir \in BOOLEAN
  /\ socket \in {"none", "live", "stale"} /\ loaded \in BOOLEAN
  /\ proc \in [version : Binaries, listens : BOOLEAN]
  /\ helperCall \in [Callers -> HelperCalls]
  /\ reported \in Helper!Report \cup {None}
CallsInv ==
  \A c \in Callers :
    /\ CallFits(helperCall[c])
    /\ helperCall[c].pc # "idle" /\ helperCall[c].clean =>
         /\ \A d \in Callers \ {c} : helperCall[d].pc = "idle"
         /\ HelperProgress(helperCall[c])
QuietInv == reported # None => \A c \in Callers : helperCall[c].pc = "idle"
HelperInv ==
  HelperTypes /\ CallsInv /\ QuietInv /\ Helper!InstalledRuns /\ Helper!UninstalledIsGone

LEMMA HelperConstants == None \notin Members /\ "part" \notin Binaries
BY ConstantsFit DEF ConstantsFit, Helper!NoneAssumption, Binaries

LEMMA HelperInit == Init => HelperInv
<1> SUFFICES ASSUME Init PROVE HelperInv
  OBVIOUS
<1> USE HelperConstants DEF Init, Helper!Init
<1>1. HelperTypes
  BY DEF HelperTypes, HelperCalls, Binaries, Helper!Off, Helper!Idle, Helper!Steps
<1>2. CallsInv
  BY DEF CallsInv, CallFits, Helper!Idle
<1>3. QuietInv /\ Helper!InstalledRuns /\ Helper!UninstalledIsGone
  BY DEF QuietInv, Helper!InstalledRuns, Helper!UninstalledIsGone
<1> QED BY <1>1, <1>2, <1>3 DEF HelperInv

\* A call goes on with k; what was reported is void, or is so after the call.
LEMMA HelperCallStep ==
  ASSUME HelperInv, NEW c \in Callers, NEW k \in HelperCalls, helperCall[c].pc # "idle",
         helperCall' = [helperCall EXCEPT ![c] = k], CallFits(k),
         k.clean => helperCall[c].clean \/ k.pc = "idle",
         k.pc # "idle" /\ k.clean => HelperProgress(k)',
         helper' \in Binaries, plist' \in BOOLEAN, dir' \in BOOLEAN, loaded' \in BOOLEAN,
         socket' \in {"none", "live", "stale"}, proc' \in [version : Binaries, listens : BOOLEAN],
         reported' = reported
  PROVE  HelperInv'
<1>0. helperCall \in [Callers -> HelperCalls]
  BY DEF HelperInv, HelperTypes
<1>1. /\ helperCall' \in [Callers -> HelperCalls] /\ helperCall'[c] = k
      /\ \A d \in Callers \ {c} : helperCall'[d] = helperCall[d]
  BY <1>0
<1>2. reported = None
  BY DEF HelperInv, QuietInv
<1>3. HelperTypes'
  BY <1>1, <1>2 DEF HelperInv, HelperTypes
<1>4. CallsInv'
  <2> SUFFICES ASSUME NEW d \in Callers
               PROVE  /\ CallFits(helperCall'[d])
                      /\ helperCall'[d].pc # "idle" /\ helperCall'[d].clean =>
                           /\ \A b \in Callers \ {d} : helperCall'[b].pc = "idle"
                           /\ HelperProgress(helperCall[d])'
    BY DEF CallsInv, CallFits
  <2>1. CASE d = c
    <3>1. CallFits(helperCall'[d])
      BY <1>1, <2>1
    <3>2. ASSUME k.pc # "idle", k.clean
          PROVE  \A b \in Callers \ {c} : helperCall'[b].pc = "idle"
      BY <1>1, <3>2 DEF HelperInv, CallsInv
    <3>3. k.pc # "idle" /\ k.clean => HelperProgress(helperCall[d])'
      BY <1>1, <2>1 DEF HelperProgress
    <3> QED BY <1>1, <2>1, <3>1, <3>2, <3>3
  <2>2. CASE d # c
    <3>1. CallFits(helperCall'[d])
      BY <1>1, <2>2 DEF HelperInv, CallsInv
    <3>2. ~(helperCall'[d].pc # "idle" /\ helperCall'[d].clean)
      BY <1>1, <2>2 DEF HelperInv, CallsInv
    <3> QED BY <3>1, <3>2
  <2> QED BY <2>1, <2>2
<1>5. QuietInv' /\ Helper!InstalledRuns' /\ Helper!UninstalledIsGone'
  BY <1>2 DEF QuietInv, Helper!InstalledRuns, Helper!UninstalledIsGone
<1> QED BY <1>3, <1>4, <1>5 DEF HelperInv

\* A call ends: nothing is reported, or what holds then.
LEMMA HelperCallEnds ==
  ASSUME HelperInv, NEW c \in Callers, helperCall[c].pc # "idle",
         helperCall' = [helperCall EXCEPT ![c] = Helper!Idle],
         helper' \in Binaries, plist' \in BOOLEAN, dir' \in BOOLEAN, loaded' \in BOOLEAN,
         socket' \in {"none", "live", "stale"}, proc' \in [version : Binaries, listens : BOOLEAN],
         reported' \in Helper!Report \cup {None},
         reported' # None => helperCall[c].clean,
         \A d \in Callers \ {c} : helperCall[d].pc # "idle" => ~helperCall[d].clean,
         Helper!InstalledRuns', Helper!UninstalledIsGone'
  PROVE  HelperInv'
<1>0. helperCall \in [Callers -> HelperCalls] /\ Helper!Idle \in HelperCalls
  BY DEF HelperInv, HelperTypes, HelperCalls, Helper!Idle, Helper!Steps
<1>1. /\ helperCall' \in [Callers -> HelperCalls] /\ helperCall'[c] = Helper!Idle
      /\ \A d \in Callers \ {c} : helperCall'[d] = helperCall[d]
  BY <1>0
<1>2. HelperTypes'
  BY <1>1 DEF HelperTypes
<1>3. CallsInv'
  <2>1. \A d \in Callers : CallFits(helperCall'[d])
    BY <1>1 DEF HelperInv, CallsInv, CallFits, Helper!Idle
  <2>2. \A d \in Callers : ~(helperCall'[d].pc # "idle" /\ helperCall'[d].clean)
    BY <1>1 DEF Helper!Idle
  <2> QED BY <2>1, <2>2 DEF CallsInv, CallFits
<1>4. QuietInv'
  BY <1>1 DEF QuietInv, HelperInv, CallsInv, Helper!Idle
<1> QED BY <1>2, <1>3, <1>4 DEF HelperInv

LEMMA HelperStep == HelperInv /\ Helper!Next => HelperInv'
<1> SUFFICES ASSUME HelperInv, Helper!Next PROVE HelperInv'
  OBVIOUS
<1>n. Helper!Next
  OBVIOUS
<1> USE HelperConstants
<1>t. /\ helper \in Binaries /\ plist \in BOOLEAN /\ dir \in BOOLEAN
      /\ socket \in {"none", "live", "stale"} /\ loaded \in BOOLEAN
      /\ proc \in [version : Binaries, listens : BOOLEAN]
      /\ helperCall \in [Callers -> HelperCalls] /\ reported \in Helper!Report \cup {None}
  BY DEF HelperInv, HelperTypes
<1>o. Helper!Off \in [version : Binaries, listens : BOOLEAN] /\ Helper!Off.version = None
      /\ ~Helper!Off.listens
  BY DEF Helper!Off, Binaries
<1>c. ASSUME NEW c \in Callers
      PROVE  /\ CallFits(helperCall[c]) /\ helperCall[c] \in HelperCalls
             /\ helperCall[c].pc # "idle" /\ helperCall[c].clean => HelperProgress(helperCall[c])
             /\ helperCall[c].pc # "idle" => reported = None
  BY <1>t DEF HelperInv, CallsInv, QuietInv
\* A step from at to another.
<1>g. ASSUME NEW c \in Callers, NEW at \in Helper!Steps, Helper!Go(c, at), UNCHANGED reported,
             helperCall[c].pc # "idle", at # "idle",
             helper' \in Binaries, plist' \in BOOLEAN, dir' \in BOOLEAN, loaded' \in BOOLEAN,
             socket' \in {"none", "live", "stale"},
             proc' \in [version : Binaries, listens : BOOLEAN],
             \A k \in HelperCalls : k.op = helperCall[c].op /\ k.pc = at
                                    /\ k.version = helperCall[c].version =>
               CallFits(k) /\ (helperCall[c].clean => HelperProgress(k)')
      PROVE  HelperInv'
  <2> DEFINE k == [op |-> helperCall[c].op, pc |-> at, version |-> helperCall[c].version,
                   clean |-> helperCall[c].clean]
  <2>1. k \in HelperCalls /\ k.op = helperCall[c].op /\ k.pc = at
        /\ k.version = helperCall[c].version /\ k.clean = helperCall[c].clean
    BY <1>c DEF HelperCalls
  <2>2. helperCall' = [helperCall EXCEPT ![c] = k]
    BY <1>g DEF Helper!Go
  <2> HIDE DEF k
  <2>3. PICK l \in HelperCalls : /\ helperCall' = [helperCall EXCEPT ![c] = l]
                                 /\ l.op = helperCall[c].op /\ l.pc = at
                                 /\ l.version = helperCall[c].version
                                 /\ l.clean = helperCall[c].clean
    BY <2>1, <2>2
  <2>4. CallFits(l) /\ (l.clean => HelperProgress(l)')
    BY <1>g, <2>3
  <2> QED BY <1>g, <2>3, <2>4, HelperCallStep
<1>1. ASSUME NEW c \in Callers, NEW op \in {"install", "restart", "uninstall"},
             NEW v \in Members \cup {None}, op = "install" => v # None, Helper!Begin(c, op, v)
      PROVE  HelperInv'
  <2>1. PICK a \in BOOLEAN : a = Helper!Alone
    BY DEF Helper!Alone
  <2>2. helperCall' = [d \in Callers |->
          IF d = c THEN [op |-> op, pc |-> "bootout", version |-> v, clean |-> a]
          ELSE [op |-> helperCall[d].op, pc |-> helperCall[d].pc,
                version |-> helperCall[d].version, clean |-> FALSE]]
    BY <1>1, <2>1 DEF Helper!Begin
  <2>3. [op |-> op, pc |-> "bootout", version |-> v, clean |-> a] \in HelperCalls
    BY DEF HelperCalls, Helper!Steps
  <2>4. \A d \in Callers : [op |-> helperCall[d].op, pc |-> helperCall[d].pc,
                            version |-> helperCall[d].version, clean |-> FALSE] \in HelperCalls
    BY <1>c DEF HelperCalls
  <2>5. helperCall' \in [Callers -> HelperCalls]
    BY <2>2, <2>3, <2>4
  <2>6. HelperTypes'
    BY <1>1, <1>t, <2>5 DEF Helper!Begin, HelperTypes, Helper!files, Helper!service
  <2>7. CallsInv'
    <3> SUFFICES ASSUME NEW d \in Callers
                 PROVE  /\ CallFits(helperCall'[d])
                        /\ helperCall'[d].pc # "idle" /\ helperCall'[d].clean =>
                             /\ \A b \in Callers \ {d} : helperCall'[b].pc = "idle"
                             /\ HelperProgress(helperCall[d])'
      BY DEF CallsInv, CallFits
    <3>1. CASE d = c
      <4>1. /\ helperCall'[d].pc = "bootout" /\ helperCall'[d].op = op
            /\ helperCall'[d].version = v /\ helperCall'[d].clean = a
        BY <2>2, <3>1
      <4>2. CallFits(helperCall'[d])
        BY <1>1, <4>1 DEF CallFits
      <4>3. HelperProgress(helperCall[d])'
        BY <4>1 DEF HelperProgress
      <4>4. a => \A b \in Callers \ {d} : helperCall'[b].pc = "idle"
        BY <2>1, <2>2, <3>1 DEF Helper!Alone, Helper!At
      <4> QED BY <4>1, <4>2, <4>3, <4>4
    <3>2. CASE d # c
      <4>1. /\ helperCall'[d].pc = helperCall[d].pc /\ helperCall'[d].op = helperCall[d].op
            /\ helperCall'[d].version = helperCall[d].version /\ ~helperCall'[d].clean
        BY <2>2, <3>2
      <4> QED BY <1>c, <4>1 DEF CallFits
    <3> QED BY <3>1, <3>2
  <2>8. reported' = None
    BY <1>1 DEF Helper!Begin
  <2> QED BY <2>6, <2>7, <2>8 DEF HelperInv, QuietInv, Helper!InstalledRuns,
                                  Helper!UninstalledIsGone
<1>a. ASSUME NEW c \in Callers, helperCall[c].pc # "idle"
      PROVE  Helper!After(c) = IF helperCall[c].op = "install" THEN "copy"
                               ELSE IF helperCall[c].op = "restart" THEN "bootstrap"
                               ELSE "rmsocket"
  <2>1. helperCall[c].op \in {"install", "restart", "uninstall"}
    BY <1>a, <1>c DEF CallFits, HelperCalls
  <2> QED BY <2>1 DEF Helper!After
<1>2. ASSUME NEW c \in Callers, Helper!Bootout(c) PROVE HelperInv'
  <2>1. /\ helperCall[c].pc = "bootout" /\ loaded' = FALSE /\ proc' = Helper!Off
        /\ socket' \in {"none", "live", "stale"} /\ Helper!Go(c, Helper!After(c))
        /\ UNCHANGED <<helper, plist, dir, reported>>
    BY <1>2, <1>t DEF Helper!Bootout, Helper!At, Helper!ProcEnds, Helper!files
  <2>2. Helper!After(c) \in Helper!Steps /\ Helper!After(c) # "idle"
    BY <1>a, <2>1 DEF Helper!Steps
  <2>3. ASSUME NEW k \in HelperCalls, k.op = helperCall[c].op, k.pc = Helper!After(c),
               k.version = helperCall[c].version
        PROVE  CallFits(k) /\ HelperProgress(k)'
    <3>1. CallFits(k)
      BY <1>a, <1>c, <2>1, <2>3 DEF CallFits, HelperCalls
    <3>2. HelperProgress(k)'
      BY <1>a, <2>1, <2>3 DEF HelperProgress
    <3> QED BY <3>1, <3>2
  <2> QED BY <1>g, <1>t, <1>o, <2>1, <2>2, <2>3
<1>3. ASSUME NEW c \in Callers, Helper!BootoutFails(c) PROVE HelperInv'
  <2> DEFINE k == [op |-> helperCall[c].op, pc |-> Helper!After(c),
                   version |-> helperCall[c].version, clean |-> FALSE]
  <2>1. /\ helperCall[c].pc = "bootout" /\ helperCall' = [helperCall EXCEPT ![c] = k]
        /\ UNCHANGED <<helper, plist, dir, reported, loaded, socket, proc>>
    BY <1>3 DEF Helper!BootoutFails, Helper!At, Helper!files, Helper!service
  <2>2. Helper!After(c) \in Helper!Steps
    BY <1>a, <2>1 DEF Helper!Steps
  <2>3. k \in HelperCalls /\ k.op = helperCall[c].op /\ k.pc = Helper!After(c)
        /\ k.version = helperCall[c].version /\ ~k.clean
    BY <1>c, <2>2 DEF HelperCalls
  <2> HIDE DEF k
  <2>4. CallFits(k)
    BY <1>a, <1>c, <2>1, <2>3 DEF CallFits, HelperCalls
  <2> QED BY <1>t, <2>1, <2>3, <2>4, HelperCallStep
<1>4. ASSUME NEW c \in Callers,
             \/ Helper!Copy(c) \/ Helper!Rename(c) \/ Helper!WritePlist(c)
             \/ Helper!MakeDirectory(c) \/ Helper!RemoveSocket(c) \/ Helper!RemoveHelper(c)
             \/ Helper!RemovePlist(c) \/ Helper!Bootstrap(c)
      PROVE  HelperInv'
  <2> DEFINE k0 == helperCall[c]
  <2>1. PICK at \in {"rename", "plist", "mkdir", "bootstrap", "rmhelper", "rmplist", "rmdir",
                     "kickstart"} :
          /\ Helper!Go(c, at) /\ UNCHANGED <<proc, reported>>
          /\ at # "kickstart" => loaded' = loaded
          /\ \/ at = "rename" /\ k0.pc = "copy" /\ UNCHANGED <<helper, plist, dir, socket>>
             \/ at = "plist" /\ k0.pc = "rename" /\ helper' = k0.version
                /\ UNCHANGED <<plist, dir, socket>>
             \/ at = "mkdir" /\ k0.pc = "plist" /\ plist' = TRUE
                /\ UNCHANGED <<helper, dir, socket>>
             \/ at = "bootstrap" /\ k0.pc = "mkdir" /\ dir' = TRUE
                /\ UNCHANGED <<helper, plist, socket>>
             \/ at = "rmhelper" /\ k0.pc = "rmsocket" /\ socket' = "none"
                /\ UNCHANGED <<helper, plist, dir>>
             \/ at = "rmplist" /\ k0.pc = "rmhelper" /\ helper' = None
                /\ UNCHANGED <<plist, dir, socket>>
             \/ at = "rmdir" /\ k0.pc = "rmplist" /\ plist' = FALSE
                /\ UNCHANGED <<helper, dir, socket>>
             \/ at = "kickstart" /\ k0.pc = "bootstrap" /\ loaded' = TRUE
                /\ UNCHANGED <<helper, plist, dir, socket>>
    BY <1>4 DEF Helper!Copy, Helper!Rename, Helper!WritePlist, Helper!MakeDirectory,
                Helper!RemoveSocket, Helper!RemoveHelper, Helper!RemovePlist, Helper!Bootstrap,
                Helper!At, Helper!files, Helper!service
  <2>2. /\ CallFits(k0) /\ k0 \in HelperCalls /\ k0.pc # "idle"
        /\ k0.clean => HelperProgress(k0)
    BY <1>c, <2>1
  <2>3. /\ helper' \in Binaries /\ plist' \in BOOLEAN /\ dir' \in BOOLEAN
        /\ loaded' \in BOOLEAN /\ socket' \in {"none", "live", "stale"}
    BY <1>t, <2>1, <2>2 DEF HelperCalls, Binaries
  <2>4. ASSUME NEW k \in HelperCalls, k.op = k0.op, k.pc = at, k.version = k0.version
        PROVE  CallFits(k)
    BY <2>1, <2>2, <2>4 DEF CallFits
  <2>5. ASSUME NEW k \in HelperCalls, k.op = k0.op, k.pc = at, k.version = k0.version,
               k0.clean
        PROVE  HelperProgress(k)'
    BY <2>1, <2>2, <2>5 DEF CallFits, HelperProgress
  <2>6. at \in Helper!Steps /\ at # "idle"
    BY <2>1 DEF Helper!Steps
  <2> QED BY <1>g, <1>t, <2>1, <2>2, <2>3, <2>4, <2>5, <2>6
\* What a call that ends with success reports.
<1>r. ASSUME NEW c \in Callers, helperCall[c].pc # "idle", Helper!End(c)
      PROVE  /\ reported' \in Helper!Report \cup {None}
             /\ reported' # None => /\ helperCall[c].clean
                                    /\ reported'.op = helperCall[c].op
                                    /\ reported'.version = helperCall[c].version
  <2>1. [op |-> helperCall[c].op, version |-> helperCall[c].version] \in Helper!Report
    BY <1>c, <1>r DEF Helper!Report, HelperCalls, CallFits
  <2> QED BY <1>r, <2>1 DEF Helper!End
<1>5. ASSUME NEW c \in Callers, Helper!Kickstart(c) PROVE HelperInv'
  <2>1. /\ helperCall[c].pc = "kickstart" /\ loaded /\ helper # None
        /\ proc' = [version |-> helper, listens |-> FALSE]
        /\ socket' \in {"none", "live", "stale"} /\ Helper!End(c)
        /\ UNCHANGED <<helper, plist, dir, loaded>>
    BY <1>5, <1>t DEF Helper!Kickstart, Helper!At, Helper!files
  <2>2. proc' \in [version : Binaries, listens : BOOLEAN] /\ proc'.version = helper
        /\ ~proc'.listens
    BY <1>t, <2>1
  <2>3. helperCall[c].op # "uninstall"
    BY <1>c, <2>1 DEF CallFits
  <2>4. Helper!InstalledRuns'
    BY <1>c, <1>r, <2>1, <2>2 DEF Helper!InstalledRuns, HelperProgress
  <2>5. Helper!UninstalledIsGone'
    BY <1>r, <2>1, <2>3 DEF Helper!UninstalledIsGone
  <2>6. helperCall' = [helperCall EXCEPT ![c] = Helper!Idle]
    BY <2>1 DEF Helper!End
  <2>7. \A d \in Callers \ {c} : helperCall[d].pc # "idle" => ~helperCall[d].clean
    BY <2>1 DEF HelperInv, CallsInv
  <2> QED BY <1>r, <1>t, <2>1, <2>2, <2>4, <2>5, <2>6, <2>7, HelperCallEnds
<1>6. ASSUME NEW c \in Callers, Helper!RemoveDirectory(c) PROVE HelperInv'
  <2>1. /\ helperCall[c].pc = "rmdir" /\ dir' \in BOOLEAN /\ (socket = "none" => ~dir')
        /\ Helper!End(c) /\ UNCHANGED <<helper, plist, socket, loaded, proc>>
    BY <1>6, <1>t DEF Helper!RemoveDirectory, Helper!At, Helper!service
  <2>2. helperCall[c].op = "uninstall"
    BY <1>c, <2>1 DEF CallFits
  <2>3. Helper!InstalledRuns'
    BY <1>r, <2>1, <2>2 DEF Helper!InstalledRuns
  <2>4. Helper!UninstalledIsGone'
    BY <1>c, <1>r, <2>1 DEF Helper!UninstalledIsGone, HelperProgress
  <2>5. helperCall' = [helperCall EXCEPT ![c] = Helper!Idle]
    BY <2>1 DEF Helper!End
  <2>6. \A d \in Callers \ {c} : helperCall[d].pc # "idle" => ~helperCall[d].clean
    BY <2>1 DEF HelperInv, CallsInv
  <2> QED BY <1>r, <1>t, <2>1, <2>3, <2>4, <2>5, <2>6, HelperCallEnds
<1>7. ASSUME NEW c \in Callers, Helper!Fail(c) PROVE HelperInv'
  <2>1. /\ helperCall[c].pc # "idle" /\ helperCall' = [helperCall EXCEPT ![c] = Helper!Idle]
        /\ reported' = None /\ UNCHANGED <<helper, plist, dir, socket, loaded, proc>>
    BY <1>7 DEF Helper!Fail, Helper!At, Helper!files, Helper!service
  <2>2. HelperTypes'
    BY <1>t, <2>1 DEF HelperTypes, HelperCalls, Helper!Idle, Helper!Steps
  <2>3. /\ helperCall'[c] = Helper!Idle
        /\ \A d \in Callers \ {c} : helperCall'[d] = helperCall[d]
    BY <1>t, <2>1
  <2>4. CallsInv'
    <3> SUFFICES ASSUME NEW d \in Callers
                 PROVE  /\ CallFits(helperCall'[d])
                        /\ helperCall'[d].pc # "idle" /\ helperCall'[d].clean =>
                             /\ \A b \in Callers \ {d} : helperCall'[b].pc = "idle"
                             /\ HelperProgress(helperCall[d])'
      BY DEF CallsInv, CallFits
    <3>1. CASE d = c
      BY <2>3, <3>1 DEF CallFits, Helper!Idle
    <3>2. CASE d # c
      <4>1. HelperProgress(helperCall[d]) => HelperProgress(helperCall[d])'
        BY <2>1, <2>3, <3>2 DEF HelperProgress
      <4> QED BY <2>3, <3>2, <4>1 DEF HelperInv, CallsInv, Helper!Idle
    <3> QED BY <3>1, <3>2
  <2> QED BY <2>1, <2>2, <2>4 DEF HelperInv, QuietInv, Helper!InstalledRuns,
                                  Helper!UninstalledIsGone
<1>8. ASSUME Helper!Launch \/ Helper!Listen \/ Helper!ProcExits PROVE HelperInv'
  <2>1. UNCHANGED <<helper, plist, loaded, helperCall, reported>>
    BY <1>8 DEF Helper!Launch, Helper!Listen, Helper!ProcExits, Helper!files
  <2>2. \/ /\ loaded /\ proc = Helper!Off /\ UNCHANGED <<dir, socket>>
           /\ proc' = [version |-> helper, listens |-> FALSE]
        \/ /\ proc.version \in Members /\ dir' = TRUE /\ socket' = "live"
           /\ proc' = [version |-> proc.version, listens |-> TRUE]
        \/ /\ proc # Helper!Off /\ UNCHANGED dir /\ proc' = Helper!Off
           /\ socket' \in {"none", "stale", socket}
    BY <1>8 DEF Helper!Launch, Helper!Listen, Helper!ProcExits, Helper!ProcEnds, Helper!files
  <2>3. HelperTypes'
    <3>1. proc' \in [version : Binaries, listens : BOOLEAN]
      <4>1. PICK b \in Binaries, l \in BOOLEAN :
              proc' = Helper!Off \/ proc' = [version |-> b, listens |-> l]
        BY <1>t, <2>2 DEF Binaries
      <4> QED BY <1>o, <4>1
    <3>2. dir' \in BOOLEAN /\ socket' \in {"none", "live", "stale"}
      BY <1>t, <2>2
    <3> QED BY <1>t, <2>1, <3>1, <3>2 DEF HelperTypes
  <2>4. CallsInv'
    <3>1. \A d \in Callers : helperCall[d].pc # "idle" /\ HelperProgress(helperCall[d])
                             => HelperProgress(helperCall[d])'
      BY <1>c, <1>o, <2>1, <2>2 DEF HelperProgress
    <3> QED BY <2>1, <3>1 DEF HelperInv, CallsInv, CallFits
  <2>5. QuietInv'
    BY <2>1 DEF HelperInv, QuietInv
  <2>6. Helper!InstalledRuns'
    BY <1>o, <2>1, <2>2 DEF HelperInv, Helper!InstalledRuns
  <2>7. Helper!UninstalledIsGone'
    BY <1>o, <2>1, <2>2 DEF HelperInv, Helper!UninstalledIsGone
  <2> QED BY <2>3, <2>4, <2>5, <2>6, <2>7 DEF HelperInv
<1>9. ASSUME Helper!Reboot PROVE HelperInv'
  <2>1. /\ dir' = FALSE /\ socket' = "none" /\ proc' = Helper!Off /\ loaded' = plist
        /\ helperCall' = [c \in Callers |-> Helper!Idle] /\ reported' \in {reported, None}
        /\ UNCHANGED <<helper, plist>>
    BY <1>9 DEF Helper!Reboot
  <2>2. HelperTypes'
    BY <1>t, <1>o, <2>1 DEF HelperTypes, HelperCalls, Helper!Idle, Helper!Steps
  <2>3. CallsInv' /\ QuietInv'
    BY <2>1 DEF CallsInv, CallFits, QuietInv, Helper!Idle
  <2>4. Helper!InstalledRuns' /\ Helper!UninstalledIsGone'
    BY <1>o, <2>1 DEF HelperInv, Helper!InstalledRuns, Helper!UninstalledIsGone
  <2> QED BY <2>2, <2>3, <2>4 DEF HelperInv
<1> QED BY <1>1, <1>2, <1>3, <1>4, <1>5, <1>6, <1>7, <1>8, <1>9, <1>n DEF Helper!Next

-------------------------------------------------------------------------------
(* The installer.                                                          *)

\* Whatever crashes or meets: only what was unpacked to the end is in a directory.
UnpackedInv ==
  /\ \A d \in {target, base} \cup {saved[p] : p \in Members} : d # None => d.is # "part"
  /\ \A p \in Members : pc[p] \in {"stop", "backup", "place"} => staging[p] = p
\* What an operation that nothing disturbed has done.
SetupProgress(p) ==
  /\ owned => Setup!IsWhole(base)
  /\ pc[p] \in {"prepare", "extract", "stop", "backup", "unlink", "unlist", "remove"} =>
       target = base
  /\ pc[p] \in {"place", "restore"} => target = None /\ saved[p] = base
  /\ pc[p] \in {"info", "shortcuts"} => Setup!IsWhole(target) /\ saved[p] = base
  /\ pc[p] = "finish" => Setup!IsWhole(target)
Calm ==
  /\ \A p, q \in Members : pc[p] # "idle" /\ pc[q] # "idle" => p = q
  /\ removal # {} => Setup!Idle /\ result = "uninstalled" /\ ~owned
  /\ \A p \in Members : pc[p] # "idle" => SetupProgress(p)
  /\ Setup!Idle => /\ result = "failed" => target = base
                   /\ owned => Setup!IsWhole(target)
SetupInv == Setup!TypeOK /\ UnpackedInv /\ (~disturbed => Calm)

LEMMA SetupConstants ==
  None \notin Members /\ None \notin Setup!Dirs /\ "part" \notin Members
BY ConstantsFit DEF ConstantsFit, Setup!NoneAssumption

LEMMA SetupInit == Init => SetupInv
<1> SUFFICES ASSUME Init PROVE SetupInv
  OBVIOUS
<1> USE SetupConstants DEF Init, Setup!Init
<1>1. Setup!TypeOK
  BY DEF Setup!TypeOK
<1>2. UnpackedInv
  BY DEF UnpackedInv
<1>3. Calm
  BY DEF Calm
<1> QED BY <1>1, <1>2, <1>3 DEF SetupInv

LEMMA SetupStep == SetupInv /\ Setup!Next => SetupInv'
<1> SUFFICES ASSUME SetupInv, NEW p \in Members,
                    \/ Setup!BeginInstall(p) \/ Setup!MakeStaging(p) \/ Setup!Extract(p)
                    \/ Setup!StopProcess(p) \/ Setup!Backup(p) \/ Setup!Fail(p) \/ Setup!Place(p)
                    \/ Setup!WriteUninstallInfo(p) \/ Setup!CreateShortcuts(p)
                    \/ Setup!Finish(p) \/ Setup!RollbackRemoves(p) \/ Setup!RollbackRestores(p)
                    \/ Setup!BeginUninstall(p) \/ Setup!RemoveShortcuts(p)
                    \/ Setup!RemoveUninstallInfo(p) \/ Setup!UninstallFails(p)
                    \/ Setup!RemoveInstallDir(p) \/ Setup!ScheduleRemoval(p)
                    \/ Setup!RemoveScheduled(p) \/ Setup!Crash(p)
             PROVE  SetupInv'
  BY DEF Setup!Next
<1>n. \/ Setup!BeginInstall(p) \/ Setup!MakeStaging(p) \/ Setup!Extract(p)
      \/ Setup!StopProcess(p) \/ Setup!Backup(p) \/ Setup!Fail(p) \/ Setup!Place(p)
      \/ Setup!WriteUninstallInfo(p) \/ Setup!CreateShortcuts(p)
      \/ Setup!Finish(p) \/ Setup!RollbackRemoves(p) \/ Setup!RollbackRestores(p)
      \/ Setup!BeginUninstall(p) \/ Setup!RemoveShortcuts(p)
      \/ Setup!RemoveUninstallInfo(p) \/ Setup!UninstallFails(p)
      \/ Setup!RemoveInstallDir(p) \/ Setup!ScheduleRemoval(p)
      \/ Setup!RemoveScheduled(p) \/ Setup!Crash(p)
  OBVIOUS
<1> USE SetupConstants DEF SetupInv, Setup!TypeOK, UnpackedInv, Calm, SetupProgress, Setup!Idle,
        Setup!IsWhole, Setup!Goto, Setup!At, Setup!Meets
<1>1. ASSUME Setup!BeginInstall(p) \/ Setup!BeginUninstall(p) PROVE SetupInv'
  <2> USE DEF Setup!BeginInstall, Setup!BeginUninstall
  <2>a. /\ UNCHANGED <<target, saved, staging, registry, removal, owned>>
        /\ result' = None /\ base' = target
    BY <1>1
  <2>b. PICK l \in {"prepare", "unlink"} : pc' = [pc EXCEPT ![p] = l]
    BY <1>1
  <2>d. disturbed' \in BOOLEAN /\ (~disturbed' => ~disturbed /\ removal = {}
                                                   /\ \A q \in Members : pc[q] = "idle")
    BY <1>1
  <2>1. Setup!TypeOK'
    BY <2>a, <2>b, <2>d
  <2>2. UnpackedInv'
    BY <2>a, <2>b
  <2>3. ASSUME ~disturbed' PROVE Calm'
    <3>1. ~disturbed /\ removal = {} /\ (\A q \in Members : pc[q] = "idle")
          /\ (owned => Setup!IsWhole(target))
      BY <2>d, <2>3
    <3>2. pc'[p] = l /\ \A q \in Members \ {p} : pc'[q] = "idle"
      BY <2>b, <3>1
    <3>3. \A q \in Members : pc'[q] # "idle" => SetupProgress(q)'
      BY <2>a, <2>b, <3>1, <3>2
    <3> QED BY <2>a, <2>b, <3>1, <3>2, <3>3
  <2> QED BY <2>1, <2>2, <2>3
<1>2. ASSUME Setup!MakeStaging(p) \/ Setup!Extract(p) \/ Setup!StopProcess(p) PROVE SetupInv'
  <2> USE DEF Setup!MakeStaging, Setup!Extract, Setup!StopProcess
  <2>1. Setup!TypeOK'
    BY <1>2
  <2>2. UnpackedInv'
    BY <1>2
  <2>3. ~disturbed' => Calm'
    BY <1>2
  <2> QED BY <2>1, <2>2, <2>3
<1>3. ASSUME Setup!Backup(p) PROVE SetupInv'
  <2> USE DEF Setup!Backup
  <2>1. Setup!TypeOK'
    BY <1>3
  <2>2. UnpackedInv'
    BY <1>3
  <2>3. ~disturbed' => Calm'
    BY <1>3
  <2> QED BY <2>1, <2>2, <2>3
<1>4. ASSUME Setup!Fail(p) \/ Setup!UninstallFails(p) PROVE SetupInv'
  <2> USE DEF Setup!Fail, Setup!UninstallFails
  <2>1. Setup!TypeOK'
    BY <1>4
  <2>2. UnpackedInv'
    BY <1>4
  <2>3. ~disturbed' => Calm'
    BY <1>4
  <2> QED BY <2>1, <2>2, <2>3
<1>5. ASSUME Setup!Place(p) PROVE SetupInv'
  <2> USE DEF Setup!Place
  <2>0. target' = [ver |-> p, is |-> "whole"] /\ target' \in Setup!Dirs
    BY <1>5 DEF Setup!Dirs
  <2>1. Setup!TypeOK'
    BY <1>5, <2>0
  <2>2. UnpackedInv'
    BY <1>5, <2>0
  <2>3. ~disturbed' => Calm'
    BY <1>5, <2>0
  <2> QED BY <2>1, <2>2, <2>3
<1>6a. ASSUME Setup!WriteUninstallInfo(p) PROVE SetupInv'
  <2> USE DEF Setup!WriteUninstallInfo
  <2>1. Setup!TypeOK'
    BY <1>6a
  <2>2. UnpackedInv'
    BY <1>6a
  <2>3. ~disturbed' => Calm'
    BY <1>6a
  <2> QED BY <2>1, <2>2, <2>3
<1>6b. ASSUME Setup!CreateShortcuts(p) PROVE SetupInv'
  <2> USE DEF Setup!CreateShortcuts
  <2>1. Setup!TypeOK'
    BY <1>6b
  <2>2. UnpackedInv'
    BY <1>6b
  <2>3. ~disturbed' => Calm'
    BY <1>6b
  <2> QED BY <2>1, <2>2, <2>3
<1>6c. ASSUME Setup!Finish(p) PROVE SetupInv'
  <2> USE DEF Setup!Finish
  <2>1. Setup!TypeOK'
    BY <1>6c
  <2>2. UnpackedInv'
    BY <1>6c
  <2>3. ~disturbed' => Calm'
    BY <1>6c
  <2> QED BY <2>1, <2>2, <2>3
\* What is left of a directory.
<1>r. ASSUME NEW d \in Setup!Removed(target)
      PROVE  d \in Setup!Dirs \cup {None} /\ (d # None => d.is = "torn")
  BY DEF Setup!Removed, Setup!Dirs
<1>7. ASSUME Setup!RollbackRemoves(p) PROVE SetupInv'
  <2> USE DEF Setup!RollbackRemoves
  <2>0. target' \in Setup!Dirs \cup {None} /\ (target' # None => target'.is = "torn")
        /\ disturbed' = IF target' # None THEN TRUE ELSE disturbed
    BY <1>7, <1>r
  <2>1. Setup!TypeOK'
    BY <1>7, <2>0
  <2>2. UnpackedInv'
    BY <1>7, <2>0
  <2>3. ~disturbed' => Calm'
    BY <1>7, <2>0
  <2> QED BY <2>1, <2>2, <2>3
<1>8. ASSUME Setup!RollbackRestores(p) PROVE SetupInv'
  <2> USE DEF Setup!RollbackRestores
  <2>1. Setup!TypeOK'
    BY <1>8
  <2>2. UnpackedInv'
    BY <1>8
  <2>3. ~disturbed' => Calm'
    BY <1>8
  <2> QED BY <2>1, <2>2, <2>3
<1>9. ASSUME Setup!RemoveShortcuts(p) \/ Setup!RemoveUninstallInfo(p) PROVE SetupInv'
  <2> USE DEF Setup!RemoveShortcuts, Setup!RemoveUninstallInfo
  <2>1. Setup!TypeOK'
    BY <1>9
  <2>2. UnpackedInv'
    BY <1>9
  <2>3. ~disturbed' => Calm'
    BY <1>9
  <2> QED BY <2>1, <2>2, <2>3
<1>10. ASSUME Setup!RemoveInstallDir(p) PROVE SetupInv'
  <2> USE DEF Setup!RemoveInstallDir
  <2>0. target' \in Setup!Dirs \cup {None} /\ (target' # None => target'.is = "torn")
        /\ disturbed' = (IF target' # None THEN TRUE ELSE disturbed)
        /\ result' = IF target' = None THEN "uninstalled" ELSE "kept"
    BY <1>10, <1>r
  <2>1. Setup!TypeOK'
    BY <1>10, <2>0
  <2>2. UnpackedInv'
    BY <1>10, <2>0
  <2>3. ~disturbed' => Calm'
    BY <1>10, <2>0
  <2> QED BY <2>1, <2>2, <2>3
<1>11. ASSUME Setup!ScheduleRemoval(p) PROVE SetupInv'
  <2> USE DEF Setup!ScheduleRemoval
  <2>1. Setup!TypeOK'
    BY <1>11
  <2>2. UnpackedInv'
    BY <1>11
  <2>3. ~disturbed' => Calm'
    BY <1>11
  <2> QED BY <2>1, <2>2, <2>3
<1>12. ASSUME Setup!RemoveScheduled(p) PROVE SetupInv'
  <2> USE DEF Setup!RemoveScheduled
  <2>0. target' \in Setup!Dirs \cup {None} /\ (target' # None => target'.is = "torn")
        /\ disturbed' = IF target' # None THEN TRUE ELSE disturbed
    BY <1>12, <1>r
  <2>1. Setup!TypeOK'
    BY <1>12, <2>0
  <2>2. UnpackedInv'
    BY <1>12, <2>0
  <2>3. ~disturbed' => Calm'
    BY <1>12, <2>0
  <2> QED BY <2>1, <2>2, <2>3
<1>13. ASSUME Setup!Crash(p) PROVE SetupInv'
  <2> USE DEF Setup!Crash
  <2>1. Setup!TypeOK'
    BY <1>13
  <2>2. UnpackedInv'
    BY <1>13
  <2> QED BY <1>13, <2>1, <2>2
<1> QED BY <1>1, <1>2, <1>3, <1>4, <1>5, <1>6a, <1>6b, <1>6c, <1>7, <1>8, <1>9, <1>10, <1>11, <1>12, <1>13, <1>n

\* What was reported as installed is whole and runs, what was removed is gone, and
\* what failed changed nothing, for any binaries, callers and installers
\* (pkg/macoshelperctl/manager.go; installer/installer.go).
THEOREM Installations == Spec => []InstalledIsWhole
<1> DEFINE Inv == (part = "helper" => HelperInv) /\ (part = "installer" => SetupInv)
<1>1. Init => Inv
  BY HelperInit, SetupInit
<1>2. Inv /\ [Next]_vars => Inv'
  <2> SUFFICES ASSUME Inv, [Next]_vars PROVE Inv'
    OBVIOUS
  <2>1. CASE Next
    BY <2>1, HelperStep, SetupStep DEF Next
  <2>2. CASE UNCHANGED vars
    <3>1. ASSUME HelperInv PROVE HelperInv'
      BY <2>2, <3>1 DEF vars, helperVars, HelperInv, HelperTypes, CallsInv, HelperProgress,
                        CallFits, QuietInv, Helper!InstalledRuns, Helper!UninstalledIsGone
    <3>2. ASSUME SetupInv PROVE SetupInv'
      BY <2>2, <3>2 DEF vars, installerVars, SetupInv, Setup!TypeOK, UnpackedInv, Calm,
                        SetupProgress, Setup!Idle
    <3> QED BY <2>2, <3>1, <3>2 DEF vars
  <2> QED BY <2>1, <2>2
<1>3. Inv => InstalledIsWhole
  <2>1. HelperInv => /\ Helper!TypeOK /\ Helper!FilesAreWhole
                     /\ Helper!InstalledRuns /\ Helper!UninstalledIsGone
    BY HelperConstants
       DEF HelperInv, HelperTypes, HelperCalls, Binaries, Helper!TypeOK, Helper!FilesAreWhole
  <2>2. SetupInv => /\ Setup!TypeOK /\ Setup!FailureRestores
                    /\ Setup!InstalledIsThere /\ Setup!DirIsWhole
    BY DEF SetupInv, UnpackedInv, Calm, Setup!FailureRestores, Setup!InstalledIsThere,
           Setup!DirIsWhole
  <2> QED BY <2>1, <2>2 DEF InstalledIsWhole
<1> QED BY <1>1, <1>2, <1>3, PTL DEF Spec

-------------------------------------------------------------------------------
(* The dashboard's accounts.                                               *)

Session == [pc : {"idle", "login", "allowed"}, user : Names, id : Accounts!Ids,
            role : Accounts!Roles, fresh : BOOLEAN]
AccountsInv ==
  /\ Accounts!TypeOK
  /\ ~up => \A r \in Callers : session[r].pc = "idle"
  /\ Accounts!RoleIsCurrent

\* A change of an account leaves no request that still counts as current.
LEMMA NoticedFits ==
  ASSUME Accounts!TypeOK, NEW name \in Names, NEW role \in Accounts!Roles \cup {None}
  PROVE  /\ Accounts!Noticed(name, role) \in [Callers -> Session]
         /\ \A r \in Callers :
              LET s == Accounts!Noticed(name, role)[r]
              IN s.pc = "allowed" /\ s.fresh => s = session[r] /\ s.user # name
<1> DEFINE Then(r) == Accounts!Noticed(name, role)[r]
<1>0. session \in [Callers -> Session]
  BY DEF Accounts!TypeOK, Session
<1>1. ASSUME NEW r \in Callers
      PROVE  Then(r) \in Session /\ (Then(r).pc = "allowed" /\ Then(r).fresh => Then(r) = session[r] /\ Then(r).user # name)
  <2>0. session[r] \in Session
    BY <1>0
  <2>1. CASE session[r].user # name
    BY <2>0, <2>1 DEF Accounts!Noticed
  <2>2. CASE session[r].user = name /\ session[r].pc = "login" /\ session[r].fresh /\ role # None
    <3>1. Then(r) = [pc |-> "login", user |-> name, id |-> session[r].id, role |-> role, fresh |-> TRUE]
      BY <2>2 DEF Accounts!Noticed
    <3> HIDE DEF Then
    <3> QED BY <2>0, <2>2, <3>1 DEF Session
  <2>3. CASE session[r].user = name /\ ~(session[r].pc = "login" /\ session[r].fresh /\ role # None)
    <3>1. Then(r) = [pc |-> session[r].pc, user |-> name, id |-> session[r].id, role |-> session[r].role, fresh |-> FALSE]
      BY <2>3 DEF Accounts!Noticed
    <3> HIDE DEF Then
    <3> QED BY <2>0, <2>3, <3>1 DEF Session
  <2> QED BY <2>1, <2>2, <2>3
<1>2. Accounts!Noticed(name, role) = [r \in Callers |-> Then(r)]
  BY DEF Accounts!Noticed
<1> HIDE DEF Then
<1> QED BY <1>1, <1>2

\* What the three handlers that change an account have in common.
LEMMA FinishKeeps ==
  ASSUME AccountsInv, NEW r \in Callers, NEW name \in Names, NEW action \in {"create", "update", "delete"},
         NEW what \in {"none", "created", "updated", "deleted"}, Accounts!AdminAssumption,
         users'[name] \in Accounts!Roles \cup {None}, Accounts!Finish(r, name, action, what),
         users' \in [Names -> Accounts!Roles \cup {None}], seeded' \in BOOLEAN,
         \A n \in Names \ {name} : users'[n] = users[n], up
  PROVE  AccountsInv'
<1> DEFINE noticed == Accounts!Noticed(name, users'[name])
<1>t. Accounts!TypeOK /\ session \in [Callers -> Session]
  BY DEF AccountsInv, Accounts!TypeOK, Session
<1>1. noticed \in [Callers -> Session]
  BY <1>t, NoticedFits
<1>2. \A q \in Callers : noticed[q].pc = "allowed" /\ noticed[q].fresh => noticed[q] = session[q] /\ noticed[q].user # name
  BY <1>t, NoticedFits
<1>3. session' = [noticed EXCEPT ![r] = Accounts!Idle]
  BY DEF Accounts!Finish
<1> HIDE DEF noticed
<1>4. Accounts!Idle \in Session /\ Accounts!Idle.pc = "idle"
  BY DEF Accounts!Idle, Session, Accounts!AdminAssumption, Accounts!Ids, Accounts!Roles
<1>5. session' \in [Callers -> Session]
  BY <1>1, <1>3, <1>4
<1>6. Accounts!TypeOK'
  BY <1>t, <1>5 DEF Accounts!TypeOK, Accounts!Finish, Session
<1>7. Accounts!RoleIsCurrent'
  <2> SUFFICES ASSUME NEW q \in Callers, session'[q].pc = "allowed", session'[q].fresh
               PROVE  session'[q].role = users'[session'[q].user]
    BY DEF Accounts!RoleIsCurrent, Accounts!At
  <2>1. q # r
    BY <1>1, <1>3, <1>4
  <2>2. session'[q] = session[q] /\ session[q].user \in Names \ {name}
    BY <1>1, <1>2, <1>3, <1>t, <2>1 DEF Session
  <2> QED BY <2>2 DEF AccountsInv, Accounts!RoleIsCurrent, Accounts!At
<1>8. up'
  BY DEF Accounts!Finish
<1> QED BY <1>6, <1>7, <1>8 DEF AccountsInv

LEMMA AccountsInit == Accounts!AdminAssumption /\ Accounts!Init => AccountsInv
<1> SUFFICES ASSUME Accounts!AdminAssumption, Accounts!Init PROVE AccountsInv
  OBVIOUS
<1>1. Accounts!Idle \in Session /\ Accounts!Idle.pc = "idle"
  BY DEF Accounts!Idle, Session, Accounts!AdminAssumption, Accounts!Ids, Accounts!Roles
<1>2. Accounts!TypeOK
  BY <1>1 DEF Accounts!Init, Accounts!TypeOK, Session, Accounts!Nothing
<1>3. \A r \in Callers : session[r].pc = "idle"
  BY <1>1 DEF Accounts!Init
<1> QED BY <1>2, <1>3 DEF AccountsInv, Accounts!RoleIsCurrent, Accounts!At

\* A step that changes nothing but one request, for one that is right.
LEMMA RequestKeeps ==
  ASSUME AccountsInv, NEW r \in Callers, NEW s \in Session, session' = [session EXCEPT ![r] = s],
         s.pc = "allowed" /\ s.fresh => s.role = users[s.user],
         UNCHANGED <<up, Accounts!accounts, accounts, trail, done>>, up,
         tokens' \in [Accounts!Ids -> Accounts!Roles \cup {None}]
  PROVE  AccountsInv'
<1>t. Accounts!TypeOK /\ session \in [Callers -> Session] /\ UNCHANGED <<users, seeded>>
  BY DEF AccountsInv, Accounts!TypeOK, Session, Accounts!accounts
<1>1. session' \in [Callers -> Session]
  BY <1>t
<1>2. Accounts!TypeOK'
  BY <1>t, <1>1 DEF Accounts!TypeOK, Session
<1>3. \A q \in Callers : session'[q] = IF q = r THEN s ELSE session[q]
  BY <1>t
<1>4. Accounts!RoleIsCurrent'
  BY <1>t, <1>3 DEF Accounts!RoleIsCurrent, Accounts!At, AccountsInv
<1> QED BY <1>2, <1>4 DEF AccountsInv

LEMMA AccountsStep == Accounts!AdminAssumption /\ AccountsInv /\ Accounts!Next => AccountsInv'
<1> SUFFICES ASSUME Accounts!AdminAssumption, AccountsInv, Accounts!Next PROVE AccountsInv'
  OBVIOUS
<1>t. Accounts!TypeOK /\ session \in [Callers -> Session]
  BY DEF AccountsInv, Accounts!TypeOK, Session
<1>i. Accounts!Idle \in Session /\ Accounts!Idle.pc = "idle"
  BY DEF Accounts!Idle, Session, Accounts!AdminAssumption, Accounts!Ids, Accounts!Roles
<1>1. CASE Accounts!Start
  <2>1. Accounts!Loaded \in [Names -> Accounts!Roles \cup {None}]
    BY <1>t DEF Accounts!Loaded, Accounts!TypeOK, Accounts!AdminAssumption, Accounts!Nothing, Accounts!Roles
  <2>2. Accounts!TypeOK'
    BY <1>1, <1>t, <2>1 DEF Accounts!Start, Accounts!TypeOK
  <2>3. \A r \in Callers : session'[r].pc = "idle"
    BY <1>1 DEF Accounts!Start, AccountsInv
  <2> QED BY <2>2, <2>3 DEF AccountsInv, Accounts!RoleIsCurrent, Accounts!At
<1>2. CASE Accounts!Stop
  <2>1. Accounts!TypeOK'
    BY <1>2, <1>t, <1>i DEF Accounts!Stop, Accounts!TypeOK, Accounts!Nothing, Session
  <2>2. \A r \in Callers : session'[r].pc = "idle"
    BY <1>2, <1>i DEF Accounts!Stop
  <2> QED BY <2>1, <2>2 DEF AccountsInv, Accounts!RoleIsCurrent, Accounts!At
<1>3. ASSUME NEW i \in Accounts!Ids, Accounts!TokenExpires(i) PROVE AccountsInv'
  <2>1. Accounts!TypeOK'
    BY <1>3, <1>t DEF Accounts!TokenExpires, Accounts!TypeOK, Accounts!accounts
  <2> QED BY <1>3, <2>1 DEF Accounts!TokenExpires, Accounts!accounts, AccountsInv, Accounts!RoleIsCurrent,
                             Accounts!At
<1>4. ASSUME NEW r \in Callers, NEW name \in Names, Accounts!LoginRead(r, name) PROVE AccountsInv'
  <2>1. [pc |-> "login", user |-> name, id |-> Accounts!IdOf(name), role |-> users[name], fresh |-> TRUE] \in Session
    BY <1>4, <1>t DEF Accounts!LoginRead, Accounts!TypeOK, Session, Accounts!IdOf, Accounts!Ids
  <2> QED BY <1>4, <1>t, <2>1, RequestKeeps DEF Accounts!LoginRead, Accounts!At, Accounts!TypeOK
<1>5. ASSUME NEW r \in Callers, NEW name \in Names, Accounts!Authenticate(r, name) PROVE AccountsInv'
  <2>1. [pc |-> "allowed", user |-> name, id |-> Accounts!IdOf(name), role |-> users[name], fresh |-> TRUE] \in Session
    BY <1>5, <1>t DEF Accounts!Authenticate, Accounts!TypeOK, Session, Accounts!IdOf, Accounts!Ids
  <2> QED BY <1>5, <1>t, <2>1, RequestKeeps DEF Accounts!Authenticate, Accounts!At, Accounts!TypeOK, Accounts!RoleOf
<1>6. ASSUME NEW r \in Callers, Accounts!LoginDone(r) PROVE AccountsInv'
  <2>1. tokens' \in [Accounts!Ids -> Accounts!Roles \cup {None}]
    BY <1>6, <1>t DEF Accounts!LoginDone, Accounts!TypeOK, Session
  <2> QED BY <1>6, <1>i, <2>1, RequestKeeps DEF Accounts!LoginDone, Accounts!At
<1>7. ASSUME NEW r \in Callers, Accounts!WrongPassword(r) PROVE AccountsInv'
  BY <1>7, <1>i, <1>t, RequestKeeps DEF Accounts!WrongPassword, Accounts!At, Accounts!TypeOK
<1>8. ASSUME NEW r \in Callers, Accounts!Reply(r) PROVE AccountsInv'
  BY <1>8, <1>i, <1>t, RequestKeeps DEF Accounts!Reply, Accounts!At, Accounts!TypeOK
<1>9. ASSUME NEW r \in Callers, NEW name \in Names, NEW role \in Accounts!Roles, Accounts!CreateUser(r, name, role)
      PROVE  AccountsInv'
  <2>1. /\ users' \in [Names -> Accounts!Roles \cup {None}] /\ users'[name] \in Accounts!Roles \cup {None}
        /\ \A n \in Names \ {name} : users'[n] = users[n]
    BY <1>9, <1>t DEF Accounts!CreateUser, Accounts!TypeOK
  <2>2. seeded' \in BOOLEAN
    BY <1>9 DEF Accounts!CreateUser
  <2>3. Accounts!Finish(r, name, "create", "created") /\ up
    BY <1>9 DEF Accounts!CreateUser, Accounts!MayWriteUsers, Accounts!At
  <2> QED BY <2>1, <2>2, <2>3, FinishKeeps
<1>10. ASSUME NEW r \in Callers, NEW name \in Names, NEW role \in Accounts!Roles, Accounts!UpdateUserRole(r, name, role)
      PROVE  AccountsInv'
  <2>1. /\ users' \in [Names -> Accounts!Roles \cup {None}] /\ users'[name] \in Accounts!Roles \cup {None}
        /\ \A n \in Names \ {name} : users'[n] = users[n]
    BY <1>10, <1>t DEF Accounts!UpdateUserRole, Accounts!TypeOK
  <2>2. seeded' \in BOOLEAN
    BY <1>10, <1>t DEF Accounts!UpdateUserRole, Accounts!TypeOK
  <2>3. PICK what \in {"none", "created", "updated", "deleted"} : Accounts!Finish(r, name, "update", what)
    <3>1. (IF users[name] = None THEN done[name] ELSE "updated") \in {"none", "created", "updated", "deleted"}
      BY <1>t DEF Accounts!TypeOK
    <3> QED BY <1>10, <3>1 DEF Accounts!UpdateUserRole
  <2>4. up
    BY <1>10 DEF Accounts!UpdateUserRole, Accounts!MayWriteUsers, Accounts!At
  <2> QED BY <2>1, <2>2, <2>3, <2>4, FinishKeeps
<1>11. ASSUME NEW r \in Callers, NEW name \in Names, Accounts!DeleteUser(r, name) PROVE AccountsInv'
  <2>1. /\ users' \in [Names -> Accounts!Roles \cup {None}] /\ users'[name] \in Accounts!Roles \cup {None}
        /\ \A n \in Names \ {name} : users'[n] = users[n]
    BY <1>11, <1>t DEF Accounts!DeleteUser, Accounts!TypeOK
  <2>2. seeded' \in BOOLEAN
    BY <1>11, <1>t DEF Accounts!DeleteUser, Accounts!TypeOK
  <2>3. Accounts!Finish(r, name, "delete", "deleted") /\ up
    BY <1>11 DEF Accounts!DeleteUser, Accounts!MayWriteUsers, Accounts!At
  <2> QED BY <2>1, <2>2, <2>3, FinishKeeps
<1> QED BY <1>1, <1>2, <1>3, <1>4, <1>5, <1>6, <1>7, <1>8, <1>9, <1>10, <1>11 DEF Accounts!Next

LEMMA AccountsStutter == AccountsInv /\ UNCHANGED dashboardVars => AccountsInv'
BY DEF AccountsInv, dashboardVars, Accounts!TypeOK, Accounts!RoleIsCurrent, Accounts!At

-------------------------------------------------------------------------------
(* The dashboard's alerts.                                                 *)

\* A rule that does not cool has not fired since the last cooldown.
RestedInv == \A r \in Members :
  alertRules[r] # None => /\ ~alertRules[r].cooling => close[r] = 0
                          /\ alertRules[r].lasts => close[r] <= 1
AlarmsInv == Alarms!TypeOK /\ fired = nextId /\ DOMAIN events = 1 .. nextId /\ RestedInv

LEMMA AlarmsInit == Alarms!Init => AlarmsInv
<1> SUFFICES ASSUME Alarms!Init PROVE AlarmsInv
  OBVIOUS
<1>1. Alarms!TypeOK
  BY DEF Alarms!Init, Alarms!TypeOK
<1>2. DOMAIN events = 1 .. nextId /\ fired = nextId
  BY DEF Alarms!Init
<1> QED BY <1>1, <1>2 DEF Alarms!Init, AlarmsInv, RestedInv

LEMMA AlarmsStep ==
  ASSUME IsFiniteSet(Members), Alarms!NoneAssumption, AlarmsInv, Alarms!Next PROVE AlarmsInv'
<1>t. Alarms!TypeOK /\ alertRules \in [Members -> Alarms!Rule \cup {None}] /\ close \in [Members -> Nat]
  BY DEF AlarmsInv, Alarms!TypeOK
<1>1. ASSUME NEW r \in Members, Alarms!RemoveRule(r) PROVE AlarmsInv'
  <2>1. Alarms!TypeOK'
    BY <1>1, <1>t DEF Alarms!RemoveRule, Alarms!TypeOK
  <2>2. RestedInv'
    BY <1>1, <1>t DEF Alarms!RemoveRule, AlarmsInv, RestedInv
  <2> QED BY <1>1, <2>1, <2>2 DEF Alarms!RemoveRule, AlarmsInv
<1>2. ASSUME NEW r \in Members, Alarms!CooldownOver(r) PROVE AlarmsInv'
  <2>0. alertRules[r] \in Alarms!Rule
    BY <1>2, <1>t DEF Alarms!CooldownOver
  <2>1. [alertRules[r] EXCEPT !.cooling = FALSE] \in Alarms!Rule
    BY <2>0 DEF Alarms!Rule
  <2>2. alertRules' \in [Members -> Alarms!Rule \cup {None}]
    BY <1>2, <1>t, <2>1 DEF Alarms!CooldownOver
  <2>3. close' \in [Members -> Nat] /\ close'[r] = 0
    BY <1>2, <1>t DEF Alarms!CooldownOver
  <2>4. \A q \in Members \ {r} : alertRules'[q] = alertRules[q] /\ close'[q] = close[q]
    BY <1>2, <1>t DEF Alarms!CooldownOver
  <2>5. RestedInv'
    BY <2>3, <2>4 DEF AlarmsInv, RestedInv
  <2> QED BY <1>2, <1>t, <2>2, <2>3, <2>5 DEF Alarms!CooldownOver, AlarmsInv, Alarms!TypeOK
<1>3. ASSUME NEW r \in Members, NEW enabled \in BOOLEAN, NEW lasts \in BOOLEAN, NEW filter \in Names \cup {None},
             Alarms!PutRule(r, enabled, filter, lasts)
      PROVE  AlarmsInv'
  <2>1. [enabled |-> enabled, filter |-> filter, lasts |-> lasts, cooling |-> FALSE] \in Alarms!Rule
    BY DEF Alarms!Rule
  <2>2. alertRules' \in [Members -> Alarms!Rule \cup {None}]
    BY <1>3, <1>t, <2>1 DEF Alarms!PutRule
  <2>3. close' \in [Members -> Nat] /\ close'[r] = 0
    BY <1>3, <1>t DEF Alarms!PutRule
  <2>4. \A q \in Members \ {r} : alertRules'[q] = alertRules[q] /\ close'[q] = close[q]
    BY <1>3, <1>t DEF Alarms!PutRule
  <2>5. RestedInv'
    BY <2>3, <2>4 DEF AlarmsInv, RestedInv
  <2> QED BY <1>3, <1>t, <2>2, <2>3, <2>5 DEF Alarms!PutRule, AlarmsInv, Alarms!TypeOK
<1>4. ASSUME NEW node \in Names, NEW bad \in SUBSET Members, Alarms!Evaluate(node, bad) PROVE AlarmsInv'
  <2> DEFINE firing == {r \in bad : Alarms!Fires(r, node)}
             count == Alarms!Cardinality(firing)
             new == nextId + 1 .. nextId + count
  <2>1. count \in Nat
    <3>1. Alarms!Cardinality(firing) = Cardinality(firing)
      BY DEF Alarms!Cardinality, Cardinality
    <3>2. IsFiniteSet(firing)
      BY FS_Subset
    <3> QED BY <3>1, <3>2, FS_CardinalityType
  <2>2. PICK of \in Alarms!Bijection(new, firing) :
          events' = [i \in DOMAIN events \cup new |->
                       IF i \in new THEN [rule |-> of[i], acked |-> FALSE] ELSE events[i]]
    BY <1>4 DEF Alarms!Evaluate
  <2>3. of \in [new -> firing]
    BY <2>2 DEF Alarms!Bijection, Alarms!Injection, Alarms!Surjection
  <2>n. nextId' = nextId + count /\ fired' = fired + count /\ nextId \in Nat
    BY <1>4, <1>t DEF Alarms!Evaluate, Alarms!TypeOK
  <2>f. /\ alertRules' = [r \in Members |-> IF r \in firing THEN Alarms!Fired(r) ELSE alertRules[r]]
        /\ close' = [r \in Members |-> IF r \in firing THEN close[r] + 1 ELSE close[r]]
    BY <1>4 DEF Alarms!Evaluate
  <2>w. \A r \in firing : /\ r \in Members /\ alertRules[r] \in Alarms!Rule /\ alertRules[r] # None
                          /\ alertRules[r].lasts => ~alertRules[r].cooling
    BY <1>t DEF Alarms!Fires
  <2> HIDE DEF firing, count
  <2>4. \A i \in new : [rule |-> of[i], acked |-> FALSE] \in Alarms!Event
    BY <2>3, <2>w DEF Alarms!Event
  <2>5. DOMAIN events' = 1 .. nextId'
    BY <2>1, <2>2, <2>n DEF AlarmsInv
  <2>6. events' \in [DOMAIN events' -> Alarms!Event]
    BY <1>t, <2>2, <2>4 DEF Alarms!TypeOK
  <2>7. \A r \in firing : /\ Alarms!Fired(r) \in Alarms!Rule /\ Alarms!Fired(r).cooling
                          /\ Alarms!Fired(r).lasts = alertRules[r].lasts
    BY <2>w DEF Alarms!Fired, Alarms!Rule
  <2>8. alertRules' \in [Members -> Alarms!Rule \cup {None}] /\ close' \in [Members -> Nat]
    BY <1>t, <2>f, <2>7
  <2>9. RestedInv'
    <3> SUFFICES ASSUME NEW r \in Members, alertRules'[r] # None
                 PROVE  /\ ~alertRules'[r].cooling => close'[r] = 0
                        /\ alertRules'[r].lasts => close'[r] <= 1
      BY DEF RestedInv
    <3>1. CASE r \in firing
      <4>1. alertRules'[r] = Alarms!Fired(r) /\ close'[r] = close[r] + 1
        BY <2>f, <3>1
      <4>2. alertRules[r].lasts => close[r] = 0
        BY <2>w, <3>1 DEF AlarmsInv, RestedInv
      <4>3. Alarms!Fired(r).cooling /\ (Alarms!Fired(r).lasts => close'[r] = 1)
        BY <2>7, <3>1, <4>1, <4>2
      <4> QED BY <4>1, <4>3
    <3>2. CASE r \notin firing
      BY <2>f, <3>2 DEF AlarmsInv, RestedInv
    <3> QED BY <3>1, <3>2
  <2>10. nextId' \in Nat /\ fired' \in Nat /\ fired' = nextId' /\ DOMAIN events' \subseteq Nat
    <3>1. nextId' \in Nat /\ fired' = nextId'
      BY <2>1, <2>n DEF AlarmsInv
    <3> QED BY <3>1, <2>5
  <2> QED BY <2>5, <2>6, <2>8, <2>9, <2>10 DEF AlarmsInv, Alarms!TypeOK
<1>5. ASSUME NEW i \in DOMAIN events, Alarms!AckEvent(i) PROVE AlarmsInv'
  <2>1. [rule |-> events[i].rule, acked |-> TRUE] \in Alarms!Event
    BY <1>t DEF Alarms!TypeOK, Alarms!Event
  <2>2. DOMAIN events' = DOMAIN events /\ events' \in [DOMAIN events -> Alarms!Event]
    BY <1>5, <1>t, <2>1 DEF Alarms!AckEvent, Alarms!TypeOK
  <2>3. Alarms!TypeOK'
    BY <1>5, <1>t, <2>2 DEF Alarms!AckEvent, Alarms!TypeOK
  <2>4. RestedInv'
    BY <1>5 DEF Alarms!AckEvent, AlarmsInv, RestedInv
  <2> QED BY <1>5, <2>2, <2>3, <2>4 DEF Alarms!AckEvent, AlarmsInv
<1> QED BY <1>1, <1>2, <1>3, <1>4, <1>5 DEF Alarms!Next

LEMMA AlarmsStutter == AlarmsInv /\ UNCHANGED alertVars => AlarmsInv'
BY DEF AlarmsInv, alertVars, Alarms!TypeOK, RestedInv

-------------------------------------------------------------------------------
(* What the dashboard changes, and what its log says of it.                *)

ChangeRecord == [pc : {"idle", "sent", "accepted", "found"}, kind : Data!Kinds,
                 id : Flows \cup Data!Items \cup {None}, alone : BOOLEAN]
Open(r) == change[r].pc \in {"sent", "accepted"}
DataTypes ==
  /\ Data!TypeOK
  /\ \A r \in Callers : /\ Open(r) => change[r].id \in Flows
                        /\ change[r].pc = "found" => change[r].id \in Data!Items
\* Nobody else is at the policy of a call that is alone, now or later.
AloneInv ==
  \A r \in Callers : Open(r) /\ change[r].alone =>
    /\ \A q \in Callers : change[q].id = change[r].id => q = r
    /\ \A c \in overdue : c.id # change[r].id
\* An accepted call that is alone decided what the relay has; without one the
\* newest event did.
TrailInv ==
  /\ \A r \in Callers : change[r].pc = "accepted" /\ change[r].alone =>
       (change[r].id \in relayPolicies <=> change[r].kind = "put")
  /\ \A p \in Flows \ unsure :
       (\A r \in Callers : ~(change[r].pc = "accepted" /\ change[r].id = p)) =>
         (p \in relayPolicies <=> last[p] = "put")
DataInv == DataTypes /\ AloneInv /\ TrailInv /\ Data!ReportsAreTrue

LEMMA IdleChange ==
  ASSUME Data!NoneAssumption
  PROVE  Data!Idle \in ChangeRecord /\ Data!Idle.pc = "idle" /\ Data!Idle.id = None /\ None \notin Flows
BY DEF Data!Idle, ChangeRecord, Data!Kinds, Data!NoneAssumption

LEMMA DataInit == Data!NoneAssumption /\ Data!Init => DataInv
<1> SUFFICES ASSUME Data!NoneAssumption, Data!Init PROVE DataInv
  OBVIOUS
<1>1. \A r \in Callers : change[r] = Data!Idle
  BY DEF Data!Init
<1>2. Data!TypeOK
  BY IdleChange DEF Data!Init, Data!TypeOK, ChangeRecord, Data!Kinds, Data!Items
<1>3. DataTypes
  BY <1>1, <1>2, IdleChange DEF DataTypes, Open
<1>4. AloneInv
  BY <1>1, IdleChange DEF AloneInv, Open
<1>5. TrailInv
  BY <1>1, IdleChange DEF TrailInv, Data!Init
<1>6. Data!ReportsAreTrue
  BY DEF Data!Init, Data!ReportsAreTrue
<1> QED BY <1>3, <1>4, <1>5, <1>6 DEF DataInv

\* How the requests of the others go on: as they were, or not alone any more.
Carries(q) == change'[q] = change[q] \/ change'[q] = Data!NotAlone(q)

LEMMA CarriedOn ==
  ASSUME DataTypes, NEW q \in Callers, Carries(q)
  PROVE  /\ change'[q] \in ChangeRecord
         /\ change'[q].pc = change[q].pc /\ change'[q].id = change[q].id
         /\ change'[q].kind = change[q].kind /\ (change'[q].alone => change[q].alone)
<1>1. change[q] \in ChangeRecord
  BY DEF DataTypes, Data!TypeOK, ChangeRecord
<1>2. CASE change'[q] = change[q]
  BY <1>1, <1>2
<1>3. CASE change'[q] = Data!NotAlone(q)
  BY <1>1, <1>3 DEF Data!NotAlone, ChangeRecord
<1> QED BY <1>2, <1>3 DEF Carries

\* A step after which r is idle and the others go on, with no policy changed.
LEMMA EndKeeps ==
  ASSUME Data!NoneAssumption, DataInv, NEW r \in Callers, Data!End(r), UNCHANGED relayPolicies,
         overdue' \subseteq overdue \cup (IF change[r].pc = "sent"
                                          THEN {[kind |-> change[r].kind, id |-> change[r].id]} ELSE {})
  PROVE  /\ change' \in [Callers -> ChangeRecord]
         /\ \A q \in Callers : q # r => change'[q] = change[q]
         /\ change'[r] = Data!Idle
         /\ AloneInv'
         /\ \A q \in Callers : change'[q].pc = "accepted" /\ change'[q].alone =>
              (change'[q].id \in relayPolicies' <=> change'[q].kind = "put")
<1>t. change \in [Callers -> ChangeRecord]
  BY DEF DataInv, DataTypes, Data!TypeOK, ChangeRecord
<1>1. change' \in [Callers -> ChangeRecord] /\ change'[r] = Data!Idle
  BY <1>t, IdleChange DEF Data!End
<1>2. \A q \in Callers : q # r => change'[q] = change[q]
  BY <1>t DEF Data!End
<1>3. AloneInv'
  <2> SUFFICES ASSUME NEW q \in Callers, Open(q)', change'[q].alone
               PROVE  /\ \A p \in Callers : change'[p].id = change'[q].id => p = q
                      /\ \A c \in overdue' : c.id # change'[q].id
    BY DEF AloneInv
  <2>1. q # r /\ change'[q] = change[q] /\ Open(q)
    BY <1>1, <1>2, IdleChange DEF Open
  <2>2. change[q].id \in Flows /\ change[q].id # change[r].id
    BY <2>1 DEF DataInv, DataTypes, AloneInv
  <2>3. \A p \in Callers : change'[p].id = change'[q].id => p = q
    BY <1>1, <1>2, <2>1, <2>2, IdleChange DEF DataInv, AloneInv
  <2>4. \A c \in overdue' : c.id # change'[q].id
    <3> TAKE c \in overdue'
    <3>1. c \in overdue \/ c = [kind |-> change[r].kind, id |-> change[r].id]
      OBVIOUS
    <3>2. CASE c \in overdue
      BY <2>1, <3>2 DEF DataInv, AloneInv
    <3>3. CASE c = [kind |-> change[r].kind, id |-> change[r].id]
      BY <2>1, <2>2, <3>3
    <3> QED BY <3>1, <3>2, <3>3
  <2> QED BY <2>3, <2>4
<1>4. \A q \in Callers : change'[q].pc = "accepted" /\ change'[q].alone =>
        (change'[q].id \in relayPolicies' <=> change'[q].kind = "put")
  BY <1>1, <1>2, IdleChange DEF DataInv, TrailInv
<1> QED BY <1>1, <1>2, <1>3, <1>4

\* A call that ended before it was accepted, or after which its policy is in
\* doubt, leaves what the log says of the others.
LEMMA TrailAfterEnd ==
  ASSUME Data!NoneAssumption, DataInv, NEW r \in Callers, Data!End(r), UNCHANGED <<relayPolicies, last>>,
         unsure \subseteq unsure', change[r].pc = "accepted" => change[r].id \in unsure'
  PROVE  \A p \in Flows \ unsure' :
           (\A q \in Callers : ~(change'[q].pc = "accepted" /\ change'[q].id = p)) =>
             (p \in relayPolicies' <=> last'[p] = "put")
<1>t. change \in [Callers -> ChangeRecord]
  BY DEF DataInv, DataTypes, Data!TypeOK, ChangeRecord
<1> SUFFICES ASSUME NEW p \in Flows, p \notin unsure',
                    \A q \in Callers : ~(change'[q].pc = "accepted" /\ change'[q].id = p)
             PROVE  p \in relayPolicies <=> last[p] = "put"
  OBVIOUS
<1>1. \A q \in Callers : ~(change[q].pc = "accepted" /\ change[q].id = p)
  BY <1>t DEF Data!End
<1> QED BY <1>1 DEF DataInv, TrailInv

\* The calls about policies: they are made, answered, given up, and written down.
LEMMA CallStep ==
  ASSUME Data!NoneAssumption, DataInv, NEW r \in Callers,
         \/ \E kind \in Data!Kinds, p \in Flows : Data!Send(r, kind, p)
         \/ Data!RelayAccepts(r) \/ Data!RelayRefuses(r) \/ Data!GiveUp(r) \/ Data!Audit(r)
         \/ Data!AuditFails(r)
  PROVE  DataInv'
<1>t. change \in [Callers -> ChangeRecord] /\ Data!TypeOK
  BY DEF DataInv, DataTypes, Data!TypeOK, ChangeRecord
<1>1. ASSUME NEW kind \in Data!Kinds, NEW p \in Flows, Data!Send(r, kind, p) PROVE DataInv'
  <2> DEFINE clear == Data!About(p) = {} /\ ~\E c \in overdue : c.id = p
             mine == [pc |-> "sent", kind |-> kind, id |-> p, alone |-> clear]
  <2>1. change' = [q \in Callers |-> IF q = r THEN mine
                                      ELSE IF change[q].id = p THEN Data!NotAlone(q) ELSE change[q]]
    BY <1>1 DEF Data!Send, Data!Begin
  <2>2. clear \in BOOLEAN
    OBVIOUS
  <2>c. clear => (\A q \in Callers : change[q].id # p) /\ (\A c \in overdue : c.id # p)
    BY DEF Data!About
  <2> HIDE DEF clear
  <2>3. mine \in ChangeRecord /\ mine.pc = "sent" /\ mine.kind = kind /\ mine.id = p /\ (mine.alone => clear)
    BY <2>2 DEF ChangeRecord
  <2> HIDE DEF mine
  <2>4. \A q \in Callers : q # r => Carries(q) /\ (change[q].id = p => ~change'[q].alone)
    BY <2>1 DEF Carries, Data!NotAlone
  <2>5. change'[r] = mine
    BY <2>1
  <2>6. \A q \in Callers : q # r =>
          /\ change'[q] \in ChangeRecord
          /\ change'[q].pc = change[q].pc /\ change'[q].id = change[q].id
          /\ change'[q].kind = change[q].kind /\ (change'[q].alone => change[q].alone)
    BY <2>4, CarriedOn DEF DataInv
  <2>7. change' \in [Callers -> ChangeRecord]
    BY <2>1, <2>3, <2>5, <2>6
  <2>8. UNCHANGED <<stored, serving, logger, tornLine, last, unsure, relayPolicies, overdue, items, told, clash>>
    BY <1>1 DEF Data!Send, Data!log, Data!relay, Data!table
  <2>9. DataTypes'
    BY <1>t, <2>3, <2>5, <2>6, <2>7, <2>8 DEF DataInv, DataTypes, Data!TypeOK, ChangeRecord, Open
  <2>10. AloneInv'
    <3> SUFFICES ASSUME NEW q \in Callers, Open(q)', change'[q].alone
                 PROVE  /\ \A s \in Callers : change'[s].id = change'[q].id => s = q
                        /\ \A c \in overdue' : c.id # change'[q].id
      BY DEF AloneInv
    <3>1. CASE q = r
      BY <2>3, <2>5, <2>6, <2>8, <2>c, <3>1
    <3>2. CASE q # r
      <4>1. Open(q) /\ change[q].alone /\ change[q].id # p
        BY <2>4, <2>6, <3>2 DEF Open
      <4> QED BY <2>3, <2>5, <2>6, <2>8, <3>2, <4>1 DEF DataInv, AloneInv
    <3> QED BY <3>1, <3>2
  <2>11. TrailInv'
    <3>1. \A q \in Callers : change'[q].pc = "accepted" =>
            q # r /\ change[q].pc = "accepted" /\ change'[q].id = change[q].id
            /\ change'[q].kind = change[q].kind /\ (change'[q].alone => change[q].alone)
      BY <2>3, <2>5, <2>6
    <3>2. \A q \in Callers : change[q].pc = "accepted" /\ q # r =>
            change'[q].pc = "accepted" /\ change'[q].id = change[q].id
      BY <2>6
    <3>3. change[r].pc = "idle"
      BY <1>1 DEF Data!Send, Data!At
    <3> QED BY <2>8, <3>1, <3>2, <3>3 DEF DataInv, TrailInv
  <2>12. Data!ReportsAreTrue'
    BY <2>8 DEF DataInv, Data!ReportsAreTrue
  <2> QED BY <2>9, <2>10, <2>11, <2>12 DEF DataInv
<1>2. CASE Data!RelayAccepts(r)
  <2>0. change[r].pc = "sent" /\ change[r].id \in Flows
    BY <1>2 DEF Data!RelayAccepts, Data!At, DataInv, DataTypes, Open
  <2>1. change' = [change EXCEPT ![r] = Data!Accepted(r)]
    BY <1>2 DEF Data!RelayAccepts
  <2>2. /\ Data!Accepted(r) \in ChangeRecord /\ Data!Accepted(r).pc = "accepted"
        /\ Data!Accepted(r).id = change[r].id /\ Data!Accepted(r).kind = change[r].kind
        /\ Data!Accepted(r).alone = change[r].alone
    BY <1>t DEF Data!Accepted, ChangeRecord
  <2>3. change' \in [Callers -> ChangeRecord]
    BY <1>t, <2>1, <2>2
  <2>4. \A q \in Callers : change'[q] = IF q = r THEN Data!Accepted(r) ELSE change[q]
    BY <1>t, <2>1
  <2>5. UNCHANGED <<stored, serving, logger, tornLine, last, unsure, overdue, items, told, clash>>
        /\ relayPolicies' = Data!Change(change[r].kind, change[r].id)
    BY <1>2 DEF Data!RelayAccepts, Data!log, Data!table
  <2>6. /\ \A p \in Flows : p # change[r].id => (p \in relayPolicies' <=> p \in relayPolicies)
        /\ change[r].id \in relayPolicies' <=> change[r].kind = "put"
        /\ relayPolicies' \subseteq Flows
    BY <1>t, <2>0, <2>5 DEF Data!Change, Data!TypeOK
  <2>7. DataTypes'
    BY <1>t, <2>0, <2>2, <2>3, <2>4, <2>5, <2>6 DEF DataInv, DataTypes, Data!TypeOK, ChangeRecord, Open
  <2>8. \A q \in Callers : change'[q].id = change[q].id /\ change'[q].alone = change[q].alone
                           /\ (Open(q)' <=> Open(q)) /\ change'[q].kind = change[q].kind
    BY <2>0, <2>2, <2>4 DEF Open
  <2>9. AloneInv'
    BY <2>5, <2>8 DEF DataInv, AloneInv
  <2>10. TrailInv'
    <3>1. ASSUME NEW q \in Callers, change'[q].pc = "accepted", change'[q].alone
          PROVE  change'[q].id \in relayPolicies' <=> change'[q].kind = "put"
      <4>1. CASE q = r
        BY <2>6, <2>8, <4>1
      <4>2. CASE q # r
        <5>1. change'[q] = change[q] /\ Open(q)
          BY <2>4, <3>1, <4>2 DEF Open
        <5>2. change[q].id # change[r].id /\ change[q].id \in Flows
          BY <3>1, <4>2, <5>1 DEF DataInv, AloneInv, DataTypes
        <5> QED BY <2>6, <3>1, <5>1, <5>2 DEF DataInv, TrailInv
      <4> QED BY <4>1, <4>2
    <3>2. ASSUME NEW p \in Flows \ unsure', \A q \in Callers : ~(change'[q].pc = "accepted" /\ change'[q].id = p)
          PROVE  p \in relayPolicies' <=> last'[p] = "put"
      <4>1. p # change[r].id
        BY <2>2, <2>4, <3>2
      <4>2. \A q \in Callers : ~(change[q].pc = "accepted" /\ change[q].id = p)
        BY <2>0, <2>4, <3>2
      <4> QED BY <2>5, <2>6, <4>1, <4>2 DEF DataInv, TrailInv
    <3> QED BY <3>1, <3>2 DEF TrailInv
  <2>11. Data!ReportsAreTrue'
    BY <2>5 DEF DataInv, Data!ReportsAreTrue
  <2> QED BY <2>7, <2>9, <2>10, <2>11 DEF DataInv
<1>3. CASE Data!RelayRefuses(r)
  <2>1. Data!End(r) /\ UNCHANGED <<stored, serving, logger, tornLine, last, unsure, relayPolicies, overdue, items, told, clash>>
        /\ change[r].pc = "sent"
    BY <1>3 DEF Data!RelayRefuses, Data!log, Data!relay, Data!table, Data!At
  <2>2. /\ change' \in [Callers -> ChangeRecord] /\ AloneInv'
        /\ \A q \in Callers : q # r => change'[q] = change[q]
        /\ change'[r] = Data!Idle
        /\ \A q \in Callers : change'[q].pc = "accepted" /\ change'[q].alone =>
             (change'[q].id \in relayPolicies' <=> change'[q].kind = "put")
    BY <2>1, EndKeeps
  <2>3. DataTypes'
    BY <1>t, <2>1, <2>2, IdleChange DEF DataInv, DataTypes, Data!TypeOK, ChangeRecord, Open
  <2>4. TrailInv'
    BY <2>1, <2>2, TrailAfterEnd DEF TrailInv
  <2> QED BY <2>1, <2>2, <2>3, <2>4 DEF DataInv, Data!ReportsAreTrue
<1>4. CASE Data!GiveUp(r)
  <2>0. Open(r) /\ change[r].id \in Flows /\ change[r].kind \in Data!Kinds
    BY <1>4, <1>t DEF Data!GiveUp, DataInv, DataTypes, Open, ChangeRecord
  <2>1. Data!End(r) /\ UNCHANGED <<stored, serving, logger, tornLine, last, relayPolicies, items, told, clash>>
        /\ unsure' = unsure \cup {change[r].id}
    BY <1>4 DEF Data!GiveUp, Data!table
  <2>2. overdue' = IF change[r].pc = "sent" THEN overdue \cup {[kind |-> change[r].kind, id |-> change[r].id]} ELSE overdue
    BY <1>4 DEF Data!GiveUp, Data!At
  <2>3. /\ change' \in [Callers -> ChangeRecord] /\ AloneInv'
        /\ \A q \in Callers : q # r => change'[q] = change[q]
        /\ change'[r] = Data!Idle
        /\ \A q \in Callers : change'[q].pc = "accepted" /\ change'[q].alone =>
             (change'[q].id \in relayPolicies' <=> change'[q].kind = "put")
    BY <2>1, <2>2, EndKeeps
  <2>4. overdue' \subseteq [kind : Data!Kinds, id : Flows]
    BY <1>t, <2>0, <2>2 DEF Data!TypeOK
  <2>5. DataTypes'
    BY <1>t, <2>0, <2>1, <2>3, <2>4, IdleChange DEF DataInv, DataTypes, Data!TypeOK, ChangeRecord, Open
  <2>6. TrailInv'
    BY <2>1, <2>3, TrailAfterEnd DEF TrailInv
  <2> QED BY <2>1, <2>3, <2>5, <2>6 DEF DataInv, Data!ReportsAreTrue
<1>5. CASE Data!Audit(r) \/ Data!AuditFails(r)
  <2>0. change[r].pc = "accepted" /\ change[r].id \in Flows /\ change[r].kind \in Data!Kinds
    BY <1>5, <1>t DEF Data!Audit, Data!AuditFails, Data!At, DataInv, DataTypes, Open, ChangeRecord
  <2>1. Data!End(r) /\ UNCHANGED <<stored, serving, relayPolicies, overdue, items, told, clash>>
    BY <1>5 DEF Data!Audit, Data!AuditFails, Data!relay, Data!table
  <2>2. /\ change' \in [Callers -> ChangeRecord] /\ AloneInv'
        /\ \A q \in Callers : q # r => change'[q] = change[q]
        /\ change'[r] = Data!Idle
        /\ \A q \in Callers : change'[q].pc = "accepted" /\ change'[q].alone =>
             (change'[q].id \in relayPolicies' <=> change'[q].kind = "put")
    BY <2>1, EndKeeps
  <2>3. \/ /\ last' = last /\ unsure' = unsure \cup {change[r].id}
        \/ /\ last' = [last EXCEPT ![change[r].id] = change[r].kind]
           /\ change[r].alone /\ unsure' = unsure \ {change[r].id}
        \/ /\ last' = [last EXCEPT ![change[r].id] = change[r].kind]
           /\ unsure' = unsure \cup {change[r].id}
    BY <1>5 DEF Data!Audit, Data!AuditFails
  <2>4. /\ last' \in [Flows -> Data!Kinds \cup {"none"}] /\ unsure' \subseteq Flows
        /\ logger' \in {"open", "stuck", "closed"} /\ tornLine' \in BOOLEAN
    BY <1>5, <1>t, <2>0, <2>3 DEF Data!TypeOK, Data!Audit, Data!AuditFails
  <2>5. DataTypes'
    BY <1>t, <2>1, <2>2, <2>4, IdleChange DEF DataInv, DataTypes, Data!TypeOK, ChangeRecord, Open
  <2>6. ASSUME NEW p \in Flows, p \notin unsure',
               \A q \in Callers : ~(change'[q].pc = "accepted" /\ change'[q].id = p)
        PROVE  p \in relayPolicies' <=> last'[p] = "put"
    <3>1. CASE p = change[r].id
      <4>1. change[r].alone /\ last' = [last EXCEPT ![change[r].id] = change[r].kind]
        BY <2>3, <2>6, <3>1
      <4>2. last'[p] = change[r].kind
        BY <1>t, <3>1, <4>1 DEF Data!TypeOK
      <4> QED BY <2>0, <2>1, <3>1, <4>1, <4>2 DEF DataInv, TrailInv
    <3>2. CASE p # change[r].id
      <4>1. last'[p] = last[p] /\ p \notin unsure
        BY <1>t, <2>3, <2>6, <3>2 DEF Data!TypeOK
      <4>2. \A q \in Callers : ~(change[q].pc = "accepted" /\ change[q].id = p)
        BY <2>2, <2>6, <3>2
      <4> QED BY <2>1, <4>1, <4>2 DEF DataInv, TrailInv
    <3> QED BY <3>1, <3>2
  <2>7. TrailInv'
    BY <2>2, <2>6 DEF TrailInv
  <2> QED BY <2>1, <2>2, <2>5, <2>7 DEF DataInv, Data!ReportsAreTrue
<1> QED BY <1>1, <1>2, <1>3, <1>4, <1>5

\* A change the relay makes late, and a relay that starts again: nobody is alone
\* with what it changes.
LEMMA LateStep ==
  ASSUME Data!NoneAssumption, DataInv,
         (\E c \in overdue : Data!RelayIsLate(c)) \/ Data!RelayRestarts
  PROVE  DataInv'
<1>t. change \in [Callers -> ChangeRecord] /\ Data!TypeOK
  BY DEF DataInv, DataTypes, Data!TypeOK, ChangeRecord
\* P: the policies the step concerns.
<1>1. ASSUME NEW P, P \subseteq Flows,
             change' = [q \in Callers |-> change'[q]],
             \A q \in Callers : Carries(q) /\ (change[q].id \in P => ~change'[q].alone),
             UNCHANGED <<stored, serving, logger, tornLine, last, items, told, clash>>,
             overdue' \subseteq overdue, relayPolicies' \subseteq Flows, unsure' = unsure \cup P,
             \A p \in Flows \ P : p \in relayPolicies' <=> p \in relayPolicies
      PROVE  DataInv'
  <2>2. \A q \in Callers :
          /\ change'[q] \in ChangeRecord
          /\ change'[q].pc = change[q].pc /\ change'[q].id = change[q].id
          /\ change'[q].kind = change[q].kind /\ (change'[q].alone => change[q].alone)
    BY <1>1, CarriedOn DEF DataInv
  <2>3. change' \in [Callers -> ChangeRecord]
    BY <1>1, <2>2
  <2>4. DataTypes'
    BY <1>t, <1>1, <2>2, <2>3 DEF DataInv, DataTypes, Data!TypeOK, ChangeRecord, Open
  <2>5. AloneInv'
    BY <1>1, <2>2 DEF DataInv, AloneInv, Open
  <2>6. TrailInv'
    <3>1. ASSUME NEW q \in Callers, change'[q].pc = "accepted", change'[q].alone
          PROVE  change'[q].id \in relayPolicies' <=> change'[q].kind = "put"
      <4>1. change[q].pc = "accepted" /\ change[q].alone /\ change[q].id \in Flows \ P
        BY <1>1, <2>2, <3>1 DEF DataInv, DataTypes, Open
      <4> QED BY <1>1, <2>2, <4>1 DEF DataInv, TrailInv
    <3>2. ASSUME NEW p \in Flows \ unsure', \A q \in Callers : ~(change'[q].pc = "accepted" /\ change'[q].id = p)
          PROVE  p \in relayPolicies' <=> last'[p] = "put"
      <4>1. p \in Flows \ unsure /\ p \notin P
        BY <1>1, <3>2
      <4>2. \A q \in Callers : ~(change[q].pc = "accepted" /\ change[q].id = p)
        BY <2>2, <3>2
      <4> QED BY <1>1, <4>1, <4>2 DEF DataInv, TrailInv
    <3> QED BY <3>1, <3>2 DEF TrailInv
  <2> QED BY <1>1, <2>4, <2>5, <2>6 DEF DataInv, Data!ReportsAreTrue
<1>2. ASSUME NEW c \in overdue, Data!RelayIsLate(c) PROVE DataInv'
  <2>0. c.id \in Flows
    BY <1>t DEF Data!TypeOK
  <2>1. change' = [q \in Callers |-> IF change[q].id = c.id THEN Data!NotAlone(q) ELSE change[q]]
    BY <1>2 DEF Data!RelayIsLate
  <2>2. \A q \in Callers : Carries(q) /\ (change[q].id \in {c.id} => ~change'[q].alone)
    BY <2>1 DEF Carries, Data!NotAlone
  <2>3. UNCHANGED <<stored, serving, logger, tornLine, last, items, told, clash>> /\ overdue' \subseteq overdue
        /\ unsure' = unsure \cup {c.id} /\ relayPolicies' \in {relayPolicies, Data!Change(c.kind, c.id)}
    BY <1>2 DEF Data!RelayIsLate, Data!table
  <2>4. relayPolicies' \subseteq Flows /\ \A p \in Flows \ {c.id} : p \in relayPolicies' <=> p \in relayPolicies
    BY <1>t, <2>0, <2>3 DEF Data!Change, Data!TypeOK
  <2> QED BY <1>1, <2>0, <2>1, <2>2, <2>3, <2>4
<1>3. CASE Data!RelayRestarts
  <2>1. change' = [q \in Callers |-> Data!NotAlone(q)]
    BY <1>3 DEF Data!RelayRestarts
  <2>2. \A q \in Callers : Carries(q) /\ ~change'[q].alone
    BY <2>1 DEF Carries, Data!NotAlone
  <2>3. UNCHANGED <<stored, serving, logger, tornLine, last, items, told, clash>> /\ overdue' \subseteq overdue
        /\ unsure' = unsure \cup Flows /\ relayPolicies' = {}
    BY <1>3, <1>t DEF Data!RelayRestarts, Data!table, Data!TypeOK
  <2> QED BY <1>1, <2>1, <2>2, <2>3
<1> QED BY <1>2, <1>3

\* The rows: saved, found and deleted.
LEMMA RowStep ==
  ASSUME Data!NoneAssumption, DataInv, NEW r \in Callers,
         Data!DeleteRow(r) \/ \E i \in Data!Items :
                               Data!SaveACL(r, i) \/ Data!FindRow(r, i) \/ Data!DeleteFromMemory(r, i)
  PROVE  DataInv'
<1>t. change \in [Callers -> ChangeRecord] /\ Data!TypeOK
  BY DEF DataInv, DataTypes, Data!TypeOK, ChangeRecord
<1>1. CASE Data!DeleteRow(r)
  <2>0. change[r].pc = "found" /\ change[r].id \in Data!Items
    BY <1>1 DEF Data!DeleteRow, Data!At, DataInv, DataTypes
  <2>1. Data!End(r) /\ UNCHANGED <<stored, serving, logger, tornLine, last, unsure, relayPolicies, overdue>>
        /\ items' = items \ {change[r].id} /\ told' = [told EXCEPT ![change[r].id] = "absent"]
        /\ clash' \in {clash \cup {change[r].id}, clash \ {change[r].id}}
    BY <1>1 DEF Data!DeleteRow, Data!Report, Data!log, Data!relay
  <2>2. /\ change' \in [Callers -> ChangeRecord] /\ AloneInv'
        /\ \A q \in Callers : q # r => change'[q] = change[q]
        /\ change'[r] = Data!Idle
        /\ \A q \in Callers : change'[q].pc = "accepted" /\ change'[q].alone =>
             (change'[q].id \in relayPolicies' <=> change'[q].kind = "put")
    BY <2>1, EndKeeps
  <2>3. told' \in [Data!Items -> {"present", "absent", "unknown"}] /\ clash' \subseteq Data!Items /\ items' \subseteq Data!Items
    BY <1>t, <2>0, <2>1 DEF Data!TypeOK
  <2>4. DataTypes'
    BY <1>t, <2>1, <2>2, <2>3, IdleChange DEF DataInv, DataTypes, Data!TypeOK, ChangeRecord, Open
  <2>5. TrailInv'
    BY <2>0, <2>1, <2>2, TrailAfterEnd DEF TrailInv
  <2>6. Data!ReportsAreTrue'
    <3> SUFFICES ASSUME stored, NEW i \in Data!Items, i \notin clash'
                 PROVE  i \in items' <=> told'[i] = "present"
      BY <2>1 DEF Data!ReportsAreTrue
    <3>1. told'[i] = IF i = change[r].id THEN "absent" ELSE told[i]
      BY <1>t, <2>1 DEF Data!TypeOK
    <3> QED BY <2>1, <3>1 DEF DataInv, Data!ReportsAreTrue
  <2> QED BY <2>2, <2>4, <2>5, <2>6 DEF DataInv
<1>2. ASSUME NEW i \in Data!Items, Data!SaveACL(r, i) PROVE DataInv'
  <2>1. change' = [q \in Callers |-> IF change[q].id = i THEN Data!NotAlone(q) ELSE change[q]]
    BY <1>2 DEF Data!SaveACL
  <2>2. UNCHANGED <<stored, serving, logger, tornLine, last, unsure, relayPolicies, overdue>>
        /\ items' = items \cup {i} /\ told' = [told EXCEPT ![i] = "present"]
        /\ clash' \in {clash \cup {i}, clash \ {i}}
    BY <1>2 DEF Data!SaveACL, Data!log, Data!relay
  <2>3. \A q \in Callers : Carries(q)
    BY <2>1 DEF Carries
  <2>4. \A q \in Callers :
          /\ change'[q] \in ChangeRecord
          /\ change'[q].pc = change[q].pc /\ change'[q].id = change[q].id
          /\ change'[q].kind = change[q].kind /\ (change'[q].alone => change[q].alone)
    BY <2>3, CarriedOn DEF DataInv
  <2>5. change' \in [Callers -> ChangeRecord]
    BY <2>1, <2>4
  <2>6. told' \in [Data!Items -> {"present", "absent", "unknown"}] /\ clash' \subseteq Data!Items /\ items' \subseteq Data!Items
    BY <1>t, <2>2 DEF Data!TypeOK
  <2>7. DataTypes'
    BY <1>t, <2>2, <2>4, <2>5, <2>6 DEF DataInv, DataTypes, Data!TypeOK, ChangeRecord, Open
  <2>8. AloneInv'
    BY <2>2, <2>4 DEF DataInv, AloneInv, Open
  <2>9. TrailInv'
    BY <2>2, <2>4 DEF DataInv, TrailInv
  <2>10. Data!ReportsAreTrue'
    <3> SUFFICES ASSUME stored, NEW j \in Data!Items, j \notin clash'
                 PROVE  j \in items' <=> told'[j] = "present"
      BY <2>2 DEF Data!ReportsAreTrue
    <3>1. told'[j] = IF j = i THEN "present" ELSE told[j]
      BY <1>t, <2>2 DEF Data!TypeOK
    <3> QED BY <2>2, <3>1 DEF DataInv, Data!ReportsAreTrue
  <2> QED BY <2>7, <2>8, <2>9, <2>10 DEF DataInv
<1>3. ASSUME NEW i \in Data!Items, Data!FindRow(r, i) PROVE DataInv'
  <2> DEFINE clear == Data!About(i) = {} /\ ~\E c \in overdue : c.id = i
             mine == [pc |-> "found", kind |-> "delete", id |-> i, alone |-> clear]
  <2>1. change' = [q \in Callers |-> IF q = r THEN mine
                                      ELSE IF change[q].id = i THEN Data!NotAlone(q) ELSE change[q]]
    BY <1>3 DEF Data!FindRow, Data!Begin
  <2>2. clear \in BOOLEAN
    OBVIOUS
  <2> HIDE DEF clear
  <2>3. mine \in ChangeRecord /\ mine.pc = "found" /\ mine.id = i
    BY <2>2 DEF ChangeRecord, Data!Kinds
  <2> HIDE DEF mine
  <2>4. \A q \in Callers : q # r => Carries(q) /\ (change[q].id = i => ~change'[q].alone)
    BY <2>1 DEF Carries, Data!NotAlone
  <2>5. change'[r] = mine /\ change[r].pc = "idle"
    BY <1>3, <2>1 DEF Data!FindRow, Data!At
  <2>6. \A q \in Callers : q # r =>
          /\ change'[q] \in ChangeRecord
          /\ change'[q].pc = change[q].pc /\ change'[q].id = change[q].id
          /\ change'[q].kind = change[q].kind /\ (change'[q].alone => change[q].alone)
    BY <2>4, CarriedOn DEF DataInv
  <2>7. change' \in [Callers -> ChangeRecord]
    BY <2>1, <2>3, <2>5, <2>6
  <2>8. UNCHANGED <<stored, serving, logger, tornLine, last, unsure, relayPolicies, overdue, items, told, clash>>
    BY <1>3 DEF Data!FindRow, Data!log, Data!relay, Data!table
  <2>9. DataTypes'
    BY <1>t, <2>3, <2>5, <2>6, <2>7, <2>8 DEF DataInv, DataTypes, Data!TypeOK, ChangeRecord, Open
  <2>10. AloneInv'
    <3> SUFFICES ASSUME NEW q \in Callers, Open(q)', change'[q].alone
                 PROVE  /\ \A s \in Callers : change'[s].id = change'[q].id => s = q
                        /\ \A c \in overdue' : c.id # change'[q].id
      BY DEF AloneInv
    <3>1. q # r
      BY <2>3, <2>5 DEF Open
    <3>2. Open(q) /\ change[q].alone /\ change[q].id # i
      BY <2>4, <2>6, <3>1 DEF Open
    <3> QED BY <2>3, <2>5, <2>6, <2>8, <3>1, <3>2 DEF DataInv, AloneInv
  <2>11. TrailInv'
    BY <2>3, <2>5, <2>6, <2>8 DEF DataInv, TrailInv
  <2> QED BY <2>8, <2>9, <2>10, <2>11 DEF DataInv, Data!ReportsAreTrue
<1>4. ASSUME NEW i \in Data!Items, Data!DeleteFromMemory(r, i) PROVE DataInv'
  <2>1. ~stored /\ items' \subseteq items /\ told' = [told EXCEPT ![i] = "absent"]
        /\ UNCHANGED <<stored, serving, logger, tornLine, last, unsure, relayPolicies, overdue, clash, change>>
    BY <1>4 DEF Data!DeleteFromMemory, Data!log, Data!relay
  <2>2. DataTypes'
    BY <1>t, <2>1 DEF DataInv, DataTypes, Data!TypeOK, Open
  <2> QED BY <2>1, <2>2 DEF DataInv, AloneInv, TrailInv, Open, Data!ReportsAreTrue
<1> QED BY <1>1, <1>2, <1>3, <1>4

\* The dashboard stops, ends and starts.
LEMMA ServingStep ==
  ASSUME Data!NoneAssumption, DataInv, Data!Stop \/ Data!Exit \/ Data!Start PROVE DataInv'
<1>t. change \in [Callers -> ChangeRecord] /\ Data!TypeOK
  BY DEF DataInv, DataTypes, Data!TypeOK, ChangeRecord
<1>1. CASE Data!Stop \/ Data!Start
  <2>1. UNCHANGED <<stored, tornLine, last, unsure, relayPolicies, overdue, items, told, clash, change>>
        /\ serving' \in {"up", "stopping", "down"} /\ logger' \in {"open", "stuck", "closed"}
    BY <1>1 DEF Data!Stop, Data!Start, Data!relay, Data!table
  <2>2. DataTypes'
    BY <1>t, <2>1 DEF DataInv, DataTypes, Data!TypeOK, Open
  <2> QED BY <2>1, <2>2 DEF DataInv, AloneInv, TrailInv, Open, Data!ReportsAreTrue
<1>2. CASE Data!Exit
  <2> DEFINE open == {r \in Callers : Open(r)}
             sent == {[kind |-> change[r].kind, id |-> change[r].id] : r \in {q \in open : change[q].pc = "sent"}}
             doubts == {change[r].id : r \in open}
  <2>1. /\ overdue' = overdue \cup sent /\ unsure' = unsure \cup doubts
        /\ change' = [r \in Callers |-> Data!Idle]
        /\ serving' = "down" /\ logger' = "closed" /\ items' = IF stored THEN items ELSE {}
        /\ UNCHANGED <<stored, tornLine, last, relayPolicies, told, clash>>
    BY <1>2 DEF Data!Exit, Open
  <2>2. sent \subseteq [kind : Data!Kinds, id : Flows] /\ doubts \subseteq Flows
    BY <1>t DEF DataInv, DataTypes, ChangeRecord
  <2>3. \A r \in Callers : Open(r) => change[r].id \in doubts
    OBVIOUS
  <2> HIDE DEF sent, doubts
  <2>4. \A r \in Callers : change'[r] = Data!Idle
    BY <2>1
  <2>5. change' \in [Callers -> ChangeRecord]
    BY <2>1, IdleChange
  <2>6. DataTypes'
    BY <1>t, <2>1, <2>2, <2>4, <2>5, IdleChange DEF DataInv, DataTypes, Data!TypeOK, ChangeRecord, Open
  <2>7. AloneInv'
    BY <2>4, IdleChange DEF AloneInv, Open
  <2>8. TrailInv'
    <3>1. \A p \in Flows \ unsure' : \A q \in Callers : ~(change[q].pc = "accepted" /\ change[q].id = p)
      BY <2>1, <2>3 DEF Open
    <3> QED BY <2>1, <2>4, <3>1, IdleChange DEF DataInv, TrailInv
  <2>9. Data!ReportsAreTrue'
    BY <2>1 DEF DataInv, Data!ReportsAreTrue
  <2> QED BY <2>6, <2>7, <2>8, <2>9 DEF DataInv
<1> QED BY <1>1, <1>2

LEMMA DataStep == Data!NoneAssumption /\ DataInv /\ Data!Next => DataInv'
BY CallStep, LateStep, RowStep, ServingStep DEF Data!Next

LEMMA DataStutter == DataInv /\ UNCHANGED dataVars => DataInv'
BY DEF DataInv, dataVars, DataTypes, Data!TypeOK, AloneInv, TrailInv, Open, Data!ReportsAreTrue

\* A changed role takes effect at once, a rule fires once in its cooldown and no
\* event takes the place of another, the log explains what the relay has and what
\* was reported of a row is so: for any accounts, requests, rules, nodes and
\* policies, over restarts of the dashboard and of the relay (dashboard/auth.go:
\* ValidateToken; alerts.go: Evaluate; server.go; relay_admin_client.go; audit.go).
THEOREM Dashboards == ASSUME IsFiniteSet(Members) PROVE Spec => []DashboardIsSound
<1> DEFINE Inv == /\ part = "dashboard" => AccountsInv
                  /\ part = "alerts" => AlarmsInv
                  /\ part = "data" => DataInv
<1>0. Accounts!AdminAssumption /\ Alarms!NoneAssumption /\ Data!NoneAssumption
  BY ConstantsFit DEF ConstantsFit
<1>1. Init => Inv
  BY <1>0, AccountsInit, AlarmsInit, DataInit DEF Init
<1>2. Inv /\ [Next]_vars => Inv'
  <2> SUFFICES ASSUME Inv, [Next]_vars PROVE Inv'
    OBVIOUS
  <2>1. CASE Next
    <3>1. part' = part
      BY <2>1 DEF Next
    <3>2. CASE part = "dashboard"
      BY <1>0, <2>1, <3>1, <3>2, AccountsStep DEF Next
    <3>3. CASE part = "alerts"
      BY <1>0, <2>1, <3>1, <3>3, AlarmsStep DEF Next
    <3>4. CASE part = "data"
      BY <1>0, <2>1, <3>1, <3>4, DataStep DEF Next
    <3> QED BY <3>1, <3>2, <3>3, <3>4
  <2>2. CASE UNCHANGED vars
    <3>1. UNCHANGED <<part, dashboardVars, alertVars, dataVars>>
      BY <2>2 DEF vars
    <3> QED BY <3>1, AccountsStutter, AlarmsStutter, DataStutter
  <2> QED BY <2>1, <2>2
<1>3. Inv => DashboardIsSound
  <2>1. AccountsInv => Accounts!TypeOK /\ Accounts!RoleIsCurrent
    BY DEF AccountsInv
  <2>2. AlarmsInv => Alarms!TypeOK /\ Alarms!CooldownHolds
    BY DEF AlarmsInv, RestedInv, Alarms!CooldownHolds
  <2>3. DataInv => Data!TypeOK /\ Data!TrailExplains /\ Data!ReportsAreTrue
    <3>1. DataInv => Data!TrailExplains
      BY DEF DataInv, TrailInv, Data!TrailExplains, Data!About
    <3> QED BY <3>1 DEF DataInv, DataTypes
  <2> QED BY <2>1, <2>2, <2>3 DEF DashboardIsSound
<1> QED BY <1>1, <1>2, <1>3, PTL DEF Spec

===============================================================================
