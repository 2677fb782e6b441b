----------------------------- MODULE TrafficShaping ----------------------------
(***************************************************************************)
(* SD-WAN policies and quality of service (server/internal/sdwan): the     *)
(* rules that give a flow its class and bandwidth, the token bucket a flow *)
(* gets with its first limited packet, and the queue packets wait in.  A   *)
(* packet is one token; a bucket gains its rate at a time.                 *)
(***************************************************************************)
EXTENDS Naturals, Sequences, FiniteSets

CONSTANTS
  Flows,       \* flow IDs
  RuleIds,     \* IDs of policy rules
  Rates,       \* bandwidth limits
  Classes,     \* QoS priorities, 0 the most urgent
  Callers,     \* goroutines that send packets and set limits
  QueueSize,   \* maxQueueSize
  None         \* no rule, no bucket

\* What the constants must satisfy; the MC module assumes it.
RateAssumption ==
  /\ Rates \subseteq Nat \ {0} /\ Classes \subseteq Nat /\ 0 \in Classes
  /\ QueueSize \in Nat \ {0}
NoneAssumption == None \notin [rate : Nat, tokens : Nat]

VARIABLES
  rules,       \* PolicyEngine.rules: the enabled rules
  bucket,      \* QoSManager.limiters: rate and tokens of a flow's bucket, or None
  queue,       \* the packets of the priority queue, in order of arrival
  counters,    \* enqueued, dequeued, capped: their difference
  call,        \* call[c]: what c is in the middle of
  asked,       \* history: the rate the last SetFlowLimit asked for, None once removed
  overlapped   \* history: flows a call raced a SetFlowLimit about

vars == <<rules, bucket, queue, counters, call, asked, overlapped>>

Limits == Rates \cup {0}
Rule == [flow : Flows \cup {None}, limit : Limits, class : Classes, order : 1 .. 2]
Packet == [flow : Flows, class : Classes]
Idle == [pc |-> "idle", flow |-> CHOOSE f \in Flows : TRUE, class |-> 0, rate |-> 0, found |-> "none"]
Burst(rate) == 2 * rate
MaxRate == CHOOSE r \in Rates : \A s \in Rates : s <= r
Bucket == [rate : Rates, tokens : 0 .. Burst(MaxRate)]

TypeOK ==
  /\ rules \in [RuleIds -> Rule \cup {None}]
  /\ bucket \in [Flows -> Bucket \cup {None}]
  /\ queue \in Seq(Packet) /\ counters \in Nat
  /\ call \in [Callers -> [pc : {"idle", "shape", "push", "set"}, flow : Flows,
                           class : Classes, rate : Limits, found : {"none", "found", "gone"}]]
  /\ asked \in [Flows -> Rates \cup {None}]
  /\ overlapped \subseteq Flows

Init ==
  /\ rules = [i \in RuleIds |-> None]
  /\ bucket = [f \in Flows |-> None]
  /\ queue = << >> /\ counters = 0
  /\ call = [c \in Callers |-> Idle]
  /\ asked = [f \in Flows |-> None]
  /\ overlapped = {}

\* AddRule, UpdateRule; the order is made anew.
PutRule(i, rule) ==
  /\ rules' = [rules EXCEPT ![i] = rule]
  /\ UNCHANGED <<bucket, queue, counters, call, asked, overlapped>>

\* RemoveRule, or one that is disabled.
DropRule(i) ==
  /\ rules[i] # None
  /\ rules' = [rules EXCEPT ![i] = None]
  /\ UNCHANGED <<bucket, queue, counters, call, asked, overlapped>>

\* The rules that may be the first to match; Action and DstAddr are not looked at.
Matching(f) == {i \in RuleIds : rules[i] # None /\ rules[i].flow \in {f, None}}
First(f) == {i \in Matching(f) : \A j \in Matching(f) : rules[i].order <= rules[j].order}

-------------------------------------------------------------------------------
At(c, pc) == call[c].pc = pc
Racing(f) == {g \in {f} : \E c \in Callers : At(c, "set") /\ call[c].flow = g}

\* Evaluate, then Enqueue with the class and the limit it gave.
Send(c, f) ==
  /\ At(c, "idle")
  /\ \E class \in Classes, limit \in Limits :
       /\ IF First(f) = {} THEN class = 0 /\ limit = 0
          ELSE \E i \in First(f) : class = rules[i].class /\ limit = rules[i].limit
       /\ call' = [call EXCEPT ![c] =
            [pc |-> IF limit > 0 THEN "shape" ELSE "push", flow |-> f,
             class |-> class, rate |-> limit, found |-> "none"]]
  /\ UNCHANGED <<rules, bucket, queue, counters, asked, overlapped>>

\* Mutant: the rate given is the bucket's from now on.
BucketWith(f, rate) ==
  IF bucket[f] # None THEN [bucket[f] EXCEPT !.rate = rate]
  ELSE [rate |-> rate, tokens |-> Burst(rate)]

\* getOrCreateLimiter: a flow that has a bucket keeps it, whatever the rate.
BucketFor(f, rate) ==
  IF bucket[f] # None THEN bucket[f] ELSE [rate |-> rate, tokens |-> Burst(rate)]

\* Allow: a token is spent, or the packet dropped.
Shape(c) ==
  LET f == call[c].flow
      b == BucketFor(f, call[c].rate)
  IN /\ At(c, "shape")
     /\ IF b.tokens > 0
        THEN /\ bucket' = [bucket EXCEPT ![f] = [rate |-> b.rate, tokens |-> b.tokens - 1]]
             /\ call' = [call EXCEPT ![c].pc = "push"]
        ELSE /\ bucket' = [bucket EXCEPT ![f] = b]
             /\ call' = [call EXCEPT ![c] = Idle]
     /\ overlapped' = overlapped \cup Racing(f)
     /\ UNCHANGED <<rules, queue, counters, asked>>

\* A packet that finds the queue full is dropped; its token is spent.
Push(c) ==
  /\ At(c, "push")
  /\ IF Len(queue) < QueueSize
     THEN /\ queue' = Append(queue, [flow |-> call[c].flow, class |-> call[c].class])
          /\ counters' = counters + 1
     ELSE UNCHANGED <<queue, counters>>
  /\ call' = [call EXCEPT ![c] = Idle]
  /\ UNCHANGED <<rules, bucket, asked, overlapped>>

\* The most urgent, and of these the one that came first.
Next1(i) ==
  /\ \A j \in DOMAIN queue : queue[i].class <= queue[j].class
  /\ \A j \in 1 .. i - 1 : queue[j].class > queue[i].class

Dequeue ==
  /\ \E i \in DOMAIN queue :
       /\ Next1(i)
       /\ queue' = SubSeq(queue, 1, i - 1) \o SubSeq(queue, i + 1, Len(queue))
  /\ counters' = counters - 1
  /\ UNCHANGED <<rules, bucket, call, asked, overlapped>>

\* A unit of time; the bucket is filled when it is next used.
Refill(f) ==
  /\ bucket[f] # None
  /\ bucket' = [bucket EXCEPT ![f] = [rate |-> @.rate, tokens |->
       IF @.tokens + @.rate > Burst(@.rate) THEN Burst(@.rate) ELSE @.tokens + @.rate]]
  /\ UNCHANGED <<rules, queue, counters, call, asked, overlapped>>

\* SetFlowLimit looks for the bucket ...
SetFlowLimit(c, f, rate) ==
  /\ At(c, "idle")
  /\ call' = [call EXCEPT ![c] = [pc |-> "set", flow |-> f, class |-> 0, rate |-> rate,
                                  found |-> IF bucket[f] = None THEN "none" ELSE "found"]]
  /\ overlapped' = overlapped \cup Racing(f)
  /\ UNCHANGED <<rules, bucket, queue, counters, asked>>

\* ... and changes what it found, or makes one unless there is one by now.
SetRate(c) ==
  LET f == call[c].flow
      rate == call[c].rate
  IN /\ At(c, "set")
     /\ bucket' = [bucket EXCEPT ![f] =
          IF call[c].found = "none" THEN BucketFor(f, rate)
          ELSE IF call[c].found = "found" THEN [rate |-> rate, tokens |-> @.tokens]
          ELSE @]
     /\ asked' = [asked EXCEPT ![f] = rate]
     /\ call' = [call EXCEPT ![c] = Idle]
     /\ UNCHANGED <<rules, queue, counters, overlapped>>

\* Who has found the bucket goes on with it.
RemoveFlowLimit(f) ==
  /\ bucket[f] # None
  /\ call' = [c \in Callers |-> IF call[c].flow = f /\ call[c].found = "found"
                               THEN [call[c] EXCEPT !.found = "gone"] ELSE call[c]]
  /\ bucket' = [bucket EXCEPT ![f] = None]
  /\ asked' = [asked EXCEPT ![f] = None]
  /\ overlapped' = overlapped \cup Racing(f)
  /\ UNCHANGED <<rules, queue, counters>>

-------------------------------------------------------------------------------
Next ==
  \/ \E i \in RuleIds : DropRule(i) \/ \E rule \in Rule : PutRule(i, rule)
  \/ \E c \in Callers, f \in Flows :
       Send(c, f) \/ \E rate \in Rates : SetFlowLimit(c, f, rate)
  \/ \E c \in Callers : Shape(c) \/ Push(c) \/ SetRate(c)
  \/ Dequeue
  \/ \E f \in Flows : Refill(f) \/ RemoveFlowLimit(f)

Spec == Init /\ [][Next]_vars

-------------------------------------------------------------------------------
\* A limit that was set stays until it is removed, whatever limits the policies
\* give the flow's packets meanwhile, unless a call raced the SetFlowLimit; and
\* the queue never holds more than its size nor loses count of its packets
\* (Enqueue, Dequeue, SetFlowLimit, getOrCreateLimiter).
LimitsAsSet ==
  /\ \A f \in Flows \ overlapped :
       asked[f] # None => bucket[f] # None /\ bucket[f].rate = asked[f]
  /\ counters = Len(queue) /\ Len(queue) <= QueueSize
===============================================================================
