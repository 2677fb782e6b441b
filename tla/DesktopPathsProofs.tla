-------------------------- MODULE DesktopPathsProofs --------------------------
(***************************************************************************)
(* Proofs about the paths to the peers of the desktop program              *)
(* (MCDesktopPaths), for any paths, addresses, callers and bounds that     *)
(* ConstantsFit allows.  Each part has its own invariant; a step of        *)
(* another part leaves its variables alone.                                *)
(***************************************************************************)
EXTENDS MCDesktopPaths, FiniteSetTheorems, FunctionTheorems, SequenceTheorems,
        WellFoundedInduction, TLAPS

-------------------------------------------------------------------------------
(* A direct session.                                                       *)

\* A packet came by a path that carries those of its sender; what answers a
\* packet did so by a path that carried that one as well.
PacketsInv ==
  \A m \in net :
    /\ m.path \in carries[Session!Peer(m.to)]
    /\ m.kind \in {"synack", "ack"} => m.path \in carries[m.to]
BothWays(p) == p \in carries["initiator"] /\ p \in carries["responder"]
AnswersInv ==
  \A s \in Session!Sides :
    /\ resp[s] # None => BothWays(resp[s])
    /\ result[s] # None => BothWays(result[s])
\* What a session is worth on a side where no call ran on when Close came.
Tidy(s) ==
  /\ engine[s] = "closed" =>
       ~Session!Working(s) /\ ~stored[s] /\ socket[s] # "open" /\ wg[s] # "up"
  /\ socket[s] = "open" \/ wg[s] = "up" => stored[s]
  /\ pc[s] # "idle" /\ engine[s] # "closed" => stored[s]
TidyInv == \A s \in Session!Sides : late[s] \/ Tidy(s)
SessionInv == Session!TypeOK /\ PacketsInv /\ AnswersInv /\ TidyInv

\* What the actions of a session change and what they leave alone.
LEMMA SessionInit == Session!Init => SessionInv
BY DEF Session!Init, SessionInv, Session!TypeOK, PacketsInv, AnswersInv, TidyInv, Tidy,
   Session!Working, Session!Sides, Session!Packets

\* The two sides are each other's peers, and a path both use carries both ways.
LEMMA PeersDiffer ==
  ASSUME NEW s \in Session!Sides
  PROVE /\ Session!Peer(s) \in Session!Sides /\ Session!Peer(Session!Peer(s)) = s
        /\ \A p : p \in carries[s] /\ p \in carries[Session!Peer(s)] <=> BothWays(p)
BY DEF Session!Sides, Session!Peer, BothWays

\* The types of a session are kept.
LEMMA SessionTypes ==
  ASSUME Session!TypeOK, Session!Next PROVE Session!TypeOK'
<1> USE DEF Session!TypeOK, Session!checks, Session!punch, Session!Goto
<1>1. ASSUME Session!Signalling PROVE Session!TypeOK'
  <2> USE DEF Session!Begin, Session!Sides
  <2>1. CASE Session!Initiate
    BY <2>1 DEF Session!Initiate
  <2>2. CASE Session!TakeOffer
    BY <2>2 DEF Session!TakeOffer
  <2>3. CASE Session!RefuseOffer
    BY <2>3 DEF Session!RefuseOffer
  <2>4. CASE Session!SendOffer
    BY <2>4 DEF Session!SendOffer
  <2>5. CASE Session!SendAnswer
    BY <2>5 DEF Session!SendAnswer, Session!BeginChecks
  <2>6. CASE Session!TakeAnswer
    BY <2>6 DEF Session!TakeAnswer, Session!BeginChecks
  <2>7. CASE Session!AnswerIsNo
    BY <2>7 DEF Session!AnswerIsNo
  <2>8. ASSUME NEW s \in Session!Sides, Session!GatherFails(s) PROVE Session!TypeOK'
    BY <2>8 DEF Session!GatherFails
  <2>9. ASSUME NEW s \in Session!Sides, Session!Gather(s) PROVE Session!TypeOK'
    BY <2>9 DEF Session!Gather
  <2>10. ASSUME NEW s \in Session!Sides, Session!SendFails(s) PROVE Session!TypeOK'
    BY <2>10 DEF Session!SendFails, Session!CloseSocket
  <2> QED
    BY <1>1, <2>1, <2>2, <2>3, <2>4, <2>5, <2>6, <2>7, <2>8, <2>9, <2>10
    DEF Session!Signalling
<1>2. ASSUME Session!Checking PROVE Session!TypeOK'
  <2>1. ASSUME NEW s \in Session!Sides, Session!ChecksPass(s) PROVE Session!TypeOK'
    BY <2>1 DEF Session!ChecksPass
  <2>2. ASSUME NEW s \in Session!Sides, Session!ChecksFail(s) PROVE Session!TypeOK'
    BY <2>2 DEF Session!ChecksFail, Session!GiveUp, Session!CloseSocket
  <2>3. ASSUME NEW s \in Session!Sides, NEW p \in Paths, Session!StartCheck(s, p)
        PROVE Session!TypeOK'
    BY <2>3 DEF Session!StartCheck
  <2>4. ASSUME NEW s \in Session!Sides, NEW p \in Paths, Session!CheckSucceeds(s, p)
        PROVE Session!TypeOK'
    BY <2>4 DEF Session!CheckSucceeds
  <2>5. ASSUME NEW s \in Session!Sides, NEW p \in Paths, Session!Nominate(s, p)
        PROVE Session!TypeOK'
    BY <2>5 DEF Session!Nominate
  <2>6. ASSUME NEW s \in Session!Sides, NEW p \in Paths, Session!CheckFails(s, p)
        PROVE Session!TypeOK'
    BY <2>6 DEF Session!CheckFails
  <2> QED
    BY <1>2, <2>1, <2>2, <2>3, <2>4, <2>5, <2>6 DEF Session!Checking
<1>3. ASSUME NEW s \in Session!Sides, NEW kind \in {"syn", "synack", "ack"}, NEW p,
             Session!Send(s, kind, p)
      PROVE net' \subseteq Session!Packets
  BY <1>3, PeersDiffer DEF Session!Send, Session!Arrives, Session!Packets
<1>4. ASSUME NEW m \in net, NEW s \in Session!Sides, Session!ReadSyn(s, m) PROVE Session!TypeOK'
  BY <1>3, <1>4 DEF Session!ReadSyn
<1>5. ASSUME NEW m \in net, NEW s \in Session!Sides, Session!ReadAnswer(s, m)
      PROVE Session!TypeOK'
  <2>1. net' \subseteq Session!Packets
    BY <1>3, <1>5 DEF Session!ReadAnswer
  <2>2. m.path \in Paths
    BY DEF Session!Packets
  <2> QED BY <1>5, <2>1, <2>2 DEF Session!ReadAnswer
<1>6. ASSUME NEW s \in Session!Sides, Session!SendSyn(s) PROVE Session!TypeOK'
  BY <1>3, <1>6 DEF Session!SendSyn
<1>7. ASSUME NEW s \in Session!Sides, Session!ReaderStops(s) PROVE Session!TypeOK'
  BY <1>7 DEF Session!ReaderStops
<1>8. ASSUME NEW s \in Session!Sides, Session!Verified(s) PROVE Session!TypeOK'
  BY <1>8 DEF Session!Verified
<1>9. ASSUME NEW s \in Session!Sides, Session!PunchFails(s) PROVE Session!TypeOK'
  BY <1>9 DEF Session!PunchFails, Session!GiveUp, Session!CloseSocket
<1>10. ASSUME NEW s \in Session!Sides, Session!Establish(s) PROVE Session!TypeOK'
  BY <1>10 DEF Session!Establish
<1>11. ASSUME NEW s \in Session!Sides, Session!EstablishFails(s) PROVE Session!TypeOK'
  BY <1>11 DEF Session!EstablishFails, Session!GiveUp, Session!CloseSocket
<1>12. ASSUME NEW s \in Session!Sides, Session!Close(s) PROVE Session!TypeOK'
  BY <1>12 DEF Session!Close, Session!CloseSocket
<1> QED
  BY <1>1, <1>2, <1>4, <1>5, <1>6, <1>7, <1>8, <1>9, <1>10, <1>11, <1>12
  DEF Session!Next, Session!Punching

\* Only what comes back on a path is taken for an answer.
LEMMA PacketsCameThrough ==
  ASSUME Session!TypeOK, PacketsInv, AnswersInv, Session!Next PROVE PacketsInv' /\ AnswersInv'
<1> USE DEF Session!TypeOK, Session!checks, Session!punch, PacketsInv, AnswersInv, BothWays
<1>0. carries' = carries
  BY DEF Session!Next, Session!Signalling, Session!Initiate, Session!TakeOffer,
     Session!RefuseOffer, Session!SendOffer, Session!SendAnswer, Session!TakeAnswer,
     Session!AnswerIsNo, Session!GatherFails, Session!Gather, Session!SendFails,
     Session!Checking, Session!ChecksPass, Session!ChecksFail, Session!StartCheck,
     Session!CheckSucceeds, Session!Nominate, Session!CheckFails, Session!Punching,
     Session!ReadSyn, Session!ReadAnswer, Session!SendSyn, Session!ReaderStops,
     Session!Verified, Session!PunchFails, Session!Establish, Session!EstablishFails,
     Session!Close
<1>1. ASSUME UNCHANGED <<net, resp, result>> PROVE PacketsInv' /\ AnswersInv'
  BY <1>0, <1>1
<1>2. ASSUME NEW s \in Session!Sides, NEW kind \in {"syn", "synack", "ack"}, NEW p,
             kind # "syn" => p \in carries[Session!Peer(s)], Session!Send(s, kind, p)
      PROVE PacketsInv'
  <2> DEFINE m == [to |-> Session!Peer(s), kind |-> kind, path |-> p]
  <2>1. m.to = Session!Peer(s) /\ m.kind = kind /\ m.path = p
    OBVIOUS
  <2>2. net' = net \/ (net' = net \cup {m} /\ p \in carries[s])
    BY <1>2 DEF Session!Send, Session!Arrives
  <2> HIDE DEF m
  <2> QED BY <1>0, <1>2, <2>1, <2>2, PeersDiffer
<1>3. ASSUME Session!Signalling PROVE UNCHANGED <<net, resp, result>>
  BY <1>3 DEF Session!Signalling, Session!Initiate, Session!TakeOffer,
     Session!RefuseOffer, Session!SendOffer, Session!SendAnswer, Session!TakeAnswer,
     Session!AnswerIsNo, Session!GatherFails, Session!Gather, Session!SendFails
<1>4. ASSUME Session!Checking PROVE UNCHANGED <<net, resp, result>>
  BY <1>4 DEF Session!Checking, Session!ChecksPass, Session!ChecksFail, Session!StartCheck,
     Session!CheckSucceeds, Session!Nominate, Session!CheckFails
<1>5. ASSUME NEW m \in net, NEW s \in Session!Sides, Session!ReadSyn(s, m)
      PROVE PacketsInv' /\ AnswersInv'
  <2>1. m.to = s /\ Session!Send(s, "synack", m.path) /\ UNCHANGED <<resp, result>>
    BY <1>5 DEF Session!ReadSyn, Session!Reads
  <2> QED BY <1>0, <1>2, <2>1
<1>6. ASSUME NEW m \in net, NEW s \in Session!Sides, Session!ReadAnswer(s, m)
      PROVE PacketsInv' /\ AnswersInv'
  <2>1. m.to = s /\ m.kind \in {"synack", "ack"} /\ result' = result
        /\ resp' = [resp EXCEPT ![s] = m.path]
        /\ (Session!Send(s, "ack", m.path) \/ net' = net)
    BY <1>6 DEF Session!ReadAnswer, Session!Reads
  <2>2. m.path \in carries[Session!Peer(s)] /\ BothWays(m.path)
    BY <2>1, PeersDiffer
  <2>3. PacketsInv'
    BY <1>0, <1>2, <2>1, <2>2
  <2>4. AnswersInv'
    BY <1>0, <2>1, <2>2
  <2> QED BY <2>3, <2>4
<1>7. ASSUME NEW s \in Session!Sides, Session!SendSyn(s) PROVE PacketsInv' /\ AnswersInv'
  <2>1. Session!Send(s, "syn", selected[s]) /\ UNCHANGED <<resp, result>>
    BY <1>7 DEF Session!SendSyn
  <2> QED BY <1>0, <1>2, <2>1
<1>8. ASSUME NEW s \in Session!Sides, Session!Verified(s) PROVE PacketsInv' /\ AnswersInv'
  BY <1>0, <1>8 DEF Session!Verified
<1>9. ASSUME NEW s \in Session!Sides,
             \/ Session!ReaderStops(s) \/ Session!PunchFails(s) \/ Session!Establish(s)
             \/ Session!EstablishFails(s) \/ Session!Close(s)
      PROVE UNCHANGED <<net, resp, result>>
  BY <1>9 DEF Session!ReaderStops, Session!PunchFails, Session!Establish,
     Session!EstablishFails, Session!Close
<1> QED
  BY <1>1, <1>3, <1>4, <1>5, <1>6, <1>7, <1>8, <1>9 DEF Session!Next, Session!Punching

\* Only the side that acts changes, and it stays tidy.
LEMMA SidesStayTidy ==
  ASSUME Session!TypeOK, TidyInv, Session!Next PROVE TidyInv'
<1> SUFFICES ASSUME NEW s \in Session!Sides, ~late'[s] PROVE Tidy(s)'
  BY DEF TidyInv
<1> USE DEF Session!TypeOK, Session!checks, Session!punch, Tidy, Session!Working,
        Session!Goto, Session!CloseSocket, Session!Sides
<1>a. late[s] \in BOOLEAN /\ (~late[s] => Tidy(s))
  BY DEF TidyInv
<1>1. CASE Session!Signalling
  <2> USE DEF Session!Begin
  <2>1. CASE Session!Initiate
    BY <1>a, <2>1 DEF Session!Initiate
  <2>2. CASE Session!TakeOffer
    BY <1>a, <2>2 DEF Session!TakeOffer
  <2>3. CASE Session!RefuseOffer
    BY <1>a, <2>3 DEF Session!RefuseOffer
  <2>4. CASE Session!SendOffer
    BY <1>a, <2>4 DEF Session!SendOffer
  <2>5. CASE Session!SendAnswer
    BY <1>a, <2>5 DEF Session!SendAnswer, Session!BeginChecks
  <2>6. CASE Session!TakeAnswer
    BY <1>a, <2>6 DEF Session!TakeAnswer, Session!BeginChecks
  <2>7. CASE Session!AnswerIsNo
    BY <1>a, <2>7 DEF Session!AnswerIsNo
  <2>8. ASSUME NEW q \in Session!Sides, Session!GatherFails(q) PROVE Tidy(s)'
    BY <1>a, <2>8 DEF Session!GatherFails
  <2>9. ASSUME NEW q \in Session!Sides, Session!Gather(q) PROVE Tidy(s)'
    BY <1>a, <2>9 DEF Session!Gather
  <2>10. ASSUME NEW q \in Session!Sides, Session!SendFails(q) PROVE Tidy(s)'
    BY <1>a, <2>10 DEF Session!SendFails
  <2> QED
    BY <1>1, <2>1, <2>2, <2>3, <2>4, <2>5, <2>6, <2>7, <2>8, <2>9, <2>10
    DEF Session!Signalling
<1>2. CASE Session!Checking
  <2>1. ASSUME NEW q \in Session!Sides, Session!ChecksPass(q) PROVE Tidy(s)'
    BY <1>a, <2>1 DEF Session!ChecksPass
  <2>2. ASSUME NEW q \in Session!Sides, Session!ChecksFail(q) PROVE Tidy(s)'
    BY <1>a, <2>2 DEF Session!ChecksFail, Session!GiveUp
  <2>3. ASSUME NEW q \in Session!Sides, NEW p \in Paths,
               \/ Session!StartCheck(q, p) \/ Session!CheckSucceeds(q, p)
               \/ Session!Nominate(q, p) \/ Session!CheckFails(q, p)
        PROVE Tidy(s)'
    <3>1. UNCHANGED <<pc, engine, stored, socket, wg, late>>
      BY <2>3 DEF Session!StartCheck, Session!CheckSucceeds, Session!Nominate,
         Session!CheckFails
    <3> QED BY <1>a, <3>1
  <2> QED BY <1>2, <2>1, <2>2, <2>3 DEF Session!Checking
<1>3. CASE Session!Punching
  <2>1. ASSUME NEW m \in net, NEW q \in Session!Sides,
               Session!ReadSyn(q, m) \/ Session!ReadAnswer(q, m)
        PROVE Tidy(s)'
    <3>1. UNCHANGED <<pc, engine, stored, socket, wg, late>>
      BY <2>1 DEF Session!ReadSyn, Session!ReadAnswer
    <3> QED BY <1>a, <3>1
  <2>2. ASSUME NEW q \in Session!Sides, Session!SendSyn(q) \/ Session!ReaderStops(q)
        PROVE Tidy(s)'
    <3>1. UNCHANGED <<pc, engine, stored, socket, wg, late>>
      BY <2>2 DEF Session!SendSyn, Session!ReaderStops
    <3> QED BY <1>a, <3>1
  <2>3. ASSUME NEW q \in Session!Sides, Session!Verified(q) PROVE Tidy(s)'
    BY <1>a, <2>3 DEF Session!Verified
  <2>4. ASSUME NEW q \in Session!Sides, Session!PunchFails(q) PROVE Tidy(s)'
    BY <1>a, <2>4 DEF Session!PunchFails, Session!GiveUp
  <2>5. ASSUME NEW q \in Session!Sides, Session!Establish(q) PROVE Tidy(s)'
    BY <1>a, <2>5 DEF Session!Establish
  <2>6. ASSUME NEW q \in Session!Sides, Session!EstablishFails(q) PROVE Tidy(s)'
    BY <1>a, <2>6 DEF Session!EstablishFails, Session!GiveUp
  <2> QED BY <1>3, <2>1, <2>2, <2>3, <2>4, <2>5, <2>6 DEF Session!Punching
<1>4. ASSUME NEW q \in Session!Sides, Session!Close(q) PROVE Tidy(s)'
  BY <1>a, <1>4 DEF Session!Close
<1> QED BY <1>1, <1>2, <1>3, <1>4 DEF Session!Next

\* A step of a session keeps its invariant.
LEMMA SessionStep == ASSUME SessionInv, Session!Next PROVE SessionInv'
BY SessionTypes, PacketsCameThrough, SidesStayTidy DEF SessionInv

\* The invariant of a session gives its two properties.
LEMMA SessionHolds == SessionInv => Session!VerifiedBothWays /\ Session!ClosedReleases
BY DEF SessionInv, AnswersInv, BothWays, TidyInv, Tidy, Session!TypeOK,
   Session!VerifiedBothWays, Session!ClosedReleases

-------------------------------------------------------------------------------
(* The detection of the NAT.                                               *)

Closed == device = "closed"
Open == device = "open"
\* What an answer, the test that runs and the type it ends with say of the NAT.
AnswersTell ==
  \A a \in answers : ~Closed /\ (a.test = "II" /\ honours => Open)
TestsTell ==
  /\ test # "I" => ~Closed /\ mapped = Detection!Mapped(1, "primary")
  /\ test = "III" /\ ~spoiled => honours /\ ~Open
  /\ step = "backoff" =>
       attempt < Retries /\ (~spoiled => ~Detection!ComesIn([test |-> test]))
NatInv ==
  /\ Detection!TypeOK /\ AnswersTell /\ TestsTell
  /\ step # "returned" => verdict = None
  /\ Detection!VerdictIsTrue /\ Detection!PublishedIsMapped

\* The detection starts in its invariant.
LEMMA NatInit == Detection!Init => NatInv
<1>1. 0 \in 0..Retries
  BY ConstantsFit DEF ConstantsFit, Detection!RetriesAssumption
<1> QED
  BY <1>1 DEF Detection!Init, NatInv, Detection!TypeOK, AnswersTell, TestsTell,
     Detection!Tests, Detection!VerdictIsTrue, Detection!PublishedIsMapped

\* A test that fails ends the detection with a type the answers show, or starts the next.
LEMMA TestEnds ==
  ASSUME NatInv, step # "returned", Detection!TestFails,
         spoiled => spoiled',
         ~spoiled' => ~Detection!ComesIn([test |-> test]),
         UNCHANGED <<device, honours, mapped>>
  PROVE /\ TestsTell' /\ (step' # "returned" => verdict' = None)
        /\ Detection!VerdictIsTrue' /\ Detection!PublishedIsMapped'
        /\ test' \in Detection!Tests /\ attempt' \in 0..Retries
        /\ step' \in {"sending", "returned"} /\ verdict' \in Detection!Types \cup {None}
<1> USE DEF NatInv, Detection!TypeOK, TestsTell, Closed, Open, Detection!Tests,
        Detection!Types, Detection!VerdictIsTrue, Detection!PublishedIsMapped,
        Detection!Mapped, Detection!Return, Detection!Begin
<1>0. 0 \in 0..Retries
  BY ConstantsFit DEF ConstantsFit, Detection!RetriesAssumption
<1>1. ~spoiled' => Closed \/ (test = "II" /\ honours /\ ~Open)
  BY DEF Detection!ComesIn
<1>2. CASE test = "I"
  <2>1. Detection!Return("blocked")
    BY <1>2 DEF Detection!TestFails
  <2> QED BY <1>1, <1>2, <2>1
<1>3. CASE test = "II"
  <2>1. Detection!Begin("III") \/ Detection!Return("error")
    BY <1>3 DEF Detection!TestFails
  <2> QED BY <1>0, <1>1, <1>3, <2>1
<1>4. CASE test = "III"
  <2>1. Detection!Return("port_restricted")
    BY <1>4 DEF Detection!TestFails
  <2> QED BY <1>1, <1>4, <2>1
<1> QED BY <1>2, <1>3, <1>4

\* An attempt that fails is followed by another, or ends its test.
LEMMA AttemptEnds ==
  ASSUME NatInv, step # "returned", Detection!AttemptFails,
         spoiled => spoiled',
         ~spoiled' => ~Detection!ComesIn([test |-> test]),
         UNCHANGED <<device, honours, mapped>>
  PROVE /\ TestsTell' /\ (step' # "returned" => verdict' = None)
        /\ Detection!VerdictIsTrue' /\ Detection!PublishedIsMapped'
        /\ test' \in Detection!Tests /\ attempt' \in 0..Retries
        /\ step' \in {"sending", "backoff", "returned"}
        /\ verdict' \in Detection!Types \cup {None}
<1>1. CASE attempt < Retries
  <2>1. step' = "backoff" /\ UNCHANGED <<test, attempt, verdict>>
    BY <1>1 DEF Detection!AttemptFails
  <2>2. Detection!ComesIn([test |-> test])' <=> Detection!ComesIn([test |-> test])
    BY <2>1 DEF Detection!ComesIn
  <2>3. TestsTell'
    <3>1. ~spoiled' => ~Detection!ComesIn([test |-> test])'
      BY <2>2
    <3>2. ~spoiled' => ~spoiled
      OBVIOUS
    <3> HIDE DEF Detection!ComesIn
    <3> QED
      BY <1>1, <2>1, <3>1, <3>2 DEF NatInv, TestsTell, Closed, Open, Detection!Mapped
  <2> QED
    BY <1>1, <2>1, <2>3 DEF NatInv, Detection!TypeOK, Detection!VerdictIsTrue,
       Detection!PublishedIsMapped, Detection!Mapped
<1>2. CASE ~(attempt < Retries)
  BY <1>2, TestEnds DEF Detection!AttemptFails
<1> QED BY <1>1, <1>2

\* A step of the detection keeps its invariant.
LEMMA NatStep == ASSUME NatInv, Detection!Next PROVE NatInv'
<1> USE DEF NatInv, Detection!TypeOK, Closed, Open, Detection!Tests, Detection!Types
<1>0. Retries \in Nat
  BY ConstantsFit DEF ConstantsFit, Detection!RetriesAssumption
<1>1. ASSUME UNCHANGED <<device, honours, test, attempt, step, mapped, verdict, spoiled>>
      PROVE TestsTell' /\ Detection!VerdictIsTrue' /\ Detection!PublishedIsMapped'
  BY <1>1 DEF TestsTell, Detection!VerdictIsTrue, Detection!PublishedIsMapped,
     Detection!Mapped, Detection!ComesIn
<1>2. CASE Detection!ServerStart
  BY <1>1, <1>2 DEF Detection!ServerStart, AnswersTell
<1>3. CASE Detection!ServerStop
  BY <1>1, <1>3 DEF Detection!ServerStop, AnswersTell
<1>4. CASE Detection!Serve
  <2> PICK r \in requests, error \in BOOLEAN :
        /\ requests' = requests \ {r}
        /\ answers' = answers \cup
             {[test |-> q.test, attempt |-> q.attempt, error |-> error] :
                q \in {p \in {r} : Detection!ComesIn(p)}}
    BY <1>4 DEF Detection!Serve
  <2> DEFINE a == [test |-> r.test, attempt |-> r.attempt, error |-> error]
  <2>1. a \in Detection!Answers /\ a.test = r.test
    BY DEF Detection!Requests, Detection!Answers
  <2>2. \A b \in answers' : b \in answers \/ (b = a /\ Detection!ComesIn(r))
    OBVIOUS
  <2>3. UNCHANGED <<device, honours, listening, test, attempt, step, expired, mapped,
                    verdict, spoiled>>
    BY <1>4 DEF Detection!Serve
  <2> HIDE DEF a
  <2>4. AnswersTell'
    BY <2>1, <2>2, <2>3 DEF AnswersTell, Detection!ComesIn
  <2> QED BY <1>1, <2>1, <2>2, <2>3, <2>4
<1>5. CASE Detection!Detect
  BY <1>0, <1>5 DEF Detection!Detect, Detection!Begin, AnswersTell, TestsTell,
     Detection!VerdictIsTrue, Detection!PublishedIsMapped
<1>6. CASE Detection!Send
  <2>1. UNCHANGED <<device, honours, listening, expired, answers, mapped>>
    BY <1>6 DEF Detection!Send
  <2>2. CASE Detection!AttemptFails /\ spoiled' = TRUE /\ UNCHANGED requests
    BY <1>6, <2>1, <2>2, AttemptEnds DEF Detection!Send, AnswersTell
  <2>3. CASE /\ requests' = requests \cup {[test |-> test, attempt |-> attempt]}
             /\ step' = "reading" /\ UNCHANGED <<test, attempt, verdict, spoiled>>
    <3>1. requests' \subseteq Detection!Requests
      BY <2>3 DEF Detection!Requests
    <3> QED
      BY <1>6, <2>1, <2>3, <3>1 DEF Detection!Send, AnswersTell, TestsTell,
         Detection!VerdictIsTrue, Detection!PublishedIsMapped, Detection!Mapped
  <2> QED BY <1>6, <2>2, <2>3 DEF Detection!Send
<1>7. CASE Detection!Read
  <2> PICK a \in answers :
        /\ answers' = answers \ {a}
        /\ spoiled' = (spoiled \/ a.error \/ a.test # test)
        /\ IF a.error THEN Detection!AttemptFails /\ UNCHANGED mapped
           ELSE CASE test = "I"  -> Detection!Begin("II") /\ mapped' = Detection!Mapped(1, "primary")
                  [] test = "II" -> Detection!Return("full_cone") /\ UNCHANGED mapped
                  [] test = "III" ->
                       /\ Detection!Return(IF Detection!Mapped(2, "alternate") = mapped
                                           THEN "restricted" ELSE "symmetric")
                       /\ UNCHANGED mapped
    BY <1>7 DEF Detection!Read
  <2>1. /\ UNCHANGED <<device, honours, listening, expired, requests>>
        /\ step = "reading" /\ a.error \in BOOLEAN
    BY <1>7 DEF Detection!Read, Detection!Answers
  <2>2. AnswersTell' /\ answers' \subseteq Detection!Answers /\ spoiled' \in BOOLEAN
    BY <2>1 DEF AnswersTell
  <2>3. ~Closed /\ (a.test = "II" /\ honours => Open)
    BY DEF AnswersTell
  <2>4. CASE a.error
    BY <2>1, <2>2, <2>4, AttemptEnds
  <2>5. CASE ~a.error /\ test = "I"
    <3>1. Detection!Begin("II") /\ mapped' = Detection!Mapped(1, "primary")
      BY <2>5
    <3>2. Detection!Mapped(1, "primary")' = Detection!Mapped(1, "primary")
          /\ Detection!Mapped(1, "primary") \in {1} \X {"any", "primary"}
      BY <2>1 DEF Detection!Mapped
    <3> QED
      BY <1>0, <2>1, <2>2, <2>3, <3>1, <3>2 DEF Detection!Begin, TestsTell,
         Detection!VerdictIsTrue, Detection!PublishedIsMapped
  <2>6. CASE ~a.error /\ test = "II"
    <3>1. Detection!Return("full_cone") /\ UNCHANGED mapped
      BY <2>6
    <3> QED
      BY <2>1, <2>2, <2>3, <2>6, <3>1 DEF Detection!Return, TestsTell,
         Detection!VerdictIsTrue, Detection!PublishedIsMapped, Detection!Mapped
  <2>7. CASE ~a.error /\ test = "III"
    <3>1. (Detection!Return("restricted") \/ Detection!Return("symmetric")) /\ UNCHANGED mapped
      BY <2>7
    <3> QED
      BY <2>1, <2>2, <2>3, <2>7, <3>1 DEF Detection!Return, TestsTell,
         Detection!VerdictIsTrue, Detection!PublishedIsMapped, Detection!Mapped
  <2> QED BY <2>4, <2>5, <2>6, <2>7
<1>8. CASE Detection!Timeout
  <2>1. /\ UNCHANGED <<device, honours, listening, expired, requests, answers, mapped>>
        /\ step = "reading" /\ Detection!AttemptFails
        /\ spoiled' = (spoiled \/ Detection!ComesIn([test |-> test]))
    BY <1>8 DEF Detection!Timeout
  <2>2. Detection!ComesIn([test |-> test]) \in BOOLEAN
    BY DEF Detection!ComesIn
  <2> QED BY <2>1, <2>2, AttemptEnds DEF AnswersTell
<1>9. CASE Detection!Backoff
  <2>1. /\ UNCHANGED <<device, honours, listening, expired, requests, answers, mapped, spoiled>>
        /\ step = "backoff"
    BY <1>9 DEF Detection!Backoff
  <2>2. CASE expired
    <3>1. Detection!TestFails
      BY <1>9, <2>2 DEF Detection!Backoff
    <3> QED BY <2>1, <3>1, TestEnds DEF AnswersTell, TestsTell
  <2>3. CASE ~expired
    <3>1. step' = "sending" /\ attempt' = attempt + 1 /\ UNCHANGED <<test, verdict>>
      BY <1>9, <2>3 DEF Detection!Backoff
    <3>2. attempt < Retries /\ attempt' \in 0..Retries
      BY <1>0, <2>1, <3>1 DEF TestsTell
    <3>3. TestsTell'
      BY <2>1, <3>1 DEF TestsTell, Detection!Mapped
    <3> QED
      BY <2>1, <3>1, <3>2, <3>3 DEF AnswersTell, Detection!VerdictIsTrue,
         Detection!PublishedIsMapped, Detection!Mapped
  <2> QED BY <2>2, <2>3
<1>10. CASE Detection!Expire
  BY <1>1, <1>10 DEF Detection!Expire, AnswersTell
<1> QED
  BY <1>2, <1>3, <1>4, <1>5, <1>6, <1>7, <1>8, <1>9, <1>10 DEF Detection!Next

\* A path taken for verified carries packets both ways, and what is closed has
\* let go of its socket and device (punch.go, engine.go); the type and the address
\* the detection ends with are those of the NAT (nat/detect.go).
THEOREM SessionsAreSound == Spec => []SessionIsSound
<1> DEFINE Inv == /\ part = "session" => SessionInv
                  /\ part = "nat" => NatInv
<1>1. Init => Inv
  BY SessionInit, NatInit DEF Init
<1>2. Inv /\ [Next]_vars => Inv'
  <2> SUFFICES ASSUME Inv, [Next]_vars PROVE Inv'
    OBVIOUS
  <2>1. ASSUME part' = "session" PROVE SessionInv'
    <3>1. CASE Next
      <4>1. part = "session" /\ Session!Next
        BY <2>1, <3>1 DEF Next
      <4> QED BY <4>1, SessionStep
    <3>2. CASE UNCHANGED vars
      <4>1. SessionInv /\ UNCHANGED sessionVars
        BY <2>1, <3>2 DEF vars
      <4> QED
        BY <4>1 DEF sessionVars, SessionInv, Session!TypeOK, PacketsInv, AnswersInv, BothWays,
           TidyInv, Tidy, Session!Working
    <3> QED BY <3>1, <3>2
  <2>2. ASSUME part' = "nat" PROVE NatInv'
    <3>1. CASE Next
      <4>1. part = "nat" /\ Detection!Next
        BY <2>2, <3>1 DEF Next
      <4> QED BY <4>1, NatStep
    <3>2. CASE UNCHANGED vars
      <4>1. NatInv /\ UNCHANGED natVars
        BY <2>2, <3>2 DEF vars
      <4> QED
        BY <4>1 DEF natVars, NatInv, Detection!TypeOK, AnswersTell, TestsTell, Closed, Open,
           Detection!ComesIn, Detection!Mapped, Detection!VerdictIsTrue,
           Detection!PublishedIsMapped
    <3> QED BY <3>1, <3>2
  <2> QED BY <2>1, <2>2
<1>3. Inv => SessionIsSound
  BY SessionHolds DEF SessionIsSound, SessionInv, NatInv
<1> QED BY <1>1, <1>2, <1>3, PTL DEF Spec

-------------------------------------------------------------------------------
(* The choice of a relay.                                                  *)

Connected(rs) == {r \in rs : connected[r]}
\* What the goroutines of Connect have stored when they are where they are.
DialsInv ==
  \A r \in Paths :
    /\ dial[r] \in {"idle", "dialing"} => ~connected[r]
    /\ loop = "off" => dial[r] = "idle"
    /\ connected[r] => r \in ever
\* An evaluation that nothing disturbs keeps the connected ones of those it has
\* looked at.
CandidatesInv ==
  /\ candidates \subseteq ever
  /\ ~since /\ loop = "evaluating" => candidates = Connected(looked)
ChoiceInv ==
  /\ Choice!TypeOK /\ DialsInv /\ CandidatesInv
  /\ Choice!SettlesOnBest /\ Choice!ActiveWasConnected

\* The choice of a relay starts in its invariant.
LEMMA ChoiceInit == Choice!Init => ChoiceInv
<1>1. 0 \in 0..Slowest
  BY ConstantsFit DEF ConstantsFit, Choice!SlowestAssumption
<1> QED
  BY <1>1 DEF Choice!Init, ChoiceInv, Choice!TypeOK, DialsInv, CandidatesInv, Connected,
     Choice!SettlesOnBest, Choice!ActiveWasConnected

\* Nothing but the choice changes what has been chosen from.
LEMMA ChoiceSettles ==
  ASSUME ChoiceInv, Choice!Choose PROVE ChoiceInv'
<1> USE DEF ChoiceInv, Choice!TypeOK
<1>1. /\ loop = "evaluating" /\ looked = Paths
      /\ loop' = "waiting" /\ looked' = {} /\ candidates' = {}
      /\ UNCHANGED <<dial, connected, latency, live, ever, cancelled, since>>
      /\ IF candidates = {} THEN UNCHANGED chosen ELSE chosen' \in Choice!Best(candidates)
  BY DEF Choice!Choose, Choice!clients
<1>2. Choice!TypeOK' /\ DialsInv' /\ CandidatesInv' /\ Choice!ActiveWasConnected'
  BY <1>1 DEF DialsInv, CandidatesInv, Choice!Best, Choice!ActiveWasConnected
<1>3. Choice!SettlesOnBest'
  <2> SUFFICES ASSUME ~since, Connected(Paths) # {}
               PROVE chosen' \in {r \in Connected(Paths) : \A q \in Connected(Paths) : latency[r] <= latency[q]}
    BY <1>1 DEF Choice!SettlesOnBest, Choice!Best, Connected
  <2>1. candidates = Connected(Paths)
    BY <1>1 DEF CandidatesInv
  <2> QED BY <1>1, <2>1 DEF Choice!Best
<1> QED BY <1>2, <1>3

\* A step of the choice of a relay keeps its invariant.
LEMMA ChoiceStep == ASSUME ChoiceInv, Choice!Next PROVE ChoiceInv'
<1> USE DEF ChoiceInv, Choice!TypeOK, DialsInv, CandidatesInv, Connected,
        Choice!SettlesOnBest, Choice!ActiveWasConnected, Choice!clients, Choice!evaluation,
        Choice!Best
<1>0. Slowest \in Nat \ {0}
  BY ConstantsFit DEF ConstantsFit, Choice!SlowestAssumption
<1>1. CASE Choice!Start
  BY <1>1 DEF Choice!Start
<1>2. CASE Choice!Stop
  BY <1>2 DEF Choice!Stop
<1>3. CASE Choice!Evaluate
  BY <1>3 DEF Choice!Evaluate
<1>4. CASE Choice!Choose
  BY <1>4, ChoiceSettles
<1>5. CASE Choice!LoopReturns
  BY <1>5 DEF Choice!LoopReturns
<1>6. ASSUME NEW r \in Paths, Choice!Connects(r) PROVE ChoiceInv'
  BY <1>6 DEF Choice!Connects
<1>7. ASSUME NEW r \in Paths, Choice!StoresLatency(r) PROVE ChoiceInv'
  BY <1>0, <1>7 DEF Choice!StoresLatency
<1>8. ASSUME NEW r \in Paths, Choice!ConnectFails(r) PROVE ChoiceInv'
  BY <1>8 DEF Choice!ConnectFails
<1>9. ASSUME NEW r \in Paths, Choice!ConnectionDies(r) PROVE ChoiceInv'
  BY <1>9 DEF Choice!ConnectionDies
<1>10. ASSUME NEW r \in Paths, Choice!SwitchTo(r) PROVE ChoiceInv'
  BY <1>10 DEF Choice!SwitchTo
<1>11. ASSUME NEW r \in Paths, Choice!Look(r) PROVE ChoiceInv'
  BY <1>11 DEF Choice!Look
<1> QED
  BY <1>1, <1>2, <1>3, <1>4, <1>5, <1>6, <1>7, <1>8, <1>9, <1>10, <1>11 DEF Choice!Next

-------------------------------------------------------------------------------
(* The scheduler: the invariant is proved where it is defined.             *)

SchedulerInv == Scheduler!TypeOK /\ Scheduler!IInv

\* The scheduler starts in its invariant.
LEMMA SchedulerInit == Scheduler!Init => SchedulerInv
<1> SUFFICES ASSUME Scheduler!Init PROVE SchedulerInv
  OBVIOUS
<1>1. Scheduler!Idle \in Scheduler!CallRecord
  BY DEF Scheduler!Idle, Scheduler!CallRecord, Scheduler!Pcs
<1>2. Scheduler!TypeOK
  BY <1>1 DEF Scheduler!Init, Scheduler!TypeOK
<1>3. Scheduler!IInv
  BY Scheduler!InitInv
<1> QED BY <1>2, <1>3 DEF SchedulerInv

\* A step of the scheduler keeps its invariant.
LEMMA SchedulerStep == ASSUME SchedulerInv, Scheduler!Next PROVE SchedulerInv'
<1> USE DEF SchedulerInv, Scheduler!TypeOK, Scheduler!quality
<1> DEFINE Rest == /\ lost \subseteq Ids /\ lossy \subseteq Ids
                   /\ locked \in Ids \cup {None} /\ heard \in Ids \cup {None}
                   /\ cooling \in BOOLEAN /\ evaluating \in BOOLEAN
<1>1. Scheduler!IInv'
  BY Scheduler!Inductive
<1>2. /\ call' \in [Scheduler!Threads -> Scheduler!CallRecord] /\ overlapped' \in BOOLEAN
      /\ paths' \subseteq Ids /\ active' \in Ids \cup {None}
  BY <1>1 DEF Scheduler!IInv, Scheduler!CallInv
<1>3. \A c \in Scheduler!Threads : call[c].path \in Ids \cup {None}
  BY DEF Scheduler!CallRecord
<1>4. Rest'
  <2>1. ASSUME NEW c \in Callers, Scheduler!Call(c) PROVE Rest'
    BY <1>3, <2>1 DEF Scheduler!Call, Scheduler!RegisterPath, Scheduler!UnregisterPath,
       Scheduler!LockPath, Scheduler!SwitchTo, Scheduler!UnlockPath, Scheduler!FirstPath,
       Scheduler!ClearActive, Scheduler!StoreLock, Scheduler!ActivateLocked,
       Scheduler!Threads
  <2>2. ASSUME NEW c \in Scheduler!Threads,
               Scheduler!CheckSwitch(c) \/ Scheduler!StoreSwitch(c)
        PROVE Rest'
    BY <1>3, <2>2 DEF Scheduler!CheckSwitch, Scheduler!StoreSwitch
  <2>3. CASE \/ Scheduler!CooldownOver \/ Scheduler!Start \/ Scheduler!Stop
             \/ Scheduler!Evaluate
    BY <2>3 DEF Scheduler!CooldownOver, Scheduler!Start, Scheduler!Stop, Scheduler!Evaluate
  <2>4. CASE Scheduler!Tick
    BY <2>4 DEF Scheduler!Tick
  <2>5. ASSUME NEW p \in Ids, Scheduler!SetState(p) PROVE Rest'
    BY <2>5 DEF Scheduler!SetState
  <2> QED BY <2>1, <2>2, <2>3, <2>4, <2>5 DEF Scheduler!Next
<1> QED BY <1>1, <1>2, <1>4

-------------------------------------------------------------------------------
(* The probes of a link and the loss tracker.                              *)

\* The probes that RecordSent has stored.
Stored == IF appending = None THEN probes ELSE probes - 1
ProbeTypes ==
  /\ Prober!TypeOK
  /\ entries \in Seq(Prober!Entries) /\ Len(entries) <= Stored
  /\ appending # None =>
       probes > 0 /\ appending \in Seq(Prober!Entries) /\ Len(appending) <= Stored
  /\ pruned # None => pruned \in Seq(Prober!Entries) /\ Len(pruned) <= Stored
  /\ wire \subseteq 1..Stored /\ read \subseteq 1..Stored
\* An answer that came in time counts in the metrics about to be computed.
CountedInv ==
  /\ pruned # None /\ ~tardy => \E k \in DOMAIN pruned : pruned[k].received
  /\ metrics # None /\ ~tardy => metrics.lost < metrics.of
\* The entries while at most one of the goroutines is in the tracker.
Right(q) ==
  /\ \A k \in DOMAIN q : q[k].seq <= Stored /\ (q[k].received <=> q[k].seq \in read)
  /\ \A j, k \in DOMAIN q : j < k => q[j].seq < q[k].seq
  /\ \A n \in 1..Stored : n + Window >= probes => \E k \in DOMAIN q : q[k].seq = n
MarksInv ==
  ~raced /\ (appending = None \/ pruned = None) =>
    /\ Right(entries)
    /\ appending # None => entries = appending
    /\ pruned # None => pruned \in Prober!Recent(entries)
ProberInv == ProbeTypes /\ CountedInv /\ MarksInv

\* What the constants of the prober are.
LEMMA ProbeConstants ==
  Window \in Nat \ {0} /\ MaxProbes \in Nat /\ None \notin Seq(Prober!Entries)
BY ConstantsFit DEF ConstantsFit, Prober!WindowAssumption, Prober!NoneAssumption

\* The lost ones are among the entries, and not all if one was received.
LEMMA LostArePart ==
  ASSUME NEW q \in Seq(Prober!Entries)
  PROVE  /\ Prober!Lost(q) \in 0..Len(q)
         /\ (\E k \in DOMAIN q : q[k].received) => Prober!Lost(q) < Len(q)
<1> DEFINE Of == {k \in DOMAIN q : ~q[k].received}
<1>1. DOMAIN q = 1..Len(q) /\ Len(q) \in Nat
  OBVIOUS
<1>2. IsFiniteSet(1..Len(q)) /\ Cardinality(1..Len(q)) = Len(q)
  <2>1. Cardinality(1..Len(q)) = IF 1 > Len(q) THEN 0 ELSE Len(q) - 1 + 1
    BY <1>1, FS_Interval
  <2> QED BY <1>1, <2>1, FS_Interval
<1>3. Of \subseteq 1..Len(q)
  BY <1>1
<1>4. /\ Cardinality(Of) \in Nat /\ Cardinality(Of) <= Len(q)
      /\ Cardinality(Of) = Len(q) => Of = 1..Len(q)
  <2> HIDE DEF Of
  <2> QED BY <1>2, <1>3, FS_Subset, FS_CardinalityType
<1>5. Prober!Lost(q) = Cardinality(Of)
  BY DEF Prober!Lost, Prober!Cardinality, Cardinality
<1>6. (\E k \in DOMAIN q : q[k].received) => Of # 1..Len(q)
  BY <1>1
<1> HIDE DEF Of
<1> QED BY <1>1, <1>4, <1>5, <1>6

\* An entry and what a mark makes of it.
LEMMA EntryMarked ==
  ASSUME NEW x \in Prober!Entries
  PROVE  /\ x.seq \in 1..MaxProbes /\ x.seq \in Int /\ x.received \in BOOLEAN
         /\ [x EXCEPT !.received = TRUE] \in Prober!Entries
         /\ [x EXCEPT !.received = TRUE].seq = x.seq
         /\ [x EXCEPT !.received = TRUE].received
         /\ x.received => [x EXCEPT !.received = TRUE] = x
<1> DEFINE y == [x EXCEPT !.received = TRUE]
<1>1. PICK s \in 1..MaxProbes, r \in BOOLEAN : x = [seq |-> s, received |-> r]
  BY DEF Prober!Entries
<1>2. y = [seq |-> s, received |-> TRUE]
  <2>1. DOMAIN x = {"seq", "received"} /\ x["seq"] = s /\ x["received"] = r
    BY <1>1
  <2>2. y = [f \in {"seq", "received"} |-> IF f = "received" THEN TRUE ELSE x[f]]
    BY <2>1
  <2> HIDE DEF y
  <2> QED BY <2>1, <2>2
<1>3. x.seq = s /\ x.received = r /\ s \in Int
  BY <1>1, ProbeConstants
<1> HIDE DEF y
<1>4. y \in Prober!Entries /\ y.seq = s /\ y.received
  BY <1>2 DEF Prober!Entries
<1>5. r => y = x
  BY <1>1, <1>2
<1> USE DEF y
<1> QED BY <1>3, <1>4, <1>5

\* What an entry at the end changes.
LEMMA AppendKeeps ==
  ASSUME NEW S, NEW q \in Seq(S), NEW e \in S
  PROVE  /\ Append(q, e) \in Seq(S) /\ Len(Append(q, e)) = Len(q) + 1
         /\ DOMAIN Append(q, e) = 1..(Len(q) + 1)
         /\ \A k \in 1..Len(q) : Append(q, e)[k] = q[k]
         /\ Append(q, e)[Len(q) + 1] = e
OBVIOUS

\* What a cut at the front leaves.
LEMMA CutLeaves ==
  ASSUME NEW S, NEW q \in Seq(S), NEW i \in 0..Len(q)
  PROVE  LET c == SubSeq(q, i + 1, Len(q))
         IN /\ c \in Seq(S) /\ Len(c) = Len(q) - i /\ DOMAIN c = 1..(Len(q) - i)
            /\ \A k \in 1..(Len(q) - i) : c[k] = q[k + i]
<1> DEFINE c == SubSeq(q, i + 1, Len(q))
<1>1. Len(q) \in Nat /\ i \in Nat /\ i <= Len(q)
  OBVIOUS
<1>2. \A k \in (i + 1)..Len(q) : q[k] \in S
  BY <1>1
<1>3. c \in Seq(S) /\ Len(c) = IF i + 1 <= Len(q) THEN Len(q) - (i + 1) + 1 ELSE 0
  BY <1>1, <1>2, SubSeqProperties
<1>4. Len(c) = Len(q) - i
  BY <1>1, <1>3
<1>5. \A k \in 1..(Len(q) - i) : c[k] = q[k + i]
  BY <1>1, SubSeqProperties
<1> QED BY <1>3, <1>4, <1>5

\* The prober starts in its invariant.
LEMMA ProberInitInv == Prober!Init => ProberInv
<1> SUFFICES ASSUME Prober!Init PROVE ProberInv
  OBVIOUS
<1> USE DEF Prober!Init
<1>1. entries = <<>> /\ probes = 0 /\ appending = None /\ pruned = None /\ metrics = None
  OBVIOUS
<1>2. entries \in Seq(Prober!Entries) /\ Len(entries) = 0 /\ DOMAIN entries = {}
  BY <1>1
<1>a. \A q \in {entries, appending, pruned} \ {None} :
        \A k \in DOMAIN q : q[k] \in Prober!Entries
  <2>1. \A q \in {entries, appending, pruned} \ {None} : q = entries
    BY <1>1
  <2> QED BY <1>2, <2>1
<1>b. /\ probes \in 0..MaxProbes /\ wire = {} /\ read = {} /\ metrics = None
      /\ probing \in BOOLEAN /\ raced \in BOOLEAN /\ tardy \in BOOLEAN
  <2>1. probes \in 0..MaxProbes
    BY <1>1, ConstantsFit DEF ConstantsFit, Prober!WindowAssumption
  <2>2. wire = {} /\ read = {} /\ metrics = None
    OBVIOUS
  <2>3. probing \in BOOLEAN /\ raced \in BOOLEAN /\ tardy \in BOOLEAN
    BY Zenon
  <2> QED BY <2>1, <2>2, <2>3
<1>3. Prober!TypeOK
  BY <1>a, <1>b DEF Prober!TypeOK
<1>4. ProbeTypes
  BY <1>1, <1>2, <1>3 DEF ProbeTypes, Stored
<1> QED BY <1>1, <1>2, <1>4 DEF ProberInv, CountedInv, MarksInv, Right, Stored

\* A probe gets its number, and RecordSent loads the slice it appends to.
LEMMA LoadKeeps == ASSUME ProberInv, Prober!Load PROVE ProberInv'
<1> USE ProbeConstants DEF ProberInv, ProbeTypes, Prober!Load
<1>1. appending' # None /\ appending' = entries /\ Stored' = Stored /\ Stored = probes
      /\ probes' = probes + 1 /\ probes \in Nat
  BY DEF Stored, Prober!TypeOK
<1>2. ProbeTypes'
  BY <1>1 DEF Prober!TypeOK
<1>3. CountedInv'
  BY DEF CountedInv
<1>4. MarksInv'
  <2> SUFFICES ASSUME ~raced, pruned = None PROVE Right(entries)'
    BY <1>1 DEF MarksInv
  <2>1. Right(entries)
    BY DEF MarksInv
  <2>2. \A n \in 1..Stored : n + Window >= probes + 1 => n + Window >= probes
    BY <1>1
  <2> QED BY <1>1, <2>1, <2>2 DEF Right
<1> QED BY <1>2, <1>3, <1>4

\* RecordSent stores the slice it loaded, over what was stored meanwhile.
LEMMA StoreKeeps == ASSUME ProberInv, Prober!Store PROVE ProberInv'
<1> USE ProbeConstants DEF ProberInv
<1> DEFINE e == [seq |-> probes, received |-> FALSE]
<1>1. PICK q \in {appending, Prober!MarkedSince(appending)} : entries' = Append(q, e)
  BY DEF Prober!Store
<1>2. /\ appending # None /\ appending' = None
      /\ raced' = (raced \/ entries # appending \/ pruned # None)
      /\ wire' \in {wire, wire \cup {probes}}
      /\ UNCHANGED <<probing, probes, pruned, read, metrics, tardy>>
  BY DEF Prober!Store
<1>3. /\ probes \in 1..MaxProbes /\ Stored = probes - 1 /\ Stored' = probes
      /\ e \in Prober!Entries
  BY <1>2 DEF ProbeTypes, Prober!TypeOK, Stored, Prober!Entries
<1>4. q \in Seq(Prober!Entries) /\ Len(q) = Len(appending)
  <2>1. appending \in Seq(Prober!Entries) /\ DOMAIN appending = 1..Len(appending)
    BY <1>2 DEF ProbeTypes
  <2>2. \A k \in DOMAIN appending :
          appending[k] \in Prober!Entries
          /\ [appending[k] EXCEPT !.received = TRUE] \in Prober!Entries
    BY <2>1, EntryMarked
  <2>3. Prober!MarkedSince(appending) \in [1..Len(appending) -> Prober!Entries]
    BY <2>1, <2>2 DEF Prober!MarkedSince
  <2> QED BY <2>1, <2>3
<1>5. /\ entries' \in Seq(Prober!Entries) /\ Len(entries') = Len(q) + 1
      /\ DOMAIN entries' = 1..(Len(q) + 1)
      /\ \A k \in 1..Len(q) : entries'[k] = q[k]
      /\ entries'[Len(q) + 1] = e
  <2> HIDE DEF e
  <2> QED BY <1>1, <1>3, <1>4, AppendKeeps
<1>6. Len(q) \in Nat /\ Len(q) <= probes - 1
  BY <1>2, <1>3, <1>4 DEF ProbeTypes
<1>7. ProbeTypes'
  <2>1. Prober!TypeOK'
    <3>1. \A k \in DOMAIN entries' : entries'[k] \in Prober!Entries
      BY <1>5
    <3>2. wire' \subseteq 1..MaxProbes
      BY <1>2, <1>3 DEF ProbeTypes, Prober!TypeOK
    <3>3. raced' \in BOOLEAN
      BY <1>2 DEF ProbeTypes, Prober!TypeOK
    <3>4. \A p \in {entries, appending, pruned}' \ {None} :
            \A k \in DOMAIN p : p[k] \in Prober!Entries
      BY <1>2, <3>1 DEF ProbeTypes, Prober!TypeOK
    <3> HIDE DEF e
    <3> QED BY <1>2, <3>2, <3>3, <3>4 DEF ProbeTypes, Prober!TypeOK
  <2>2. wire' \subseteq 1..probes /\ read' \subseteq 1..probes
    BY <1>2, <1>3 DEF ProbeTypes
  <2>3. pruned' # None => pruned' \in Seq(Prober!Entries) /\ Len(pruned') <= probes
    BY <1>2, <1>3 DEF ProbeTypes
  <2> HIDE DEF e
  <2> QED BY <1>2, <1>3, <1>5, <1>6, <2>1, <2>2, <2>3 DEF ProbeTypes
<1>8. CountedInv'
  BY <1>2 DEF CountedInv
<1>9. MarksInv'
  <2> SUFFICES ASSUME ~raced, entries = appending, pruned = None PROVE Right(entries)'
    BY <1>2 DEF MarksInv, ProbeTypes, Prober!TypeOK
  <2>1. Right(entries)
    BY DEF MarksInv
  <2>2. q = entries
    <3>1. entries \in Seq(Prober!Entries) /\ DOMAIN entries = 1..Len(entries)
      BY DEF ProbeTypes
    <3>2. ASSUME NEW k \in DOMAIN entries
          PROVE Prober!MarkedSince(entries)[k] = entries[k]
      <4>1. entries[k] \in Prober!Entries
        BY <3>1
      <4>2. CASE \E j \in DOMAIN entries :
                   entries[j].seq = entries[k].seq /\ entries[j].received
        <5>1. entries[k].received
          BY <2>1, <4>2 DEF Right
        <5>2. [entries[k] EXCEPT !.received = TRUE] = entries[k]
          BY <4>1, <5>1 DEF Prober!Entries
        <5> QED BY <3>1, <4>2, <5>2 DEF Prober!MarkedSince
      <4>3. CASE ~\E j \in DOMAIN entries :
                   entries[j].seq = entries[k].seq /\ entries[j].received
        BY <4>3 DEF Prober!MarkedSince
      <4> QED BY <4>2, <4>3
    <3>3. Prober!MarkedSince(entries) = entries
      <4>1. Prober!MarkedSince(entries) = [k \in DOMAIN entries |-> Prober!MarkedSince(entries)[k]]
        BY DEF Prober!MarkedSince
      <4>2. entries = [k \in DOMAIN entries |-> entries[k]]
        BY <3>1
      <4> QED BY <3>2, <4>1, <4>2
    <3> QED BY <1>1, <3>3
  <2>3. /\ \A k \in 1..Len(q) : entries'[k] = entries[k]
        /\ DOMAIN entries = 1..Len(q)
        /\ entries'[Len(q) + 1].seq = probes /\ ~entries'[Len(q) + 1].received
    BY <1>5, <2>2
  <2>4. probes \notin read
    BY <1>3 DEF ProbeTypes
  <2>5. \A k \in 1..Len(q) : entries[k].seq \in Int /\ entries[k].seq <= probes - 1
    <3> SUFFICES ASSUME NEW k \in 1..Len(q)
                 PROVE entries[k].seq \in Int /\ entries[k].seq <= probes - 1
      OBVIOUS
    <3>1. entries[k] \in Prober!Entries
      BY <2>3 DEF ProbeTypes
    <3> QED BY <1>3, <2>1, <2>3, <3>1, EntryMarked DEF Right
  <2> HIDE DEF e
  <2>6. \A k \in DOMAIN entries' : k \in 1..Len(q) \/ k = Len(q) + 1
    BY <1>5, <1>6
  <2>7. \A k \in DOMAIN entries' : entries'[k].seq <= Stored' /\ (entries'[k].received <=> entries'[k].seq \in read')
    BY <1>2, <1>3, <2>1, <2>3, <2>4, <2>5, <2>6 DEF Right
  <2>8. \A j, k \in DOMAIN entries' : j < k => entries'[j].seq < entries'[k].seq
    <3> SUFFICES ASSUME NEW j \in DOMAIN entries', NEW k \in DOMAIN entries', j < k
                 PROVE entries'[j].seq < entries'[k].seq
      OBVIOUS
    <3>1. j \in 1..Len(q)
      BY <1>5, <1>6
    <3>2. CASE k \in 1..Len(q)
      BY <2>1, <2>3, <3>1, <3>2 DEF Right
    <3>3. CASE k = Len(q) + 1
      BY <1>3, <2>3, <2>5, <3>1, <3>3
    <3> QED BY <2>6, <3>2, <3>3
  <2>9. ASSUME NEW n \in 1..probes, n + Window >= probes
        PROVE \E k \in DOMAIN entries' : entries'[k].seq = n
    <3>1. CASE n = probes
      BY <1>5, <1>6, <2>3, <3>1
    <3>2. CASE n # probes
      <4>1. n \in 1..Stored
        BY <1>3, <3>2
      <4>2. PICK k \in DOMAIN entries : entries[k].seq = n
        BY <2>1, <2>9, <4>1 DEF Right
      <4> QED BY <1>5, <1>6, <2>3, <4>2
    <3> QED BY <3>1, <3>2
  <2> QED BY <1>2, <1>3, <2>7, <2>8, <2>9 DEF Right
<1> QED BY <1>7, <1>8, <1>9

\* RecordReceived marks an entry, and pruneOld loads the slice to cut it.
LEMMA ReadKeeps ==
  ASSUME ProberInv, NEW n \in 1..MaxProbes, Prober!Read(n) PROVE ProberInv'
<1> USE ProbeConstants DEF ProberInv
<1> DEFINE m == Prober!Marked(n)
<1>1. /\ pruned = None /\ n \in wire /\ wire' \in {wire, wire \ {n}}
      /\ read' = read \cup {n} /\ entries' = m /\ pruned' \in Prober!Recent(m)
      /\ tardy' = (tardy \/ \A k \in DOMAIN pruned' : pruned'[k].seq # n)
      /\ UNCHANGED <<probing, probes, appending, metrics, raced>>
  BY DEF Prober!Read
<1>2. Stored' = Stored /\ n \in 1..Stored /\ Stored \in Int /\ Stored <= probes /\ probes \in 0..MaxProbes
  BY <1>1 DEF Stored, ProbeTypes, Prober!TypeOK
<1>3. entries \in Seq(Prober!Entries) /\ DOMAIN entries = 1..Len(entries) /\ Len(entries) \in Nat
      /\ Len(entries) <= Stored
  BY DEF ProbeTypes
<1>4. ASSUME NEW k \in DOMAIN entries
      PROVE /\ entries[k] \in Prober!Entries /\ m[k] \in Prober!Entries
            /\ m[k].seq = entries[k].seq /\ entries[k].seq \in Int
            /\ m[k].received <=> (entries[k].received \/ entries[k].seq = n)
  <2>1. entries[k] \in Prober!Entries
    BY <1>3
  <2>2. m[k] = IF entries[k].seq = n THEN [entries[k] EXCEPT !.received = TRUE] ELSE entries[k]
    BY DEF Prober!Marked
  <2> HIDE DEF m
  <2> QED BY <2>1, <2>2, EntryMarked
<1>5. m \in Seq(Prober!Entries) /\ Len(m) = Len(entries) /\ DOMAIN m = DOMAIN entries
  <2>1. m = [k \in 1..Len(entries) |-> m[k]]
    BY <1>3 DEF Prober!Marked
  <2> HIDE DEF m
  <2>2. m \in [1..Len(entries) -> Prober!Entries]
    BY <1>3, <1>4, <2>1
  <2> QED BY <1>3, <2>2
<1> HIDE DEF m
<1>6. PICK i \in 0..Len(m) : i \in Prober!Cuts(m) /\ pruned' = SubSeq(m, i + 1, Len(m))
  BY <1>1 DEF Prober!Recent, Prober!Cuts
<1>7. /\ pruned' \in Seq(Prober!Entries) /\ Len(pruned') = Len(m) - i
      /\ DOMAIN pruned' = 1..(Len(m) - i)
      /\ \A k \in 1..(Len(m) - i) : pruned'[k] = m[k + i]
  BY <1>5, <1>6, CutLeaves
<1>8. ProbeTypes'
  <2>1. \A k \in DOMAIN entries' : entries'[k] \in Prober!Entries
    BY <1>1, <1>5
  <2>2. \A k \in DOMAIN pruned' : pruned'[k] \in Prober!Entries
    BY <1>7
  <2>3. \A p \in {entries, appending, pruned}' \ {None} :
          \A k \in DOMAIN p : p[k] \in Prober!Entries
    BY <1>1, <2>1, <2>2 DEF ProbeTypes, Prober!TypeOK
  <2>4. read' \subseteq 1..Stored /\ read' \subseteq 1..probes /\ wire' \subseteq wire
    BY <1>1, <1>2 DEF ProbeTypes
  <2>5. Prober!TypeOK'
    BY <1>1, <2>3, <2>4 DEF ProbeTypes, Prober!TypeOK
  <2>6. Len(pruned') <= Stored
    BY <1>2, <1>3, <1>5, <1>6, <1>7
  <2> QED BY <1>1, <1>2, <1>3, <1>5, <1>7, <2>4, <2>5, <2>6 DEF ProbeTypes
<1>9. CountedInv'
  <2>1. ASSUME ~tardy' PROVE \E k \in DOMAIN pruned' : pruned'[k].received
    <3>1. PICK k \in DOMAIN pruned' : pruned'[k].seq = n
      BY <1>1, <2>1
    <3>2. k + i \in DOMAIN entries /\ pruned'[k] = m[k + i]
      <4>1. k \in 1..(Len(entries) - i) /\ i \in 0..Len(entries)
        BY <1>5, <1>6, <1>7
      <4>2. k + i \in 1..Len(entries)
        BY <1>3, <4>1
      <4> QED BY <1>3, <1>5, <1>7, <4>1, <4>2
    <3> QED BY <1>4, <3>1, <3>2
  <2>2. ~tardy' => ~tardy
    BY <1>1
  <2> QED BY <1>1, <2>1, <2>2 DEF CountedInv
<1>10. MarksInv'
  <2>0. pruned' # None
    BY <1>7
  <2> SUFFICES ASSUME ~raced, appending = None
               PROVE Right(entries)' /\ pruned' \in Prober!Recent(entries)'
    BY <1>1, <2>0 DEF MarksInv
  <2>1. Right(entries)
    BY <1>1 DEF MarksInv
  <2>2. pruned' \in Prober!Recent(entries)'
    BY <1>1 DEF Prober!Recent, Prober!Cuts, Prober!Old
  <2>3. Right(entries)'
    <3>1. \A k \in DOMAIN m : m[k].seq <= Stored /\ (m[k].received <=> m[k].seq \in read')
      BY <1>1, <1>4, <1>5, <2>1 DEF Right
    <3>2. \A j, k \in DOMAIN m : j < k => m[j].seq < m[k].seq
      BY <1>4, <1>5, <2>1 DEF Right
    <3>3. \A a \in 1..Stored : a + Window >= probes => \E k \in DOMAIN m : m[k].seq = a
      BY <1>4, <1>5, <2>1 DEF Right
    <3> QED BY <1>1, <1>2, <3>1, <3>2, <3>3 DEF Right
  <2> QED BY <2>2, <2>3
<1> QED BY <1>8, <1>9, <1>10

\* pruneOld stores what it kept of the slice, and its losses become the metrics.
LEMMA UpdateKeeps == ASSUME ProberInv, Prober!Update PROVE ProberInv'
<1> USE ProbeConstants DEF ProberInv
<1>1. /\ pruned # None /\ pruned' = None
      /\ entries' = IF Len(pruned) < Len(entries) THEN pruned ELSE entries
      /\ metrics' = [lost |-> Prober!Lost(pruned), of |-> Len(pruned)]
      /\ raced' = (raced \/ appending # None)
      /\ UNCHANGED <<probing, probes, appending, wire, read, tardy>>
  BY DEF Prober!Update
<1>2. Stored' = Stored /\ Stored \in Int /\ Stored <= MaxProbes
  BY <1>1 DEF Stored, ProbeTypes, Prober!TypeOK
<1>3. pruned \in Seq(Prober!Entries) /\ entries \in Seq(Prober!Entries) /\ entries' \in Seq(Prober!Entries)
      /\ Len(pruned) <= Stored /\ Len(entries') <= Stored
  BY <1>1 DEF ProbeTypes
<1>4. Prober!Lost(pruned) \in 0..Len(pruned) /\ Len(pruned) \in 0..MaxProbes
  BY <1>2, <1>3, LostArePart
<1>5. metrics' \in [lost : 0..MaxProbes, of : 0..MaxProbes]
      /\ metrics'.lost = Prober!Lost(pruned) /\ metrics'.of = Len(pruned)
  BY <1>1, <1>4
<1>6. ProbeTypes'
  <2>1. \A p \in {entries, appending, pruned}' \ {None} :
          \A k \in DOMAIN p : p[k] \in Prober!Entries
    <3>1. \A k \in DOMAIN entries' : entries'[k] \in Prober!Entries
      BY <1>3
    <3> QED BY <1>1, <3>1 DEF ProbeTypes, Prober!TypeOK
  <2>2. raced' \in BOOLEAN
    BY <1>1 DEF ProbeTypes, Prober!TypeOK
  <2>3. Prober!TypeOK'
    BY <1>1, <1>5, <2>1, <2>2 DEF ProbeTypes, Prober!TypeOK
  <2> QED BY <1>1, <1>2, <1>3, <2>3 DEF ProbeTypes
<1>7. CountedInv'
  BY <1>1, <1>3, <1>5, LostArePart DEF CountedInv
<1>8. MarksInv'
  <2> SUFFICES ASSUME ~raced, appending = None PROVE Right(entries)'
    BY <1>1 DEF MarksInv
  <2>1. Right(entries) /\ pruned \in Prober!Recent(entries)
    BY <1>1 DEF MarksInv
  <2>2. PICK i \in 0..Len(entries) :
          i \in Prober!Cuts(entries) /\ pruned = SubSeq(entries, i + 1, Len(entries))
    BY <2>1 DEF Prober!Recent, Prober!Cuts
  <2>3. /\ Len(pruned) = Len(entries) - i /\ DOMAIN pruned = 1..(Len(entries) - i)
        /\ \A k \in 1..(Len(entries) - i) : pruned[k] = entries[k + i]
    BY <1>3, <2>2, CutLeaves
  <2>4. Len(entries) \in Nat /\ DOMAIN entries = 1..Len(entries) /\ i \in Nat /\ i <= Len(entries)
    BY <1>3
  <2>5. /\ DOMAIN entries' = 1..(Len(entries) - i)
        /\ \A k \in 1..(Len(entries) - i) : entries'[k] = entries[k + i]
    <3>1. CASE i = 0
      <4>1. entries' = entries
        BY <1>1, <2>3, <2>4, <3>1
      <4> QED BY <2>4, <3>1, <4>1
    <3>2. CASE i # 0
      <4>1. entries' = pruned
        BY <1>1, <2>3, <2>4, <3>2
      <4> QED BY <2>3, <4>1
    <3> QED BY <3>1, <3>2
  <2>6. \A k \in DOMAIN entries' : k + i \in DOMAIN entries /\ entries'[k] = entries[k + i]
    BY <2>4, <2>5
  <2>7. \A k \in DOMAIN entries' :
          entries'[k].seq <= Stored /\ (entries'[k].received <=> entries'[k].seq \in read)
    BY <2>1, <2>6 DEF Right
  <2>8. \A j, k \in DOMAIN entries' : j < k => entries'[j].seq < entries'[k].seq
    <3> SUFFICES ASSUME NEW j \in DOMAIN entries', NEW k \in DOMAIN entries', j < k
                 PROVE entries'[j].seq < entries'[k].seq
      OBVIOUS
    <3>1. j + i \in DOMAIN entries /\ k + i \in DOMAIN entries /\ j + i < k + i
      BY <2>4, <2>5, <2>6
    <3> QED BY <2>1, <2>6, <3>1 DEF Right
  <2>9. ASSUME NEW n \in 1..Stored, n + Window >= probes
        PROVE \E k \in DOMAIN entries' : entries'[k].seq = n
    <3>1. PICK k \in DOMAIN entries : entries[k].seq = n
      BY <2>1, <2>9 DEF Right
    <3>2. ~Prober!Old(entries[k])
      BY <2>9, <3>1 DEF Prober!Old, ProbeTypes, Prober!TypeOK
    <3>3. k > i
      BY <2>2, <2>4, <3>2 DEF Prober!Cuts
    <3>4. k - i \in 1..(Len(entries) - i) /\ (k - i) + i = k
      BY <2>4, <3>3
    <3> QED BY <2>5, <3>1, <3>4
  <2> QED BY <1>1, <1>2, <2>7, <2>8, <2>9 DEF Right
<1> QED BY <1>6, <1>7, <1>8

\* A step of the prober keeps its invariant.
LEMMA ProberStep == ASSUME ProberInv, Prober!Next PROVE ProberInv'
<1>1. CASE Prober!Stop
  BY <1>1 DEF Prober!Stop, ProberInv, ProbeTypes, Prober!TypeOK, CountedInv, MarksInv, Right,
     Stored, Prober!Recent, Prober!Cuts, Prober!Old
<1> QED BY <1>1, LoadKeeps, StoreKeeps, ReadKeeps, UpdateKeeps DEF Prober!Next

\* The invariant of the prober gives its properties.
LEMMA ProberHolds ==
  ProberInv => Prober!TypeOK /\ Prober!MarksAreRight /\ Prober!LossIsPartial
<1> SUFFICES ASSUME ProberInv
             PROVE Prober!TypeOK /\ Prober!MarksAreRight /\ Prober!LossIsPartial
  OBVIOUS
<1>1. Prober!TypeOK /\ Prober!LossIsPartial
  BY DEF ProberInv, ProbeTypes, CountedInv, Prober!LossIsPartial
<1>2. Prober!MarksAreRight
  <2> SUFFICES ASSUME ~raced, appending = None, pruned = None
               PROVE /\ \A k \in DOMAIN entries : entries[k].received <=> entries[k].seq \in read
                     /\ \A j, k \in DOMAIN entries : j < k => entries[j].seq < entries[k].seq
                     /\ \A n \in (IF probes > Window THEN probes - Window ELSE 1)..probes :
                          \E k \in DOMAIN entries : entries[k].seq = n
    BY DEF Prober!MarksAreRight
  <2>1. Right(entries) /\ Stored = probes /\ probes \in Nat
    BY DEF ProberInv, MarksInv, Stored, ProbeTypes, Prober!TypeOK
  <2>2. \A n \in (IF probes > Window THEN probes - Window ELSE 1)..probes :
          n \in 1..Stored /\ n + Window >= probes
    BY <2>1, ProbeConstants
  <2> QED BY <2>1, <2>2 DEF Right
<1> QED BY <1>1, <1>2

\* The active path is a registered one while calls do not overlap (scheduler.go);
\* an evaluation nothing disturbs settles on a connected relay of least latency
\* (relay/manager.go); each probe of the window counts once, as what it is, and an
\* answer in time counts (probe/loss.go).
THEOREM ActivePathsAreRegistered == Spec => []ActiveIsRegistered
<1> DEFINE Inv == /\ part = "scheduler" => SchedulerInv
                  /\ part = "relays" => ChoiceInv
                  /\ part = "probing" => ProberInv
<1>1. Init => Inv
  BY SchedulerInit, ChoiceInit, ProberInitInv DEF Init
<1>2. Inv /\ [Next]_vars => Inv'
  <2> SUFFICES ASSUME Inv, [Next]_vars PROVE Inv'
    OBVIOUS
  <2>1. ASSUME part' = "scheduler" PROVE SchedulerInv'
    <3>1. CASE Next
      <4>1. part = "scheduler" /\ Scheduler!Next
        BY <2>1, <3>1 DEF Next
      <4> QED BY <4>1, SchedulerStep
    <3>2. CASE UNCHANGED vars
      <4>1. SchedulerInv /\ UNCHANGED schedulerVars
        BY <2>1, <3>2 DEF vars
      <4>2. Scheduler!IInv'
        BY <4>1, Scheduler!Untouched DEF schedulerVars, SchedulerInv
      <4> QED BY <4>1, <4>2 DEF schedulerVars, SchedulerInv, Scheduler!TypeOK
    <3> QED BY <3>1, <3>2
  <2>2. ASSUME part' = "relays" PROVE ChoiceInv'
    <3>1. CASE Next
      <4>1. part = "relays" /\ Choice!Next
        BY <2>2, <3>1 DEF Next
      <4> QED BY <4>1, ChoiceStep
    <3>2. CASE UNCHANGED vars
      <4>1. ChoiceInv /\ UNCHANGED relayVars
        BY <2>2, <3>2 DEF vars
      <4> QED
        BY <4>1 DEF relayVars, ChoiceInv, Choice!TypeOK, DialsInv, CandidatesInv, Connected,
           Choice!SettlesOnBest, Choice!ActiveWasConnected, Choice!Best
    <3> QED BY <3>1, <3>2
  <2>3. ASSUME part' = "probing" PROVE ProberInv'
    <3>1. CASE Next
      <4>1. part = "probing" /\ Prober!Next
        BY <2>3, <3>1 DEF Next
      <4> QED BY <4>1, ProberStep
    <3>2. CASE UNCHANGED vars
      <4>1. ProberInv /\ UNCHANGED probeVars
        BY <2>3, <3>2 DEF vars
      <4> QED
        BY <4>1 DEF probeVars, ProberInv, ProbeTypes, Prober!TypeOK, CountedInv, MarksInv,
           Right, Stored, Prober!Recent, Prober!Cuts, Prober!Old
    <3> QED BY <3>1, <3>2
  <2> QED BY <2>1, <2>2, <2>3
<1>3. Inv => ActiveIsRegistered
  BY ProberHolds DEF ActiveIsRegistered, SchedulerInv, ChoiceInv, Scheduler!IInv,
     Scheduler!LoneInv, Scheduler!ActiveIsRegistered
<1> QED BY <1>1, <1>2, <1>3, PTL DEF Spec

-------------------------------------------------------------------------------
(* The detector of network changes and the observers of the migrator.      *)

Told == [iface : Ifaces, to : Addrs \cup {None}]
MigrationTypes ==
  /\ Migration!TypeOK
  /\ events \in Seq(Told) /\ taken \in [Migration!Loops -> Seq(Told)]
\* Only a loop that is alive handles an event, and without a restart that one
\* outlived there is one loop.
LoopsInv ==
  /\ \A l \in Migration!Loops : taken[l] # <<>> => l \in alive
  /\ ~twice => \A j, k \in alive : j = k
Queued(i) == {k \in DOMAIN events : events[k].iface = i}
Handled(i) == {l \in Migration!Loops : taken[l] # <<>> /\ taken[l][1].iface = i}
\* The newest of what is on its way to the observers is what the detector knows.
FollowsInv ==
  ~twice => \A i \in Ifaces \ blind :
    /\ \A k \in Queued(i) : (\A j \in Queued(i) : j <= k) => events[k].to = known[i]
    /\ Queued(i) = {} => \A l \in Handled(i) : taken[l][1].to = known[i]
    /\ Queued(i) = {} /\ Handled(i) = {} => seen[i] = known[i]
MigrationInv == MigrationTypes /\ LoopsInv /\ FollowsInv

\* What the constants of the migrator are.
LEMMA MigrationConstants ==
  Cap \in Nat \ {0} /\ None \notin Addrs /\ IsFiniteSet(Ifaces)
<1>1. Migration!IsFiniteSet(Ifaces) <=> IsFiniteSet(Ifaces)
  BY DEF Migration!IsFiniteSet, IsFiniteSet
<1> QED
  BY <1>1, ConstantsFit DEF ConstantsFit, Migration!CapAssumption, Migration!NoneAssumption,
     Migration!IfacesAssumption

\* The migrator starts in its invariant.
LEMMA MigrationInit == Migration!Init => MigrationInv
<1> SUFFICES ASSUME Migration!Init PROVE MigrationInv
  OBVIOUS
<1> USE MigrationConstants DEF Migration!Init
<1>1. \A l \in Migration!Loops : taken[l] = <<>>
  OBVIOUS
<1>2. events = <<>> /\ DOMAIN events = {} /\ Len(events) = 0
  OBVIOUS
<1>3. MigrationTypes
  <2>1. events \in Seq(Told) /\ taken \in [Migration!Loops -> Seq(Told)]
    OBVIOUS
  <2>2. Len(events) <= Cap /\ \A l \in Migration!Loops : Len(taken[l]) <= 1
    BY <1>1, <1>2
  <2>3. addresses \in Migration!View /\ known \in Migration!View /\ seen \in Migration!View
    BY DEF Migration!View
  <2>4. \A k \in DOMAIN events : events[k] \in [iface : Ifaces, to : Addrs \cup {None}]
    BY <1>2
  <2>5. /\ migration = "idle" /\ running \in BOOLEAN /\ twice \in BOOLEAN
        /\ blind \subseteq Ifaces /\ alive \subseteq Migration!Loops
    OBVIOUS
  <2> QED BY <2>1, <2>2, <2>3, <2>4, <2>5 DEF MigrationTypes, Migration!TypeOK
<1>4. LoopsInv
  BY <1>1 DEF LoopsInv
<1>5. \A i \in Ifaces : Queued(i) = {} /\ seen[i] = known[i] /\ Handled(i) = {}
  BY <1>1, <1>2 DEF Queued, Handled
<1>6. FollowsInv
  BY <1>5 DEF FollowsInv
<1> QED BY <1>3, <1>4, <1>6 DEF MigrationInv

\* Steps that leave what is on its way alone.
LEMMA QuietStep ==
  ASSUME MigrationInv,
         \/ Migration!NetworkChanges \/ Migration!Stop \/ Migration!Start
         \/ \E l \in Migration!Loops : Migration!LoopExits(l)
  PROVE  MigrationInv'
<1> USE MigrationConstants DEF MigrationInv, MigrationTypes
<1>1. UNCHANGED <<events, taken, seen>>
  BY DEF Migration!NetworkChanges, Migration!Stop, Migration!Start, Migration!LoopExits,
     Migration!loop
<1>2. Migration!TypeOK'
  <2>1. CASE Migration!NetworkChanges
    <3>1. addresses' \in Migration!View
      BY <2>1 DEF Migration!NetworkChanges, Migration!TypeOK, Migration!View
    <3>2. UNCHANGED <<known, events, migration, running, alive, taken, seen, blind, twice>>
      BY <2>1 DEF Migration!NetworkChanges, Migration!loop
    <3> QED BY <3>1, <3>2 DEF Migration!TypeOK
  <2>2. CASE Migration!Start
    <3>1. known' \in Migration!View
      BY <2>2 DEF Migration!Start, Migration!TypeOK, Migration!View
    <3>2. blind' \subseteq Ifaces /\ alive' \subseteq Migration!Loops
      BY <2>2 DEF Migration!Start, Migration!TypeOK
    <3>3. running' \in BOOLEAN /\ twice' \in BOOLEAN /\ migration' = "detecting"
      BY <2>2 DEF Migration!Start, Migration!TypeOK
    <3>4. UNCHANGED <<addresses, events, taken, seen>>
      BY <2>2 DEF Migration!Start
    <3> QED BY <3>1, <3>2, <3>3, <3>4 DEF Migration!TypeOK
  <2>3. CASE Migration!Stop
    BY <2>3 DEF Migration!Stop, Migration!TypeOK, Migration!loop
  <2>4. CASE \E l \in Migration!Loops : Migration!LoopExits(l)
    BY <2>4 DEF Migration!LoopExits, Migration!TypeOK
  <2> QED BY <2>1, <2>2, <2>3, <2>4
<1>3. LoopsInv'
  <2>1. CASE Migration!Start
    <3>1. /\ twice' = (twice \/ alive # {})
          /\ \E l \in Migration!Loops : alive' = alive \cup {l}
      BY <2>1 DEF Migration!Start
    <3> QED BY <1>1, <3>1 DEF LoopsInv
  <2>2. CASE ~Migration!Start
    <3>1. /\ twice' = twice /\ alive' \subseteq alive
          /\ \A l \in alive : l \notin alive' => taken[l] = <<>>
      BY <2>2 DEF Migration!NetworkChanges, Migration!Stop, Migration!LoopExits,
         Migration!loop
    <3> QED BY <1>1, <3>1 DEF LoopsInv
  <2> QED BY <2>1, <2>2
<1>4. FollowsInv'
  <2>1. /\ twice => twice'
        /\ \A i \in Ifaces : i \notin blind' => i \notin blind /\ known'[i] = known[i]
    <3>1. CASE Migration!Start
      <4>1. /\ twice' = (twice \/ alive # {})
            /\ blind' = blind \cup {i \in Ifaces : known'[i] # known[i]}
        BY <3>1 DEF Migration!Start
      <4> QED BY <4>1
    <3>2. CASE ~Migration!Start
      <4>1. UNCHANGED <<known, blind, twice>>
        BY <3>2 DEF Migration!NetworkChanges, Migration!Stop, Migration!LoopExits
      <4> QED BY <4>1
    <3> QED BY <3>1, <3>2
  <2> QED BY <1>1, <2>1 DEF FollowsInv, Queued, Handled
<1> QED BY <1>1, <1>2, <1>3, <1>4

\* A loop takes the first event of the channel into its hand.
LEMMA TakeKeeps ==
  ASSUME MigrationInv, NEW l \in Migration!Loops, Migration!TakeEvent(l) PROVE MigrationInv'
<1> USE MigrationConstants DEF MigrationInv, MigrationTypes
<1> DEFINE e == Head(events)
<1>1. /\ l \in alive /\ taken[l] = <<>> /\ events # <<>>
      /\ taken' = [taken EXCEPT ![l] = <<e>>] /\ events' = Tail(events)
      /\ migration' \in {migration, "migrating"}
      /\ UNCHANGED <<addresses, known, running, alive, seen, blind, twice>>
  BY DEF Migration!TakeEvent
<1>2. /\ e \in Told /\ events' \in Seq(Told) /\ Len(events') = Len(events) - 1
      /\ \A k \in 1..Len(events') : events'[k] = events[k + 1]
      /\ e = events[1] /\ Len(events) \in Nat
      /\ DOMAIN events = 1..Len(events) /\ DOMAIN events' = 1..Len(events')
  BY <1>1, HeadTailProperties
<1> HIDE DEF e
<1>3. /\ taken' \in [Migration!Loops -> Seq(Told)] /\ taken'[l] = <<e>>
      /\ \A k \in Migration!Loops : k # l => taken'[k] = taken[k]
  BY <1>1, <1>2
<1>4. MigrationTypes'
  <2>1. Len(events') <= Cap
    BY <1>2 DEF Migration!TypeOK
  <2>2. \A k \in DOMAIN events' : events'[k] \in [iface : Ifaces, to : Addrs \cup {None}]
    <3>1. \A k \in DOMAIN events' : events'[k] \in Told
      BY <1>2
    <3> QED BY <3>1 DEF Told
  <2>3. \A k \in Migration!Loops : Len(taken'[k]) <= 1
    <3>1. \A k \in Migration!Loops : Len(taken[k]) <= 1
      BY DEF Migration!TypeOK
    <3>2. \A k \in Migration!Loops : k # l => Len(taken'[k]) <= 1
      BY <1>3, <3>1
    <3>3. Len(<<e>>) <= 1
      OBVIOUS
    <3>4. Len(taken'[l]) <= 1
      BY <1>3, <3>3
    <3> QED BY <3>2, <3>4
  <2> QED BY <1>1, <1>2, <1>3, <2>1, <2>2, <2>3 DEF Migration!TypeOK
<1>5. LoopsInv'
  BY <1>1, <1>3 DEF LoopsInv
<1>6. FollowsInv'
  <2> SUFFICES ASSUME ~twice, NEW i \in Ifaces, i \notin blind
               PROVE  /\ \A k \in Queued(i)' :
                           (\A j \in Queued(i)' : j <= k) => events'[k].to = known[i]
                      /\ Queued(i)' = {} => \A k \in Handled(i)' : taken'[k][1].to = known[i]
                      /\ Queued(i)' = {} /\ Handled(i)' = {} => seen[i] = known[i]
    BY <1>1 DEF FollowsInv
  <2>1. /\ \A k \in Queued(i) : (\A j \in Queued(i) : j <= k) => events[k].to = known[i]
        /\ Queued(i) = {} => \A k \in Handled(i) : taken[k][1].to = known[i]
        /\ Queued(i) = {} /\ Handled(i) = {} => seen[i] = known[i]
    BY DEF FollowsInv
  <2>2. \A k \in 1..Len(events') : k \in Queued(i)' <=> k + 1 \in Queued(i)
    BY <1>2 DEF Queued
  <2>3. \A k \in Queued(i) : k = 1 \/ k - 1 \in Queued(i)'
    <3> SUFFICES ASSUME NEW k \in Queued(i), k # 1 PROVE k - 1 \in Queued(i)'
      OBVIOUS
    <3>1. k - 1 \in 1..Len(events') /\ (k - 1) + 1 = k
      BY <1>2 DEF Queued
    <3> QED BY <2>2, <3>1
  <2>4. \A k \in Queued(i)' : k \in 1..Len(events') /\ k + 1 \in Queued(i) /\ k \in Nat
    BY <1>2, <2>2 DEF Queued
  <2>5. ASSUME NEW k \in Queued(i)', \A j \in Queued(i)' : j <= k
        PROVE events'[k].to = known[i]
    <3>1. \A j \in Queued(i) : j \in Nat /\ j <= k + 1
      <4> TAKE j \in Queued(i)
      <4>1. j \in Nat
        BY <1>2 DEF Queued
      <4>2. CASE j = 1
        BY <2>4, <4>2
      <4>3. CASE j # 1
        BY <2>3, <2>4, <2>5, <4>1, <4>3
      <4> QED BY <4>2, <4>3, <4>1
    <3> QED BY <1>2, <2>1, <2>4, <3>1
  <2>6. Handled(i) = {}
    <3>1. \A k \in Migration!Loops : taken[k] = <<>>
      BY <1>1 DEF LoopsInv
    <3> QED BY <3>1 DEF Handled
  <2>7. Handled(i)' = IF e.iface = i THEN {l} ELSE {}
    <3>1. \A k \in Migration!Loops : k # l => taken'[k] = <<>>
      BY <1>1, <1>3 DEF LoopsInv
    <3>2. taken'[l] # <<>> /\ taken'[l][1] = e
      BY <1>3
    <3> QED BY <3>1, <3>2 DEF Handled
  <2>8. ASSUME Queued(i)' = {}, e.iface = i PROVE e.to = known[i]
    <3>1. 1 \in Queued(i)
      BY <1>1, <1>2, <2>8 DEF Queued
    <3>2. \A j \in Queued(i) : j <= 1
      BY <2>3, <2>8
    <3> QED BY <1>2, <2>1, <3>1, <3>2
  <2>9. ASSUME Queued(i)' = {}, e.iface # i PROVE seen[i] = known[i]
    <3>1. Queued(i) = {}
      <4> SUFFICES ASSUME NEW k \in Queued(i) PROVE FALSE
        OBVIOUS
      <4>1. k = 1
        BY <2>3, <2>9
      <4> QED BY <1>2, <2>9, <4>1 DEF Queued
    <3> QED BY <2>1, <2>6, <3>1
  <2> QED BY <1>3, <2>5, <2>7, <2>8, <2>9
<1> QED BY <1>4, <1>5, <1>6

\* A loop handles what it has in its hand.
LEMMA HandleKeeps ==
  ASSUME MigrationInv, NEW l \in Migration!Loops, Migration!HandleEvent(l) PROVE MigrationInv'
<1> USE MigrationConstants DEF MigrationInv, MigrationTypes
<1> DEFINE e == taken[l][1]
<1>1. /\ l \in alive /\ taken[l] # <<>>
      /\ seen' = [seen EXCEPT ![e.iface] = e.to] /\ taken' = [taken EXCEPT ![l] = <<>>]
      /\ migration' = "detecting"
      /\ UNCHANGED <<addresses, known, events, running, alive, blind, twice>>
  BY DEF Migration!HandleEvent, Migration!Busy
<1>2. e \in Told
  <2>1. taken[l] \in Seq(Told)
    OBVIOUS
  <2> QED BY <1>1, <2>1
<1>3. e.iface \in Ifaces /\ e.to \in Addrs \cup {None}
  BY <1>2 DEF Told
<1> HIDE DEF e
<1>4. /\ taken' \in [Migration!Loops -> Seq(Told)] /\ taken'[l] = <<>>
      /\ \A k \in Migration!Loops : k # l => taken'[k] = taken[k]
  BY <1>1
<1>5. seen' \in Migration!View /\ \A i \in Ifaces : seen'[i] = IF i = e.iface THEN e.to ELSE seen[i]
  BY <1>1, <1>3 DEF Migration!TypeOK, Migration!View
<1>6. MigrationTypes'
  <2>1. \A k \in Migration!Loops : Len(taken'[k]) <= 1
    <3>1. \A k \in Migration!Loops : Len(taken[k]) <= 1
      BY DEF Migration!TypeOK
    <3>2. \A k \in Migration!Loops : k # l => Len(taken'[k]) <= 1
      BY <1>4, <3>1
    <3>3. Len(<<>>) <= 1
      OBVIOUS
    <3>4. Len(taken'[l]) <= 1
      BY <1>4, <3>3
    <3> QED BY <3>2, <3>4
  <2> QED BY <1>1, <1>4, <1>5, <2>1 DEF Migration!TypeOK
<1>7. LoopsInv'
  BY <1>1, <1>4 DEF LoopsInv
<1>8. FollowsInv'
  <2> SUFFICES ASSUME ~twice, NEW i \in Ifaces, i \notin blind
               PROVE  /\ \A k \in Queued(i) :
                           (\A j \in Queued(i) : j <= k) => events[k].to = known[i]
                      /\ Queued(i) = {} => \A k \in Handled(i)' : taken'[k][1].to = known[i]
                      /\ Queued(i) = {} /\ Handled(i)' = {} => seen'[i] = known[i]
    BY <1>1 DEF FollowsInv, Queued
  <2>1. /\ \A k \in Queued(i) : (\A j \in Queued(i) : j <= k) => events[k].to = known[i]
        /\ Queued(i) = {} => \A k \in Handled(i) : taken[k][1].to = known[i]
        /\ Queued(i) = {} /\ Handled(i) = {} => seen[i] = known[i]
    BY DEF FollowsInv
  <2>2. \A k \in Migration!Loops : taken'[k] = <<>>
    BY <1>1, <1>4 DEF LoopsInv
  <2>3. \A k \in Migration!Loops : k # l => taken[k] = <<>>
    BY <1>1 DEF LoopsInv
  <2>4. Handled(i)' = {}
    BY <2>2 DEF Handled
  <2>5. Handled(i) = IF e.iface = i THEN {l} ELSE {}
    BY <1>1, <2>3 DEF Handled, e
  <2>6. Queued(i) = {} => seen'[i] = known[i]
    BY <1>5, <2>1, <2>5 DEF e
  <2> QED BY <2>1, <2>4, <2>6
<1> QED BY <1>6, <1>7, <1>8

\* An injective order of the changed interfaces has them all.
LEMMA OrderHasAll ==
  ASSUME NEW q \in Migration!Orders, Migration!TypeOK
  PROVE  LET n == Cardinality(Migration!Changed)
         IN /\ n \in Nat /\ q \in [1..n -> Migration!Changed]
            /\ \A j, k \in 1..n : q[j] = q[k] => j = k
            /\ \A i \in Migration!Changed : \E k \in 1..n : q[k] = i
<1> DEFINE C == Migration!Changed
           n == Cardinality(C)
<1>1. IsFiniteSet(C)
  BY MigrationConstants, FS_Subset DEF Migration!Changed
<1>2. n \in Nat
  BY <1>1, FS_CardinalityType
<1>3. Migration!Cardinality(C) = n
  BY DEF Migration!Cardinality, Cardinality
<1> HIDE DEF C, n
<1>4. q \in [1..n -> C] /\ Migration!IsInjective(q)
  BY <1>3 DEF Migration!Orders, C
<1>5. q \in Injection(1..n, C)
  BY <1>4 DEF Injection, IsInjective, Migration!IsInjective
<1>6. Cardinality(1..n) = n
  <2>1. Cardinality(1..n) = IF 1 > n THEN 0 ELSE n - 1 + 1
    BY <1>2, FS_Interval
  <2> QED BY <1>2, <2>1
<1>7. q \in Surjection(1..n, C)
  BY <1>1, <1>5, <1>6, FS_Injection DEF n
<1>8. \A i \in C : \E k \in 1..n : q[k] = i
  BY <1>7 DEF Surjection
<1>9. \A j, k \in 1..n : q[j] = q[k] => j = k
  BY <1>4 DEF Migration!IsInjective
<1> QED BY <1>2, <1>4, <1>8, <1>9 DEF C, n

\* The detector looks at the interfaces and sends what the channel has room for.
LEMMA PollKeeps == ASSUME MigrationInv, Migration!Poll PROVE MigrationInv'
<1> USE MigrationConstants DEF MigrationInv, MigrationTypes
<1> DEFINE room == Cap - Len(events)
           c == Cardinality(Migration!Changed)
<1>1. PICK q \in Migration!Orders :
        LET fit == {k \in DOMAIN q : k <= room}
        IN /\ events' = events \o [k \in fit |-> Migration!Event(q[k], addresses[q[k]])]
           /\ blind' = (blind \ {q[k] : k \in fit}) \cup {q[k] : k \in DOMAIN q \ fit}
  BY DEF Migration!Poll
<1>2. /\ known' = addresses
      /\ UNCHANGED <<addresses, migration, running, alive, taken, seen, twice>>
  BY DEF Migration!Poll, Migration!loop
<1>3. /\ c \in Nat /\ q \in [1..c -> Migration!Changed]
      /\ \A j, k \in 1..c : q[j] = q[k] => j = k
      /\ \A i \in Migration!Changed : \E k \in 1..c : q[k] = i
  BY OrderHasAll
<1>4. Len(events) \in Nat /\ room \in Nat
  BY DEF Migration!TypeOK
<1> DEFINE m == IF c <= room THEN c ELSE room
           new == [k \in 1..m |-> Migration!Event(q[k], addresses[q[k]])]
<1> HIDE DEF c, room
<1>5. m \in Nat /\ m <= room /\ m <= c /\ {k \in DOMAIN q : k <= room} = 1..m
  BY <1>3, <1>4
<1>6. /\ events' = events \o new
      /\ blind' = (blind \ {q[k] : k \in 1..m}) \cup {q[k] : k \in (1..c) \ (1..m)}
  <2> HIDE DEF m
  <2> QED BY <1>1, <1>3, <1>5
<1> HIDE DEF m
<1>7. Migration!Changed \subseteq Ifaces
      /\ \A i \in Ifaces : addresses[i] \in Addrs \cup {None}
  BY DEF Migration!Changed, Migration!TypeOK, Migration!View
<1>8. \A k \in 1..m : /\ q[k] \in Ifaces /\ new[k] \in Told
                      /\ new[k].iface = q[k] /\ new[k].to = addresses[q[k]]
  BY <1>3, <1>5, <1>7 DEF Migration!Event, Told
<1>9. new \in Seq(Told) /\ Len(new) = m
  <2>1. new \in [1..m -> Told]
    BY <1>8
  <2> HIDE DEF new
  <2> QED BY <1>5, <2>1
<1> HIDE DEF new
<1>10. /\ events' \in Seq(Told) /\ Len(events') = Len(events) + m
       /\ \A k \in 1..(Len(events) + m) :
            events'[k] = IF k <= Len(events) THEN events[k] ELSE new[k - Len(events)]
  BY <1>6, <1>9, ConcatProperties
<1>11. DOMAIN events' = 1..(Len(events) + m) /\ DOMAIN events = 1..Len(events)
  BY <1>10
<1>12. MigrationTypes'
  <2>1. Len(events') <= Cap
    BY <1>4, <1>5, <1>10 DEF room
  <2>2. \A k \in DOMAIN events' : events'[k] \in [iface : Ifaces, to : Addrs \cup {None}]
    <3>1. \A k \in DOMAIN events' : events'[k] \in Told
      BY <1>10
    <3> QED BY <3>1 DEF Told
  <2>3. blind' \subseteq Ifaces
    BY <1>3, <1>6, <1>7 DEF Migration!TypeOK
  <2> QED BY <1>2, <1>10, <2>1, <2>2, <2>3 DEF Migration!TypeOK
<1>13. LoopsInv'
  BY <1>2 DEF LoopsInv
<1>14. FollowsInv'
  <2> SUFFICES ASSUME ~twice, NEW i \in Ifaces, i \notin blind'
               PROVE  /\ \A k \in Queued(i)' :
                           (\A j \in Queued(i)' : j <= k) => events'[k].to = addresses[i]
                      /\ Queued(i)' = {} => \A k \in Handled(i) : taken[k][1].to = addresses[i]
                      /\ Queued(i)' = {} /\ Handled(i) = {} => seen[i] = addresses[i]
    BY <1>2 DEF FollowsInv, Handled
  <2>1. CASE i \in Migration!Changed
    <3>1. PICK k \in 1..c : q[k] = i
      BY <1>3, <2>1
    <3>2. k \in 1..m
      BY <1>6, <3>1
    <3> DEFINE last == Len(events) + k
    <3>3. /\ last \in 1..(Len(events) + m) /\ ~(last <= Len(events))
          /\ last - Len(events) = k
      BY <1>4, <1>5, <3>2
    <3> HIDE DEF last
    <3>4. events'[last].iface = i /\ events'[last].to = addresses[i]
      BY <1>8, <1>10, <3>1, <3>2, <3>3
    <3>5. last \in Queued(i)'
      BY <1>11, <3>3, <3>4 DEF Queued
    <3>6. \A j \in Queued(i)' : j >= last => j = last
      <4> SUFFICES ASSUME NEW j \in Queued(i)', j >= last PROVE j = last
        OBVIOUS
      <4>1. j \in 1..(Len(events) + m) /\ events'[j].iface = i
        BY <1>11 DEF Queued
      <4>2. /\ ~(j <= Len(events)) /\ j - Len(events) \in 1..m
            /\ j - Len(events) \in 1..c /\ k \in 1..c
        BY <1>3, <1>4, <1>5, <3>2, <3>3, <4>1
      <4>3. q[j - Len(events)] = i
        BY <1>8, <1>10, <4>1, <4>2
      <4>4. j - Len(events) = k
        BY <1>3, <3>1, <4>2, <4>3
      <4> QED BY <1>4, <3>3, <4>1, <4>4
    <3>7. \A j \in Queued(i)' : j \in Nat
      BY <1>11 DEF Queued
    <3> QED BY <3>4, <3>5, <3>6, <3>7
  <2>2. CASE i \notin Migration!Changed
    <3>1. addresses[i] = known[i]
      BY <2>2 DEF Migration!Changed
    <3>2. \A k \in 1..m : q[k] # i
      BY <1>3, <1>5, <2>2
    <3>3. i \notin blind
      BY <1>6, <3>2
    <3>4. /\ \A k \in Queued(i) : (\A j \in Queued(i) : j <= k) => events[k].to = known[i]
          /\ Queued(i) = {} => \A k \in Handled(i) : taken[k][1].to = known[i]
          /\ Queued(i) = {} /\ Handled(i) = {} => seen[i] = known[i]
      BY <3>3 DEF FollowsInv
    <3>5. \A k \in 1..(Len(events) + m) : ~(k <= Len(events)) =>
            k - Len(events) \in 1..m
      BY <1>4, <1>5
    <3>6. \A k \in Queued(i)' : k \in 1..Len(events)
      <4> TAKE k \in Queued(i)'
      <4>1. k \in 1..(Len(events) + m) /\ events'[k].iface = i
        BY <1>11 DEF Queued
      <4>2. k <= Len(events)
        BY <1>8, <1>10, <3>2, <3>5, <4>1
      <4> QED BY <1>4, <4>1, <4>2
    <3>7. \A k \in 1..Len(events) : k \in 1..(Len(events) + m) /\ events'[k] = events[k]
      BY <1>4, <1>5, <1>10
    <3>8. Queued(i)' = Queued(i)
      BY <1>11, <3>6, <3>7 DEF Queued
    <3>9. \A k \in Queued(i) : events'[k] = events[k]
      BY <1>11, <3>7 DEF Queued
    <3> QED BY <3>1, <3>4, <3>8, <3>9
  <2> QED BY <2>1, <2>2
<1> QED BY <1>2, <1>12, <1>13, <1>14

\* A step of the migrator keeps its invariant.
LEMMA MigrationStep == ASSUME MigrationInv, Migration!Next PROVE MigrationInv'
BY PollKeeps, QuietStep, TakeKeeps, HandleKeeps DEF Migration!Next

\* A set of places in a sequence has a last one.
LEMMA LastPlace ==
  ASSUME NEW n \in Nat, NEW S \in SUBSET (1..n), S # {}
  PROVE  \E k \in S : \A j \in S : j <= k
<1> DEFINE T == {n - k : k \in S}
<1>1. T \subseteq Nat /\ T # {}
  <2>1. \A k \in 1..n : n - k \in Nat
    OBVIOUS
  <2> QED BY <2>1
<1>2. PICK x \in T : \A y \in T : ~(<<y, x>> \in OpToRel(<, Nat))
  <2> HIDE DEF T
  <2> QED BY <1>1, NatLessThanWellFounded, WFMin
<1>3. \A y \in T : ~(y < x)
  <2> HIDE DEF T
  <2> QED BY <1>1, <1>2 DEF OpToRel
<1>4. PICK k \in S : x = n - k
  OBVIOUS
<1>5. \A j \in S : ~(n - j < n - k)
  BY <1>3, <1>4
<1>6. \A j \in S : j <= k
  <2> TAKE j \in S
  <2>1. j \in Nat /\ k \in Nat /\ ~(n - j < n - k)
    BY <1>5
  <2> QED BY <2>1
<1> QED BY <1>6

\* The invariant of the migrator gives its property.
LEMMA MigrationHolds == MigrationInv => Migration!TypeOK /\ Migration!ViewFollowsEvents
<1> SUFFICES ASSUME MigrationInv, ~twice, NEW i \in Ifaces \ blind
             PROVE  Migration!Told(i) = known[i]
  BY DEF MigrationInv, MigrationTypes, Migration!ViewFollowsEvents
<1>1. /\ \A k \in Queued(i) : (\A j \in Queued(i) : j <= k) => events[k].to = known[i]
      /\ Queued(i) = {} => \A k \in Handled(i) : taken[k][1].to = known[i]
      /\ Queued(i) = {} /\ Handled(i) = {} => seen[i] = known[i]
  BY DEF MigrationInv, FollowsInv
<1>2. Handled(i) = {l \in Migration!Loops : Migration!Busy(l) /\ taken[l][1].iface = i}
  BY DEF Handled, Migration!Busy, MigrationInv, LoopsInv
<1>3. Migration!Told(i) =
        IF Queued(i) # {} THEN events[Migration!Max(Queued(i))].to
        ELSE IF Handled(i) # {} THEN taken[CHOOSE l \in Handled(i) : TRUE][1].to
        ELSE seen[i]
  BY <1>2 DEF Migration!Told, Queued
<1>4. ASSUME Queued(i) # {}
      PROVE  /\ Migration!Max(Queued(i)) \in Queued(i)
             /\ \A j \in Queued(i) : j <= Migration!Max(Queued(i))
  <2>1. Queued(i) \subseteq 1..Len(events) /\ Len(events) \in Nat
    BY DEF Queued, MigrationInv, MigrationTypes
  <2>2. PICK k \in Queued(i) : \A j \in Queued(i) : j <= k
    BY <1>4, <2>1, LastPlace
  <2>3. \A j, l \in Queued(i) : j <= l <=> l >= j
    BY <2>1
  <2> QED BY <2>2, <2>3 DEF Migration!Max
<1>5. (CHOOSE l \in Handled(i) : TRUE) \in Handled(i) \/ Handled(i) = {}
  OBVIOUS
<1> QED BY <1>1, <1>3, <1>4, <1>5

\* What observers have been told, or will be by the event in hand and those in the
\* channel, ends at the address the detector knows, for every interface without a
\* dropped event (migration/detector.go: detectChanges, emitEvent; migration.go:
\* eventLoop, handleEvent).
THEOREM ViewsFollowEvents == Spec => []ViewFollowsEvents
<1> DEFINE Inv == part = "migration" => MigrationInv
<1>1. Init => Inv
  BY MigrationInit DEF Init
<1>2. Inv /\ [Next]_vars => Inv'
  <2> SUFFICES ASSUME Inv, [Next]_vars, part' = "migration" PROVE MigrationInv'
    OBVIOUS
  <2>1. CASE Next
    <3>1. part = "migration" /\ Migration!Next
      BY <2>1 DEF Next
    <3> QED BY <3>1, MigrationStep
  <2>2. CASE UNCHANGED vars
    <3>1. MigrationInv /\ UNCHANGED migrationVars
      BY <2>2 DEF vars
    <3> QED
      BY <3>1 DEF migrationVars, MigrationInv, MigrationTypes, Migration!TypeOK, LoopsInv,
         FollowsInv, Queued, Handled
  <2> QED BY <2>1, <2>2
<1>3. Inv => ViewFollowsEvents
  BY MigrationHolds DEF ViewFollowsEvents
<1> QED BY <1>1, <1>2, <1>3, PTL DEF Spec

-------------------------------------------------------------------------------
(* The mesh and the relay's list of its members.                           *)

MeshTypes ==
  /\ Mesh!TypeOK
  /\ up \in [Nodes -> Seq(Mesh!Msg)] /\ down \in [Nodes -> Seq(Mesh!Msg)]
LinksInv ==
  /\ linked \subseteq served /\ meshPeers \subseteq served
  /\ \A n \in Nodes : up[n] # <<>> => n \in served
\* The join of m has not reached the relay, and what n's membership is told by.
Joins(q) == \E k \in DOMAIN q : q[k].kind = "join"
Lists(n, q) == \E k \in DOMAIN q : q[k].kind = "list" /\ n \in q[k].list
Sends(n, m) == \E k \in Nodes : m \in sending[k].rest /\ n \in sending[k].list
Hears(n, m) == n \in told[m] \/ Joins(up[m]) \/ Lists(n, down[m]) \/ Sends(n, m)
ToldInv == \A n, m \in meshPeers : m \in linked => Hears(n, m)
MeshInv == MeshTypes /\ LinksInv /\ ToldInv

\* What the constants of the mesh are.
LEMMA MeshConstants ==
  Limit \in Nat /\ MaxUp \in Nat \ {0} /\ MaxDown \in Nat /\ MaxJoins \in Nat
  /\ IsFiniteSet(Nodes)
<1>1. Mesh!IsFiniteSet(Nodes) <=> IsFiniteSet(Nodes)
  BY DEF Mesh!IsFiniteSet, IsFiniteSet
<1> QED
  BY <1>1, ConstantsFit DEF ConstantsFit, Mesh!BoundsAssumption, Mesh!NodesAssumption

\* What a message at the end, or one less at the front, changes.
LEMMA MessagesSaid ==
  ASSUME NEW q \in Seq(Mesh!Msg), NEW r \in Seq(Mesh!Msg)
  PROVE  /\ q \o r \in Seq(Mesh!Msg) /\ Len(q \o r) = Len(q) + Len(r)
         /\ Joins(q) \/ Joins(r) => Joins(q \o r)
<1> DEFINE c == q \o r
<1>1. /\ c \in Seq(Mesh!Msg) /\ Len(c) = Len(q) + Len(r) /\ Len(q) \in Nat /\ Len(r) \in Nat
      /\ \A i \in 1..(Len(q) + Len(r)) : c[i] = IF i <= Len(q) THEN q[i] ELSE r[i - Len(q)]
  BY ConcatProperties
<1>2. DOMAIN c = 1..(Len(q) + Len(r)) /\ DOMAIN q = 1..Len(q) /\ DOMAIN r = 1..Len(r)
  BY <1>1
<1> HIDE DEF c
<1>3. ASSUME Joins(q) PROVE Joins(c)
  <2>1. PICK k \in 1..Len(q) : q[k].kind = "join"
    BY <1>2, <1>3 DEF Joins
  <2>2. k \in DOMAIN c /\ c[k] = q[k]
    BY <1>1, <1>2
  <2> QED BY <2>1, <2>2 DEF Joins
<1>4. ASSUME Joins(r) PROVE Joins(c)
  <2>1. PICK k \in 1..Len(r) : r[k].kind = "join"
    BY <1>2, <1>4 DEF Joins
  <2>2. k + Len(q) \in 1..(Len(q) + Len(r)) /\ ~(k + Len(q) <= Len(q))
        /\ (k + Len(q)) - Len(q) = k
    BY <1>1
  <2>3. k + Len(q) \in DOMAIN c /\ c[k + Len(q)] = r[k]
    BY <1>1, <1>2, <2>2
  <2> QED BY <2>1, <2>3 DEF Joins
<1> QED BY <1>1, <1>3, <1>4 DEF c

\* What a connection carries once its first message is taken.
LEMMA MessageTaken ==
  ASSUME NEW q \in Seq(Mesh!Msg), q # <<>>
  PROVE  /\ Head(q) \in Mesh!Msg /\ Tail(q) \in Seq(Mesh!Msg) /\ Len(Tail(q)) <= Len(q)
         /\ Joins(q) => Head(q).kind = "join" \/ Joins(Tail(q))
         /\ \A n : Lists(n, q) =>
              (Head(q).kind = "list" /\ n \in Head(q).list) \/ Lists(n, Tail(q))
<1> DEFINE t == Tail(q)
<1>1. /\ Head(q) \in Mesh!Msg /\ t \in Seq(Mesh!Msg) /\ Len(t) = Len(q) - 1 /\ Len(q) \in Nat
      /\ \A i \in 1..Len(t) : t[i] = q[i + 1]
      /\ Head(q) = q[1] /\ DOMAIN q = 1..Len(q) /\ DOMAIN t = 1..Len(t)
  BY HeadTailProperties
<1> HIDE DEF t
<1>2. \A k \in DOMAIN q : k = 1 \/ (k - 1 \in DOMAIN t /\ t[k - 1] = q[k])
  <2> SUFFICES ASSUME NEW k \in DOMAIN q, k # 1
               PROVE k - 1 \in DOMAIN t /\ t[k - 1] = q[k]
    OBVIOUS
  <2>1. k - 1 \in 1..Len(t) /\ (k - 1) + 1 = k
    BY <1>1
  <2> QED BY <1>1, <2>1
<1>3. Joins(q) => Head(q).kind = "join" \/ Joins(t)
  BY <1>1, <1>2 DEF Joins
<1>4. \A n : Lists(n, q) => (Head(q).kind = "list" /\ n \in Head(q).list) \/ Lists(n, t)
  BY <1>1, <1>2 DEF Lists
<1>5. Len(t) <= Len(q)
  BY <1>1
<1> QED BY <1>1, <1>3, <1>4, <1>5 DEF t

\* What a connection carries once a list is written to it.
LEMMA ListAppended ==
  ASSUME NEW q \in Seq(Mesh!Msg), NEW list \in SUBSET Nodes
  PROVE  LET c == Append(q, [kind |-> "list", list |-> list])
         IN /\ c \in Seq(Mesh!Msg) /\ Len(c) = Len(q) + 1
            /\ \A n : Lists(n, q) \/ n \in list => Lists(n, c)
<1> DEFINE e == [kind |-> "list", list |-> list]
           c == Append(q, e)
<1>1. e \in Mesh!Msg /\ e.kind = "list" /\ e.list = list
  BY DEF Mesh!Msg
<1> HIDE DEF e
<1>2. /\ c \in Seq(Mesh!Msg) /\ Len(c) = Len(q) + 1 /\ Len(q) \in Nat
      /\ DOMAIN c = 1..(Len(q) + 1) /\ DOMAIN q = 1..Len(q)
      /\ \A k \in 1..Len(q) : c[k] = q[k]
      /\ c[Len(q) + 1] = e
  BY <1>1
<1> HIDE DEF c
<1>3. ASSUME NEW n, Lists(n, q) PROVE Lists(n, c)
  <2>1. PICK k \in 1..Len(q) : q[k].kind = "list" /\ n \in q[k].list
    BY <1>2, <1>3 DEF Lists
  <2>2. k \in DOMAIN c /\ c[k] = q[k]
    BY <1>2
  <2> QED BY <2>1, <2>2 DEF Lists
<1>4. ASSUME NEW n, n \in list PROVE Lists(n, c)
  <2>1. Len(q) + 1 \in DOMAIN c
    BY <1>2
  <2> QED BY <1>1, <1>2, <1>4, <2>1 DEF Lists
<1> QED BY <1>2, <1>3, <1>4 DEF c, e

\* A set of pings in some order.
LEMMA PingsInOrder ==
  ASSUME NEW P \in SUBSET Nodes
  PROVE  LET q == Mesh!SetToSeq({[kind |-> "ping", peer |-> p] : p \in P})
         IN q \in Seq(Mesh!Msg) /\ Len(q) = Cardinality(P)
<1> DEFINE T == {[kind |-> "ping", peer |-> p] : p \in P}
           f == [p \in P |-> [kind |-> "ping", peer |-> p]]
<1>1. IsFiniteSet(P)
  BY MeshConstants, FS_Subset
<1>2. f \in Bijection(P, T)
  <2>1. \A p, r \in P : [kind |-> "ping", peer |-> p] = [kind |-> "ping", peer |-> r] => p = r
    <3> SUFFICES ASSUME NEW p \in P, NEW r \in P,
                        [kind |-> "ping", peer |-> p] = [kind |-> "ping", peer |-> r]
                 PROVE p = r
      OBVIOUS
    <3>1. [kind |-> "ping", peer |-> p].peer = p /\ [kind |-> "ping", peer |-> r].peer = r
      OBVIOUS
    <3> QED BY <3>1
  <2>2. f \in [P -> T] /\ \A p \in P : f[p] = [kind |-> "ping", peer |-> p]
    OBVIOUS
  <2>3. \A t \in T : \E p \in P : f[p] = t
    BY <2>2
  <2> HIDE DEF f, T
  <2>4. f \in Injection(P, T)
    <3>1. \A p, r \in P : f[p] = f[r] => p = r
      BY <2>1, <2>2
    <3> QED BY <2>2, <3>1 DEF Injection, IsInjective
  <2>5. f \in Surjection(P, T)
    BY <2>2, <2>3 DEF Surjection
  <2> QED BY <2>4, <2>5 DEF Bijection
<1>3. T \subseteq Mesh!Msg
  BY DEF Mesh!Msg
<1> HIDE DEF T, f
<1>4. IsFiniteSet(T) /\ Cardinality(T) = Cardinality(P)
  <2>1. ExistsBijection(P, T)
    BY <1>2 DEF ExistsBijection
  <2> QED BY <1>1, <2>1, FS_Bijection
<1> DEFINE n == Cardinality(T)
           q == Mesh!SetToSeq(T)
<1>5. n \in Nat /\ ExistsBijection(1..n, T)
  BY <1>4, FS_CardinalityType
<1>6. PICK g \in Bijection(1..n, T) : TRUE
  BY <1>5 DEF ExistsBijection
<1>7. g \in [1..n -> T] /\ Mesh!IsInjective(g)
  BY <1>6 DEF Bijection, Injection, IsInjective, Mesh!IsInjective
<1>8. q = CHOOSE h \in [1..n -> T] : Mesh!IsInjective(h)
  <2>1. Mesh!Cardinality(T) = n
    BY DEF Mesh!Cardinality, Cardinality
  <2> HIDE DEF n
  <2> QED BY <2>1 DEF Mesh!SetToSeq
<1>9. q \in [1..n -> T]
  BY <1>7, <1>8
<1> HIDE DEF n, q
<1>10. q \in [1..n -> Mesh!Msg]
  BY <1>3, <1>9
<1>11. q \in Seq(Mesh!Msg) /\ Len(q) = n
  BY <1>5, <1>10
<1> QED BY <1>4, <1>11 DEF n, q, T

\* The mesh starts in its invariant.
LEMMA MeshInit == Mesh!Init => MeshInv
<1> SUFFICES ASSUME Mesh!Init PROVE MeshInv
  OBVIOUS
<1> USE MeshConstants DEF Mesh!Init
<1>1. \A n \in Nodes : up[n] = <<>> /\ down[n] = <<>>
  OBVIOUS
<1>2. up \in [Nodes -> Seq(Mesh!Msg)] /\ down \in [Nodes -> Seq(Mesh!Msg)]
  OBVIOUS
<1>3. \A n \in Nodes : Mesh!Range(up[n]) = {} /\ Mesh!Range(down[n]) = {}
  BY <1>1 DEF Mesh!Range
<1>4. \A n \in Nodes : Len(up[n]) <= MaxUp /\ Len(down[n]) <= MaxDown
  BY <1>1
<1>5. Mesh!TypeOK
  BY <1>3, <1>4 DEF Mesh!TypeOK, Mesh!Sending, Mesh!Quiet
<1> QED BY <1>2, <1>5 DEF MeshInv, MeshTypes, LinksInv, ToldInv

\* What is known of a queue, one by one.
LEMMA QueuesTyped ==
  ASSUME up \in [Nodes -> Seq(Mesh!Msg)], down \in [Nodes -> Seq(Mesh!Msg)]
  PROVE  \A n \in Nodes : Mesh!Range(up[n]) \cup Mesh!Range(down[n]) \subseteq Mesh!Msg
BY DEF Mesh!Range

\* A connection comes or is lost.
LEMMA WireKeeps ==
  ASSUME MeshInv, NEW n \in Nodes, Mesh!Link(n) \/ Mesh!Lose(n) PROVE MeshInv'
<1> USE MeshConstants DEF MeshInv, MeshTypes
<1>1. UNCHANGED <<meshPeers, sending, told, up>>
  BY DEF Mesh!Link, Mesh!Lose, Mesh!relay, Mesh!router
<1>2. /\ down' \in [Nodes -> Seq(Mesh!Msg)]
      /\ \A m \in Nodes : down'[m] = down[m] \/ (m = n /\ down'[m] = <<>>)
      /\ \A m \in linked' : down'[m] = down[m]
  <2>1. CASE Mesh!Link(n)
    BY <2>1 DEF Mesh!Link, Mesh!TypeOK
  <2>2. CASE Mesh!Lose(n)
    <3>1. <<>> \in Seq(Mesh!Msg)
      OBVIOUS
    <3>2. down' = [down EXCEPT ![n] = <<>>] /\ n \notin linked' /\ linked' \subseteq Nodes
      BY <2>2 DEF Mesh!Lose, Mesh!TypeOK
    <3>3. \A m \in Nodes : down'[m] = IF m = n THEN <<>> ELSE down[m]
      BY <3>2
    <3> QED BY <3>1, <3>2, <3>3
  <2> QED BY <2>1, <2>2
<1>3. MeshTypes'
  <2>1. \A m \in Nodes : Len(up'[m]) <= MaxUp /\ Len(down'[m]) <= MaxDown
    BY <1>1, <1>2 DEF Mesh!TypeOK
  <2>2. \A m \in Nodes : Mesh!Range(up'[m]) \cup Mesh!Range(down'[m]) \subseteq Mesh!Msg
    BY <1>1, <1>2 DEF Mesh!Range
  <2>3. linked' \subseteq Nodes /\ served' \subseteq Nodes
    BY DEF Mesh!Link, Mesh!Lose, Mesh!TypeOK
  <2>4. UNCHANGED <<meshPeers, sending, Mesh!router>>
    BY DEF Mesh!Link, Mesh!Lose, Mesh!relay
  <2> QED BY <1>1, <1>2, <2>1, <2>2, <2>3, <2>4 DEF Mesh!TypeOK, Mesh!router
<1>4. LinksInv'
  BY <1>1 DEF Mesh!Link, Mesh!Lose, LinksInv
<1>5. ToldInv'
  <2> SUFFICES ASSUME NEW a \in meshPeers, NEW m \in meshPeers, m \in linked'
               PROVE Hears(a, m)'
    BY <1>1 DEF ToldInv
  <2>1. m \in linked
    BY DEF Mesh!Link, Mesh!Lose, LinksInv
  <2>2. Hears(a, m) /\ down'[m] = down[m]
    BY <1>2, <2>1 DEF ToldInv
  <2> QED BY <1>1, <2>2 DEF Hears, Joins, Lists, Sends
<1> QED BY <1>3, <1>4, <1>5

\* The relay reads a message of a router.
LEMMA RelayReads ==
  ASSUME MeshInv, NEW n \in Nodes,
         \/ Mesh!RegisterMeshPeer(n) \/ Mesh!UnregisterMeshPeer(n)
         \/ Mesh!ForwardP2PMessage(n)
  PROVE  MeshInv'
<1> USE MeshConstants DEF MeshInv, MeshTypes
<1> DEFINE q == up[n]
<1>1. /\ q # <<>> /\ sending[n] = Mesh!Quiet /\ up' = [up EXCEPT ![n] = Tail(@)]
      /\ UNCHANGED <<linked, served, down, Mesh!router>>
  BY DEF Mesh!RegisterMeshPeer, Mesh!UnregisterMeshPeer, Mesh!ForwardP2PMessage, Mesh!Reads
<1>2. /\ q \in Seq(Mesh!Msg) /\ Head(q) \in Mesh!Msg /\ Tail(q) \in Seq(Mesh!Msg)
      /\ Len(Tail(q)) <= Len(q) /\ Len(Tail(q)) \in Nat /\ Len(q) \in Nat /\ Len(q) <= MaxUp
      /\ Joins(q) => Head(q).kind = "join" \/ Joins(Tail(q))
  BY <1>1, MessageTaken DEF Mesh!TypeOK
<1>3. /\ up' \in [Nodes -> Seq(Mesh!Msg)] /\ up'[n] = Tail(q)
      /\ \A m \in Nodes : m # n => up'[m] = up[m]
  BY <1>1, <1>2
<1>4. Mesh!Quiet = [list |-> {}, rest |-> {}] /\ Mesh!Quiet.rest = {}
  BY DEF Mesh!Quiet
<1>5. PICK s \in Mesh!Sending : sending' = [sending EXCEPT ![n] = s]
  <2>1. meshPeers' \subseteq Nodes
    BY DEF Mesh!RegisterMeshPeer, Mesh!UnregisterMeshPeer, Mesh!ForwardP2PMessage,
       Mesh!Unregister, Mesh!relay, Mesh!TypeOK
  <2>2. [list |-> meshPeers', rest |-> meshPeers'] \in Mesh!Sending /\ Mesh!Quiet \in Mesh!Sending
    BY <2>1 DEF Mesh!Sending, Mesh!Quiet
  <2>3. \/ sending' = [sending EXCEPT ![n] = [list |-> meshPeers', rest |-> meshPeers']]
        \/ sending' = sending
    BY DEF Mesh!RegisterMeshPeer, Mesh!UnregisterMeshPeer, Mesh!ForwardP2PMessage,
       Mesh!Unregister, Mesh!relay, Mesh!Broadcast
  <2>4. sending = [sending EXCEPT ![n] = Mesh!Quiet]
    BY <1>1 DEF Mesh!TypeOK
  <2> QED BY <2>2, <2>3, <2>4
<1>6. MeshTypes'
  <2>1. \A m \in Nodes : Len(up'[m]) <= MaxUp /\ Len(down'[m]) <= MaxDown
    BY <1>1, <1>2, <1>3 DEF Mesh!TypeOK
  <2>2. \A m \in Nodes : Mesh!Range(up'[m]) \cup Mesh!Range(down'[m]) \subseteq Mesh!Msg
    BY <1>1, <1>3 DEF Mesh!Range
  <2>3. meshPeers' \subseteq Nodes
    BY DEF Mesh!RegisterMeshPeer, Mesh!UnregisterMeshPeer, Mesh!ForwardP2PMessage,
       Mesh!Unregister, Mesh!relay, Mesh!TypeOK
  <2>4. sending' \in [Nodes -> Mesh!Sending]
    BY <1>5 DEF Mesh!TypeOK
  <2> QED BY <1>1, <1>3, <2>1, <2>2, <2>3, <2>4 DEF Mesh!TypeOK, Mesh!router
\* Nothing that was being sent is overwritten: n's reader was quiet.
<1>7. \A a, m : Sends(a, m) => Sends(a, m)'
  <2> SUFFICES ASSUME NEW a, NEW m, NEW k \in Nodes, m \in sending[k].rest, a \in sending[k].list
               PROVE Sends(a, m)'
    BY DEF Sends
  <2>1. k # n
    BY <1>1, <1>4
  <2>2. sending'[k] = sending[k]
    BY <1>5, <2>1 DEF Mesh!TypeOK
  <2> QED BY <2>2 DEF Sends
<1>8. CASE Head(q).kind # "join"
  <2>1. meshPeers' \subseteq meshPeers
    BY <1>8 DEF Mesh!RegisterMeshPeer, Mesh!UnregisterMeshPeer, Mesh!ForwardP2PMessage,
       Mesh!Unregister, Mesh!relay
  <2>2. ASSUME NEW a \in meshPeers', NEW m \in meshPeers', m \in linked, Hears(a, m)
        PROVE Hears(a, m)'
    <3>1. Joins(up[m]) => Joins(up'[m])
      BY <1>2, <1>3, <1>8, <2>1 DEF LinksInv, Mesh!TypeOK
    <3>2. a \in told[m] => a \in told'[m]
      BY <1>1 DEF Mesh!router
    <3>3. Joins(up[m]) => Joins(up[m])'
      BY <3>1 DEF Joins
    <3>4. Lists(a, down[m]) => Lists(a, down[m])'
      BY <1>1 DEF Lists
    <3> QED BY <1>7, <2>2, <3>2, <3>3, <3>4 DEF Hears
  <2>3. ToldInv'
    BY <1>1, <2>1, <2>2 DEF ToldInv
  <2>4. \A m \in Nodes : up'[m] # <<>> => m \in served
    BY <1>1, <1>3 DEF LinksInv
  <2> QED BY <1>1, <1>6, <2>1, <2>3, <2>4 DEF LinksInv
<1>9. CASE Head(q).kind = "join"
  <2>1. /\ meshPeers' = meshPeers \cup {n}
        /\ sending' = [sending EXCEPT ![n] = [list |-> meshPeers', rest |-> meshPeers']]
    BY <1>9 DEF Mesh!RegisterMeshPeer, Mesh!UnregisterMeshPeer, Mesh!ForwardP2PMessage,
       Mesh!Broadcast
  <2>2. sending'[n].list = meshPeers' /\ sending'[n].rest = meshPeers'
    BY <2>1 DEF Mesh!TypeOK
  <2>3. \A a, m \in meshPeers' : Sends(a, m)'
    BY <2>2 DEF Sends
  <2>4. ToldInv'
    BY <2>3 DEF ToldInv, Hears
  <2>5. n \in served
    BY <1>1 DEF LinksInv
  <2>6. \A m \in Nodes : up'[m] # <<>> => m \in served
    BY <1>1, <1>3 DEF LinksInv
  <2> QED BY <1>1, <1>6, <2>1, <2>4, <2>5, <2>6 DEF LinksInv
<1> QED BY <1>8, <1>9

\* The relay writes the list of members to one of those it goes to.
LEMMA SendPeerListKeeps ==
  ASSUME MeshInv, NEW n \in Nodes, NEW m \in Nodes, Mesh!SendPeerList(n, m) PROVE MeshInv'
<1> USE MeshConstants DEF MeshInv, MeshTypes
<1> DEFINE list == sending[n].list
<1>1. /\ m \in sending[n].rest
      /\ UNCHANGED <<linked, served, up, meshPeers, Mesh!router>>
  BY DEF Mesh!SendPeerList
<1>2. PICK l \in SUBSET Nodes, r \in SUBSET Nodes : sending[n] = [list |-> l, rest |-> r]
  BY DEF Mesh!TypeOK, Mesh!Sending
<1>3. list = l /\ sending[n].rest = r
  BY <1>2
<1> DEFINE s == IF sending[n].rest = {m} THEN Mesh!Quiet
                ELSE [list |-> sending[n].list, rest |-> sending[n].rest \ {m}]
<1>b. sending' = [sending EXCEPT ![n] = s]
  BY DEF Mesh!SendPeerList
<1>c. s \in Mesh!Sending /\ r \ {m} = s.rest /\ (s.rest # {} => s.list = l)
  BY <1>3 DEF Mesh!Quiet, Mesh!Sending
<1> HIDE DEF s
<1>4. /\ s \in Mesh!Sending /\ sending' = [sending EXCEPT ![n] = s]
      /\ r \ {m} = s.rest /\ (s.rest # {} => s.list = l)
  BY <1>b, <1>c
<1>5. sending' \in [Nodes -> Mesh!Sending] /\ sending'[n] = s
      /\ \A k \in Nodes : k # n => sending'[k] = sending[k]
  BY <1>4 DEF Mesh!TypeOK
<1>6. /\ down' \in [Nodes -> Seq(Mesh!Msg)]
      /\ \A k \in Nodes : Len(down'[k]) <= MaxDown
      /\ \A a, k \in Nodes : Lists(a, down[k]) => Lists(a, down'[k])
      /\ m \in linked => \A a \in l : Lists(a, down'[m])
  <2>1. CASE m \in served /\ m \in linked
    <3> DEFINE c == Append(down[m], [kind |-> "list", list |-> l])
    <3>1. Len(down[m]) < MaxDown /\ down' = [down EXCEPT ![m] = c]
      BY <1>3, <2>1 DEF Mesh!SendPeerList
    <3>2. /\ c \in Seq(Mesh!Msg) /\ Len(c) = Len(down[m]) + 1
          /\ \A a : Lists(a, down[m]) \/ a \in l => Lists(a, c)
      BY ListAppended
    <3>3. Len(down[m]) \in Nat
      OBVIOUS
    <3> HIDE DEF c
    <3>4. down'[m] = c /\ \A k \in Nodes : k # m => down'[k] = down[k]
      BY <3>1
    <3>5. down' \in [Nodes -> Seq(Mesh!Msg)]
      BY <3>1, <3>2
    <3>6. \A k \in Nodes : Len(down'[k]) <= MaxDown
      BY <3>1, <3>2, <3>3, <3>4 DEF Mesh!TypeOK
    <3>7. \A a, k \in Nodes : Lists(a, down[k]) => Lists(a, down'[k])
      BY <3>2, <3>4
    <3> QED BY <3>2, <3>4, <3>5, <3>6, <3>7
  <2>2. CASE ~(m \in served /\ m \in linked)
    <3>1. down' = down
      BY <2>2 DEF Mesh!SendPeerList
    <3> QED BY <2>2, <3>1 DEF Mesh!TypeOK, LinksInv
  <2> QED BY <2>1, <2>2
<1>7. MeshTypes'
  <2>1. \A k \in Nodes : Mesh!Range(up'[k]) \cup Mesh!Range(down'[k]) \subseteq Mesh!Msg
    BY <1>1, <1>6 DEF Mesh!Range
  <2> QED BY <1>1, <1>5, <1>6, <2>1 DEF Mesh!TypeOK, Mesh!router
<1>8. LinksInv'
  BY <1>1 DEF LinksInv
<1>9. ToldInv'
  <2> SUFFICES ASSUME NEW a \in meshPeers, NEW b \in meshPeers, b \in linked
               PROVE Hears(a, b)'
    BY <1>1 DEF ToldInv
  <2>0. a \in Nodes /\ b \in Nodes /\ Hears(a, b)
    BY DEF ToldInv, Mesh!TypeOK
  <2>1. Lists(a, down'[b]) => Lists(a, down[b])'
    BY DEF Lists
  <2>2. CASE a \in told[b] \/ Joins(up[b]) \/ Lists(a, down[b])
    BY <1>1, <1>6, <2>0, <2>1, <2>2 DEF Hears, Joins, Mesh!router
  <2>3. CASE Sends(a, b)
    <3>1. PICK k \in Nodes : b \in sending[k].rest /\ a \in sending[k].list
      BY <2>3 DEF Sends
    <3>2. CASE k = n /\ b = m
      BY <1>3, <1>6, <2>1, <3>1, <3>2 DEF Hears
    <3>3. CASE ~(k = n /\ b = m)
      <4>1. b \in sending'[k].rest /\ a \in sending'[k].list
        BY <1>3, <1>4, <1>5, <3>1, <3>3
      <4> QED BY <4>1 DEF Hears, Sends
    <3> QED BY <3>2, <3>3
  <2> QED BY <2>0, <2>2, <2>3 DEF Hears
<1> QED BY <1>7, <1>8, <1>9

\* The relay cleans up after a connection.
LEMMA CleanupKeeps ==
  ASSUME MeshInv, NEW n \in Nodes, Mesh!Cleanup(n) PROVE MeshInv'
<1> USE MeshConstants DEF MeshInv, MeshTypes
<1>1. /\ n \notin linked /\ up[n] = <<>> /\ sending[n] = Mesh!Quiet
      /\ meshPeers' = meshPeers \ {n} /\ served' = served \ {n}
      /\ UNCHANGED <<linked, up, down, Mesh!router>>
      /\ \/ sending' = [sending EXCEPT ![n] = [list |-> meshPeers', rest |-> meshPeers']]
         \/ sending' = sending
  BY DEF Mesh!Cleanup, Mesh!Unregister, Mesh!Broadcast
<1>2. MeshTypes'
  <2>1. [list |-> meshPeers', rest |-> meshPeers'] \in Mesh!Sending
    BY <1>1 DEF Mesh!Sending, Mesh!TypeOK
  <2>2. sending' \in [Nodes -> Mesh!Sending]
    BY <1>1, <2>1 DEF Mesh!TypeOK
  <2>3. \A k \in Nodes : Mesh!Range(up'[k]) \cup Mesh!Range(down'[k]) \subseteq Mesh!Msg
    BY <1>1 DEF Mesh!Range
  <2> QED BY <1>1, <2>2, <2>3 DEF Mesh!TypeOK, Mesh!router
<1>3. LinksInv'
  BY <1>1 DEF LinksInv
<1>4. ToldInv'
  <2> SUFFICES ASSUME NEW a \in meshPeers', NEW b \in meshPeers', b \in linked
               PROVE Hears(a, b)'
    BY <1>1 DEF ToldInv
  <2>1. Hears(a, b)
    BY <1>1 DEF ToldInv
  <2>2. Sends(a, b) => Sends(a, b)'
    <3> SUFFICES ASSUME NEW k \in Nodes, b \in sending[k].rest, a \in sending[k].list
                 PROVE Sends(a, b)'
      BY DEF Sends
    <3>1. k # n
      BY <1>1 DEF Mesh!Quiet
    <3>2. sending'[k] = sending[k]
      BY <1>1, <3>1 DEF Mesh!TypeOK
    <3> QED BY <3>2 DEF Sends
  <2> QED BY <1>1, <2>1, <2>2 DEF Hears, Joins, Lists, Mesh!router
<1> QED BY <1>2, <1>3, <1>4

\* What a router says reaches the end of its queue while it is connected.
LEMMA SayKeeps ==
  ASSUME MeshInv, NEW n \in Nodes, NEW msgs \in Seq(Mesh!Msg), Mesh!Say(n, msgs),
         n \in linked => Len(up[n]) + Len(msgs) <= MaxUp,
         UNCHANGED <<linked, served, down, Mesh!relay>>,
         looping' \subseteq Nodes, state' \in [Nodes -> {"offline", "connected"}],
         peers' \in [Nodes -> SUBSET Nodes], routes' \in [Nodes -> SUBSET Nodes],
         offered' \in [Nodes -> SUBSET Nodes], age' \in [Nodes -> [Nodes -> 0..Limit]],
         joins' \in [Nodes -> 0..MaxJoins],
         \/ told' = told
         \/ told' = [told EXCEPT ![n] = {}] /\ Joins(msgs) /\ n \in linked
  PROVE  MeshInv'
<1> USE MeshConstants DEF MeshInv, MeshTypes
<1>1. /\ up[n] \o msgs \in Seq(Mesh!Msg) /\ Len(up[n] \o msgs) = Len(up[n]) + Len(msgs)
      /\ Joins(up[n]) \/ Joins(msgs) => Joins(up[n] \o msgs)
  BY MessagesSaid
<1>2. /\ up' \in [Nodes -> Seq(Mesh!Msg)]
      /\ up'[n] = IF n \in linked THEN up[n] \o msgs ELSE up[n]
      /\ \A m \in Nodes : m # n => up'[m] = up[m]
  BY <1>1 DEF Mesh!Say
<1>3. \A m \in Nodes : Len(up'[m]) <= MaxUp
  BY <1>1, <1>2 DEF Mesh!TypeOK
<1>4. told' \in [Nodes -> SUBSET Nodes]
  BY DEF Mesh!TypeOK
<1>5. MeshTypes'
  <2>1. \A m \in Nodes : Mesh!Range(up'[m]) \cup Mesh!Range(down'[m]) \subseteq Mesh!Msg
    BY <1>2 DEF Mesh!Range
  <2> QED BY <1>2, <1>3, <1>4, <2>1 DEF Mesh!TypeOK, Mesh!relay
<1>6. LinksInv'
  BY <1>2 DEF LinksInv, Mesh!relay
<1>7. ToldInv'
  <2> SUFFICES ASSUME NEW a \in meshPeers, NEW b \in meshPeers, b \in linked
               PROVE Hears(a, b)'
    BY DEF ToldInv, Mesh!relay
  <2>1. Hears(a, b) /\ b \in Nodes
    BY DEF ToldInv, Mesh!TypeOK
  <2>2. Joins(up[b]) => Joins(up'[b])
    BY <1>1, <1>2, <2>1
  <2>3. CASE told' = told
    BY <2>1, <2>2, <2>3 DEF Hears, Joins, Lists, Sends, Mesh!relay
  <2>4. CASE told' = [told EXCEPT ![n] = {}] /\ Joins(msgs) /\ n \in linked
    <3>1. CASE b = n
      <4>1. Joins(up'[b])
        BY <1>1, <1>2, <2>4, <3>1
      <4> QED BY <4>1 DEF Hears, Joins
    <3>2. CASE b # n
      <4>1. told'[b] = told[b]
        BY <2>1, <2>4, <3>2 DEF Mesh!TypeOK
      <4> QED BY <2>1, <2>2, <4>1 DEF Hears, Joins, Lists, Sends, Mesh!relay
    <3> QED BY <3>1, <3>2
  <2> QED BY <2>3, <2>4
<1> QED BY <1>5, <1>6, <1>7

\* Joining, leaving and pinging.
LEMMA RouterSays ==
  ASSUME MeshInv, NEW n \in Nodes, Mesh!JoinMesh(n) \/ Mesh!LeaveMesh(n) \/ Mesh!Round(n)
  PROVE  MeshInv'
<1>t. Mesh!TypeOK /\ up \in [Nodes -> Seq(Mesh!Msg)]
  BY DEF MeshInv, MeshTypes
<1>1. CASE Mesh!JoinMesh(n)
  <2> DEFINE e == [kind |-> "join"]
             msgs == <<e>>
  <2>1. e \in Mesh!Msg
    BY DEF Mesh!Msg
  <2>2. msgs \in Seq(Mesh!Msg) /\ Len(msgs) = 1 /\ Joins(msgs)
    <3>1. 1 \in DOMAIN msgs /\ msgs[1].kind = "join"
      OBVIOUS
    <3> QED BY <2>1, <3>1 DEF Joins
  <2> HIDE DEF msgs
  <2>3. /\ Mesh!Say(n, msgs) /\ n \in linked /\ Len(up[n]) < MaxUp
        /\ told' = [told EXCEPT ![n] = {}]
        /\ joins' = [joins EXCEPT ![n] = @ + 1] /\ joins[n] < MaxJoins
        /\ looping' = looping \cup {n} /\ state' = [state EXCEPT ![n] = "connected"]
        /\ UNCHANGED <<linked, served, down, Mesh!relay, peers, age, routes, offered>>
    BY <1>1 DEF Mesh!JoinMesh, Mesh!CanSay, msgs
  <2>4. Len(up[n]) + Len(msgs) <= MaxUp
    BY <1>t, <2>2, <2>3, MeshConstants
  <2>5. joins' \in [Nodes -> 0..MaxJoins]
    BY <1>t, <2>3, MeshConstants DEF Mesh!TypeOK
  <2> HIDE DEF e
  <2>6. /\ looping' \subseteq Nodes /\ state' \in [Nodes -> {"offline", "connected"}]
        /\ peers' \in [Nodes -> SUBSET Nodes] /\ routes' \in [Nodes -> SUBSET Nodes]
        /\ offered' \in [Nodes -> SUBSET Nodes] /\ age' \in [Nodes -> [Nodes -> 0..Limit]]
    BY <1>t, <2>3 DEF Mesh!TypeOK
  <2> QED BY <2>2, <2>3, <2>4, <2>5, <2>6, SayKeeps
<1>2. CASE Mesh!LeaveMesh(n)
  <2> DEFINE e == [kind |-> "leave"]
             msgs == <<e>>
  <2>1. e \in Mesh!Msg
    BY DEF Mesh!Msg
  <2>2. msgs \in Seq(Mesh!Msg) /\ Len(msgs) = 1
    BY <2>1
  <2> HIDE DEF msgs
  <2>3. /\ Mesh!Say(n, msgs) /\ (n \in linked => Len(up[n]) < MaxUp)
        /\ looping' = looping \ {n} /\ state' = [state EXCEPT ![n] = "offline"]
        /\ peers' = [peers EXCEPT ![n] = {}] /\ routes' = [routes EXCEPT ![n] = {}]
        /\ offered' = [offered EXCEPT ![n] = {}]
        /\ age' = [age EXCEPT ![n] = [p \in Nodes |-> 0]]
        /\ UNCHANGED <<linked, served, down, Mesh!relay, joins, told>>
    BY <1>2 DEF Mesh!LeaveMesh, Mesh!CanSay, msgs
  <2>4. n \in linked => Len(up[n]) + Len(msgs) <= MaxUp
    BY <1>t, <2>2, <2>3, MeshConstants
  <2>5. age' \in [Nodes -> [Nodes -> 0..Limit]]
    BY <1>t, <2>3, MeshConstants DEF Mesh!TypeOK
  <2> HIDE DEF e
  <2>6. /\ looping' \subseteq Nodes /\ state' \in [Nodes -> {"offline", "connected"}]
        /\ peers' \in [Nodes -> SUBSET Nodes] /\ routes' \in [Nodes -> SUBSET Nodes]
        /\ offered' \in [Nodes -> SUBSET Nodes] /\ joins' \in [Nodes -> 0..MaxJoins]
    BY <1>t, <2>3 DEF Mesh!TypeOK
  <2> QED BY <2>2, <2>3, <2>4, <2>5, <2>6, SayKeeps
<1>3. CASE Mesh!Round(n)
  <2> DEFINE msgs == Mesh!SetToSeq({[kind |-> "ping", peer |-> p] : p \in peers[n]})
             silent == {p \in peers[n] : age[n][p] = Limit}
  <2>1. msgs \in Seq(Mesh!Msg) /\ Len(msgs) = Cardinality(peers[n])
    BY <1>t, PingsInOrder DEF Mesh!TypeOK
  <2>2. Mesh!Cardinality(peers[n]) = Cardinality(peers[n])
    BY DEF Mesh!Cardinality, Cardinality
  <2> HIDE DEF msgs
  <2>3. /\ Mesh!Say(n, msgs) /\ up[n] = <<>> /\ Mesh!Cardinality(peers[n]) <= MaxUp
        /\ peers' = [peers EXCEPT ![n] = @ \ silent] /\ routes' = [routes EXCEPT ![n] = @ \ silent]
        /\ age' = [age EXCEPT ![n] = [p \in Nodes |->
                     IF p \in peers[n] \ silent THEN @[p] + 1 ELSE 0]]
        /\ UNCHANGED <<linked, served, down, Mesh!relay, state, looping, offered, joins, told>>
    BY <1>3 DEF Mesh!Round, Mesh!Settled, msgs
  <2>4. Len(up[n]) + Len(msgs) <= MaxUp
    <3>1. Len(up[n]) = 0
      BY <2>3
    <3>2. Len(msgs) \in Nat /\ Len(msgs) <= MaxUp
      BY <2>1, <2>2, <2>3
    <3> QED BY <3>1, <3>2, MeshConstants
  <2>5. age' \in [Nodes -> [Nodes -> 0..Limit]]
    <3>1. \A p \in Nodes : age[n][p] \in 0..Limit
      BY <1>t DEF Mesh!TypeOK
    <3>2. \A p \in peers[n] \ silent : age[n][p] + 1 \in 0..Limit
      BY <1>t, <3>1, MeshConstants DEF Mesh!TypeOK
    <3>3. [p \in Nodes |-> IF p \in peers[n] \ silent THEN age[n][p] + 1 ELSE 0]
            \in [Nodes -> 0..Limit]
      BY <3>2, MeshConstants
    <3> QED BY <1>t, <2>3, <3>3 DEF Mesh!TypeOK
  <2>6. /\ looping' \subseteq Nodes /\ state' \in [Nodes -> {"offline", "connected"}]
        /\ peers' \in [Nodes -> SUBSET Nodes] /\ routes' \in [Nodes -> SUBSET Nodes]
        /\ offered' \in [Nodes -> SUBSET Nodes] /\ joins' \in [Nodes -> 0..MaxJoins]
    BY <1>t, <2>3 DEF Mesh!TypeOK
  <2> QED BY <2>1, <2>3, <2>4, <2>5, <2>6, SayKeeps
<1> QED BY <1>1, <1>2, <1>3

\* A router handles a list of members.
LEMMA ListHandled ==
  ASSUME MeshInv, NEW n \in Nodes, Mesh!HandleMeshPeerList(n) PROVE MeshInv'
<1> USE MeshConstants DEF MeshInv, MeshTypes
<1> DEFINE q == down[n]
           list == Head(q).list \ {n}
<1>1. /\ q # <<>> /\ Head(q).kind = "list" /\ down' = [down EXCEPT ![n] = Tail(@)]
      /\ peers' = [peers EXCEPT ![n] = @ \cup list]
      /\ offered' = [offered EXCEPT ![n] = @ \cup (list \ peers[n])]
      /\ age' = [age EXCEPT ![n] = [p \in Nodes |-> IF p \in list THEN 0 ELSE @[p]]]
      /\ state' = [state EXCEPT ![n] = "connected"]
      /\ told' = [told EXCEPT ![n] = @ \cup Head(q).list]
      /\ UNCHANGED <<linked, served, up, Mesh!relay, looping, routes, joins>>
  BY DEF Mesh!HandleMeshPeerList
<1>2. /\ Head(q) \in Mesh!Msg /\ Tail(q) \in Seq(Mesh!Msg) /\ Len(Tail(q)) <= Len(q)
      /\ \A a : Lists(a, q) => a \in Head(q).list \/ Lists(a, Tail(q))
  BY <1>1, MessageTaken
<1>3. Head(q).list \subseteq Nodes
  BY <1>1, <1>2 DEF Mesh!Msg
<1>4. /\ down' \in [Nodes -> Seq(Mesh!Msg)] /\ down'[n] = Tail(q)
      /\ \A m \in Nodes : m # n => down'[m] = down[m]
  BY <1>1, <1>2
<1>5. told' \in [Nodes -> SUBSET Nodes] /\ told'[n] = told[n] \cup Head(q).list
      /\ \A m \in Nodes : m # n => told'[m] = told[m]
  BY <1>1, <1>3 DEF Mesh!TypeOK
<1>6. MeshTypes'
  <2>1. \A m \in Nodes : Len(down'[m]) <= MaxDown
    BY <1>2, <1>4 DEF Mesh!TypeOK
  <2>2. \A m \in Nodes : Mesh!Range(up'[m]) \cup Mesh!Range(down'[m]) \subseteq Mesh!Msg
    BY <1>1, <1>4 DEF Mesh!Range
  <2>3. age' \in [Nodes -> [Nodes -> 0..Limit]]
    BY <1>1 DEF Mesh!TypeOK
  <2>4. /\ peers' \in [Nodes -> SUBSET Nodes] /\ offered' \in [Nodes -> SUBSET Nodes]
        /\ state' \in [Nodes -> {"offline", "connected"}]
    BY <1>1, <1>3 DEF Mesh!TypeOK
  <2> QED BY <1>1, <1>4, <1>5, <2>1, <2>2, <2>3, <2>4 DEF Mesh!TypeOK, Mesh!relay
<1>7. LinksInv'
  BY <1>1 DEF LinksInv, Mesh!relay
<1>8. ToldInv'
  <2> SUFFICES ASSUME NEW a \in meshPeers, NEW b \in meshPeers, b \in linked
               PROVE Hears(a, b)'
    BY <1>1 DEF ToldInv, Mesh!relay
  <2>1. Hears(a, b) /\ b \in Nodes
    BY DEF ToldInv, Mesh!TypeOK
  <2>2. a \in told[b] => a \in told'[b]
    BY <1>5, <2>1
  <2>3. Lists(a, down[b]) => a \in told'[b] \/ Lists(a, down'[b])
    BY <1>2, <1>4, <1>5, <2>1
  <2> QED BY <1>1, <2>1, <2>2, <2>3 DEF Hears, Joins, Lists, Sends, Mesh!relay
<1> QED BY <1>6, <1>7, <1>8

\* A router adds or removes the route to a peer.
LEMMA RoutesKeep ==
  ASSUME MeshInv, NEW n \in Nodes, NEW p \in Nodes,
         Mesh!AddPeerRoute(n, p) \/ Mesh!RemovePeerRoute(n, p)
  PROVE  MeshInv'
<1> USE MeshConstants DEF MeshInv, MeshTypes
<1>1. UNCHANGED <<linked, served, up, down, meshPeers, sending, state, looping, peers,
                  offered, joins, told>>
  BY DEF Mesh!AddPeerRoute, Mesh!RemovePeerRoute, Mesh!wire, Mesh!relay
<1>2. routes' \in [Nodes -> SUBSET Nodes] /\ age' \in [Nodes -> [Nodes -> 0..Limit]]
  <2>1. CASE Mesh!AddPeerRoute(n, p)
    <3>1. routes' = [routes EXCEPT ![n] = @ \cup {p}] /\ age' = [age EXCEPT ![n][p] = 0]
      BY <2>1 DEF Mesh!AddPeerRoute
    <3>2. routes' \in [Nodes -> SUBSET Nodes]
      BY <3>1 DEF Mesh!TypeOK
    <3>3. age' \in [Nodes -> [Nodes -> 0..Limit]]
      BY <3>1 DEF Mesh!TypeOK
    <3> QED BY <3>2, <3>3
  <2>2. CASE Mesh!RemovePeerRoute(n, p)
    BY <2>2 DEF Mesh!RemovePeerRoute, Mesh!TypeOK
  <2> QED BY <2>1, <2>2
<1>3. MeshTypes'
  BY <1>1, <1>2 DEF Mesh!TypeOK
<1>4. LinksInv' /\ ToldInv'
  BY <1>1 DEF LinksInv, ToldInv, Hears, Joins, Lists, Sends
<1> QED BY <1>3, <1>4

\* A step of the mesh keeps its invariant.
LEMMA MeshStep == ASSUME MeshInv, Mesh!Next PROVE MeshInv'
<1>1. PICK n \in Nodes : Mesh!Link(n) \/ Mesh!Lose(n) \/ Mesh!Relay(n) \/ Mesh!Router(n)
  BY DEF Mesh!Next
<1>2. CASE Mesh!Relay(n)
  BY <1>2, RelayReads, CleanupKeeps, SendPeerListKeeps DEF Mesh!Relay
<1>3. CASE Mesh!Router(n)
  BY <1>3, RouterSays, ListHandled, RoutesKeep DEF Mesh!Router
<1> QED BY <1>1, <1>2, <1>3, WireKeeps

\* The invariant of the mesh gives its property.
LEMMA MeshHolds == MeshInv => Mesh!TypeOK /\ Mesh!EveryoneIsTold
<1> SUFFICES ASSUME MeshInv, Mesh!Settled, NEW n \in Mesh!Members, NEW m \in Mesh!Members
             PROVE n \in told[m]
  BY DEF MeshInv, MeshTypes, Mesh!EveryoneIsTold
<1>1. /\ n \in meshPeers /\ m \in meshPeers /\ m \in linked /\ m \in Nodes
      /\ \A k \in Nodes : up[k] = <<>> /\ down[k] = <<>> /\ sending[k] = Mesh!Quiet
  BY DEF Mesh!Members, Mesh!Settled, MeshInv, MeshTypes, Mesh!TypeOK
<1>2. Hears(n, m)
  BY <1>1 DEF MeshInv, ToldInv
<1> QED BY <1>1, <1>2 DEF Hears, Joins, Lists, Sends, Mesh!Quiet

\* Once every list on its way has arrived, the members of the mesh have been told
\* of each other since they joined (relay/server.go: registerMeshPeer,
\* unregisterMeshPeer; p2p/mesh.go: HandleMeshPeerList).
THEOREM MembersAreTold == Spec => []EveryoneIsTold
<1> DEFINE Inv == part = "mesh" => MeshInv
<1>1. Init => Inv
  BY MeshInit DEF Init
<1>2. Inv /\ [Next]_vars => Inv'
  <2> SUFFICES ASSUME Inv, [Next]_vars, part' = "mesh" PROVE MeshInv'
    OBVIOUS
  <2>1. CASE Next
    <3>1. part = "mesh" /\ Mesh!Next
      BY <2>1 DEF Next
    <3> QED BY <3>1, MeshStep
  <2>2. CASE UNCHANGED vars
    <3>1. MeshInv /\ UNCHANGED meshVars
      BY <2>2 DEF vars
    <3> QED
      BY <3>1 DEF meshVars, MeshInv, MeshTypes, Mesh!TypeOK, LinksInv, ToldInv, Hears, Joins,
         Lists, Sends
  <2> QED BY <2>1, <2>2
<1>3. Inv => EveryoneIsTold
  BY MeshHolds DEF EveryoneIsTold
<1> QED BY <1>1, <1>2, <1>3, PTL DEF Spec

-------------------------------------------------------------------------------
(* A forwarded connection, from the user to the service and back.          *)

Links == Forwarding!Links
Dirs == Forwarding!Dirs
Chunks == [n : 0..Cap, end : {"open", "fin", "rst"}]

\* What is under way, and that it is all of what was sent and not received.
Flight(d) == chan["user"][d].n + chan["work"][d].n + chan["local"][d].n
Lossless(d) == sent[d] = got[d] + Flight(d)
LossInv == \A d \in Dirs : got[d] + Flight(d) <= sent[d]
\* Who has closed a connection reads no more from it and ends what it wrote.
ShutInv ==
  \A l \in Links, d \in Dirs : shut[l][d] =>
    chan[l][d].n = 0 /\ chan[l][Forwarding!Other(d)].end # "open"
\* Outside the program's hands only the user and the service end a direction.
EndInv ==
  \A l \in Links, d \in Dirs :
    (l = "user" => d = "up") /\ (l = "local" => d = "down")
    /\ chan[l][Forwarding!Other(d)].end # "open" =>
         /\ shut[l][d] \/ chan[l][d].end # "open"
         /\ ~broken /\ l # "local" => shut[l][d]
\* What the stage of the session says of its connections and copies.
RelayInv ==
  /\ relay = "waiting" =>
       ~shut["user"]["up"] /\ \A d \in Dirs : copy["relay"][d] = "none"
  /\ relay = "bridging" =>
       /\ ~shut["user"]["up"] /\ ~shut["work"]["down"] /\ client # "idle"
       /\ \A d \in Dirs : copy["relay"][d] = "runs"
  /\ relay = "over" =>
       /\ shut["user"]["up"]
       /\ \A d \in Dirs : copy["relay"][d] # "none" => shut["work"]["down"]
       /\ copy["relay"]["up"] = "none" <=> copy["relay"]["down"] = "none"
  /\ shut["work"]["down"] => client \in {"idle", "over"} \/ relay = "over"
  /\ client = "idle" => \A d \in Dirs : copy["relay"][d] = "none"
ClientInv ==
  /\ client = "idle" => \A d \in Dirs : shut["work"][d]
  /\ client \in {"idle", "opened"} =>
       \A d \in Dirs : shut["local"][d] /\ copy["client"][d] = "none"
  /\ client = "opened" => ~shut["work"]["up"]
  /\ client = "bridging" =>
       /\ ~shut["work"]["up"] /\ ~shut["local"]["down"]
       /\ \A d \in Dirs : copy["client"][d] = "runs"
  /\ client = "over" => shut["work"]["up"] /\ shut["local"]["down"]
\* The user can still get the whole answer.
Given == relay = "over" /\ copy["relay"]["up"] = "none"
Hopeful ==
  /\ ~broken /\ Lossless("up") /\ ~Given
  /\ chan["user"]["up"].end = "open" /\ ~shut["user"]["down"]
AnswerInv == Hopeful => Lossless("down") /\ (shut["user"]["up"] => client = "over")
ForwardingInv ==
  /\ Forwarding!TypeOK /\ LossInv /\ ShutInv /\ EndInv /\ RelayInv /\ ClientInv /\ AnswerInv

\* What the constants of the forwarding are.
LEMMA ForwardingConstants == MaxChunks \in Nat /\ Cap \in Nat \ {0}
BY ConstantsFit DEF ConstantsFit, Forwarding!BoundAssumption

\* The directions and the connections, by name.
LEMMA DirsAre == Dirs = {"up", "down"} /\ Links = {"user", "work", "local"}
BY DEF Dirs, Links, Forwarding!Dirs, Forwarding!Links

\* What closing leaves of a connection, seen from the end that received d.
LEMMA EndsClosed ==
  ASSUME NEW l, NEW d \in Dirs, NEW c \in [Dirs -> Chunks],
         NEW b \in Forwarding!CloseEnds(l, d, c)
  PROVE  LET o == Forwarding!Other(d)
         IN /\ b \in [Dirs -> Chunks] /\ o \in Dirs /\ o # d
            /\ b[d].n = 0 /\ b[d].end = c[d].end
            /\ b[o].n <= c[o].n /\ b[o].end # "open"
            /\ c[o].end # "open" => b[o].end = c[o].end
            /\ c[d].n = 0 => b[o].n = c[o].n
<1> USE ForwardingConstants
<1> DEFINE o == Forwarding!Other(d)
<1>1. o \in Dirs /\ o # d /\ \A e \in Dirs : e = d \/ e = o
  BY DirsAre DEF Forwarding!Other
<1> HIDE DEF o
<1>2. PICK k \in {0, c[o].n}, to \in {"fin", "rst", c[o].end} :
        /\ b = [e \in Dirs |-> IF e = d THEN [n |-> 0, end |-> c[d].end]
                               ELSE [n |-> k, end |-> to]]
        /\ c[d].n = 0 => k = c[o].n
        /\ to # "open" /\ (c[o].end # "open" => to = c[o].end)
  BY DEF Forwarding!CloseEnds, o, Dirs
<1>3. /\ c[d].n \in 0..Cap /\ c[d].end \in {"open", "fin", "rst"}
      /\ c[o].n \in 0..Cap /\ c[o].end \in {"open", "fin", "rst"}
  BY <1>1 DEF Chunks
<1>4. b[d] = [n |-> 0, end |-> c[d].end] /\ b[o] = [n |-> k, end |-> to]
  BY <1>1, <1>2
<1>5. b[d] \in Chunks /\ b[o] \in Chunks
  BY <1>2, <1>3, <1>4 DEF Chunks
<1>6. b \in [Dirs -> Chunks]
  BY <1>1, <1>2, <1>4, <1>5
<1>7. b[d].n = 0 /\ b[d].end = c[d].end /\ b[o].n = k /\ b[o].end = to
  BY <1>4
<1> QED BY <1>1, <1>2, <1>3, <1>6, <1>7 DEF o

\* The connection each side reads and writes in each direction.
LEMMA ForwardingNames ==
  /\ Forwarding!Other("up") = "down" /\ Forwarding!Other("down") = "up"
  /\ Forwarding!Own("up") = "user" /\ Forwarding!Own("down") = "local"
  /\ Forwarding!Near("relay") = "user" /\ Forwarding!Far("relay") = "work"
  /\ Forwarding!Near("client") = "work" /\ Forwarding!Far("client") = "local"
  /\ Forwarding!From("relay", "up") = "user" /\ Forwarding!From("relay", "down") = "work"
  /\ Forwarding!Into("relay", "up") = "work" /\ Forwarding!Into("relay", "down") = "user"
  /\ Forwarding!From("client", "up") = "work" /\ Forwarding!From("client", "down") = "local"
  /\ Forwarding!Into("client", "up") = "local" /\ Forwarding!Into("client", "down") = "work"
  /\ Forwarding!Sides = {"relay", "client"}
BY DEF Forwarding!Other, Forwarding!Own, Forwarding!Near, Forwarding!Far, Forwarding!From,
   Forwarding!Into, Forwarding!Sides

\* The forwarding starts in its invariant.
LEMMA ForwardingInit == Forwarding!Init => ForwardingInv
<1> SUFFICES ASSUME Forwarding!Init PROVE ForwardingInv
  OBVIOUS
<1> USE ForwardingConstants, DirsAre, ForwardingNames DEF Forwarding!Init, Forwarding!Closed
<1>1. Forwarding!Links = Links /\ Forwarding!Dirs = Dirs
  BY DEF Links, Dirs
<1>2. \A d \in Dirs :
        /\ chan["user"][d] = [n |-> 0, end |-> "open"]
        /\ chan["work"][d] = [n |-> 0, end |-> "fin"]
        /\ chan["local"][d] = [n |-> 0, end |-> "fin"]
        /\ ~shut["user"][d] /\ shut["work"][d] /\ shut["local"][d]
        /\ copy["relay"][d] = "none" /\ copy["client"][d] = "none"
        /\ sent[d] = 0 /\ got[d] = 0
  BY <1>1
<1>3. Forwarding!TypeOK
  <2>1. [n |-> 0, end |-> "open"] \in [n : 0..Cap, end : {"open", "fin", "rst"}]
    OBVIOUS
  <2>2. [n |-> 0, end |-> "fin"] \in [n : 0..Cap, end : {"open", "fin", "rst"}]
    OBVIOUS
  <2>3. chan \in [Forwarding!Links ->
                  [Forwarding!Dirs -> [n : 0..Cap, end : {"open", "fin", "rst"}]]]
    BY <2>1, <2>2
  <2>4. 0 \in 0..MaxChunks
    OBVIOUS
  <2>5. /\ shut \in [Forwarding!Links -> [Forwarding!Dirs -> BOOLEAN]]
        /\ copy \in [Forwarding!Sides -> [Forwarding!Dirs -> {"none", "runs", "done"}]]
    OBVIOUS
  <2>6. sent \in [Forwarding!Dirs -> 0..MaxChunks] /\ got \in [Forwarding!Dirs -> 0..MaxChunks]
    BY <2>4
  <2> QED BY <2>3, <2>5, <2>6 DEF Forwarding!TypeOK
<1>4. LossInv
  BY <1>2 DEF LossInv, Flight
<1>5. ShutInv /\ EndInv
  BY <1>2 DEF ShutInv, EndInv
<1>6. RelayInv /\ ClientInv
  BY <1>2 DEF RelayInv, ClientInv
<1>7. AnswerInv
  BY <1>2 DEF AnswerInv, Hopeful, Lossless, Flight
<1> QED BY <1>3, <1>4, <1>5, <1>6, <1>7 DEF ForwardingInv

\* The types of the parts of the state, at the places they are read.
ChanTypes ==
  /\ chan \in [Links -> [Dirs -> Chunks]] /\ shut \in [Links -> [Dirs -> BOOLEAN]]
  /\ copy \in [Forwarding!Sides -> [Dirs -> {"none", "runs", "done"}]]
  /\ sent \in [Dirs -> 0..MaxChunks] /\ got \in [Dirs -> 0..MaxChunks]

\* The counts of a connection are numbers within the bounds.
LEMMA ChanTypesAre ==
  ASSUME Forwarding!TypeOK
  PROVE  /\ ChanTypes
         /\ \A l \in Links, d \in Dirs : chan[l][d].n \in Nat /\ chan[l][d].n <= Cap
         /\ \A d \in Dirs : sent[d] \in Nat /\ got[d] \in Nat /\ sent[d] <= MaxChunks
<1> USE ForwardingConstants
<1>1. ChanTypes
  BY DEF Forwarding!TypeOK, ChanTypes, Links, Dirs, Chunks
<1>2. ASSUME NEW l \in Links, NEW d \in Dirs PROVE chan[l][d] \in Chunks
  BY <1>1 DEF ChanTypes
<1>3. \A l \in Links, d \in Dirs : chan[l][d].n \in 0..Cap
  BY <1>2 DEF Chunks
<1> QED BY <1>1, <1>3 DEF ChanTypes

\* The end of a connection that receives d closes it.
Closes(l, d) ==
  /\ shut'[l] = [shut[l] EXCEPT ![d] = TRUE]
  /\ chan'[l] \in Forwarding!CloseEnds(l, d, chan[l])
Same(l) == shut'[l] = shut[l] /\ chan'[l] = chan[l]

\* One connection, left alone or closed.
LEMMA LinkClosed ==
  ASSUME ForwardingInv, NEW l \in Links, NEW d \in Dirs, Closes(l, d)
  PROVE  /\ chan'[l] \in [Dirs -> Chunks] /\ shut'[l] \in [Dirs -> BOOLEAN]
         /\ \A e \in Dirs :
              /\ chan'[l][e].n \in Nat /\ chan'[l][e].n <= chan[l][e].n
              /\ chan[l][e].end # "open" => chan'[l][e].end # "open"
              /\ shut'[l][e] <=> shut[l][e] \/ e = d
         /\ chan'[l][d].n = 0 /\ chan'[l][Forwarding!Other(d)].end # "open"
         /\ chan'[l][d].end = chan[l][d].end
         /\ chan[l][d].n = 0 => chan'[l][Forwarding!Other(d)].n = chan[l][Forwarding!Other(d)].n
<1> DEFINE o == Forwarding!Other(d)
<1>1. chan[l] \in [Dirs -> Chunks] /\ shut[l] \in [Dirs -> BOOLEAN]
  BY ChanTypesAre DEF ForwardingInv, ChanTypes
<1>2. /\ chan'[l] \in [Dirs -> Chunks] /\ o \in Dirs /\ o # d
      /\ chan'[l][d].n = 0 /\ chan'[l][d].end = chan[l][d].end
      /\ chan'[l][o].n <= chan[l][o].n /\ chan'[l][o].end # "open"
      /\ chan[l][d].n = 0 => chan'[l][o].n = chan[l][o].n
  BY <1>1, EndsClosed DEF Closes
<1>3. \A e \in Dirs : e = d \/ e = o
  BY DirsAre, ForwardingNames
<1> HIDE DEF o
<1>4. \A e \in Dirs : chan'[l][e].n \in Nat /\ chan[l][e].n \in Nat
  <2> TAKE e \in Dirs
  <2>1. chan'[l][e] \in Chunks /\ chan[l][e] \in Chunks
    BY <1>1, <1>2
  <2> QED BY <2>1, ForwardingConstants DEF Chunks
<1>5. shut'[l] \in [Dirs -> BOOLEAN] /\ \A e \in Dirs : shut'[l][e] <=> shut[l][e] \/ e = d
  BY <1>1 DEF Closes
<1>6. \A e \in Dirs : chan'[l][e].n <= chan[l][e].n
  BY <1>2, <1>3, <1>4
<1>7. \A e \in Dirs : chan[l][e].end # "open" => chan'[l][e].end # "open"
  BY <1>2, <1>3
<1> QED BY <1>2, <1>4, <1>5, <1>6, <1>7 DEF o

\* Connections, each left alone or closed by one of its ends.
LEMMA ClosingsKeep ==
  ASSUME ForwardingInv, UNCHANGED <<sent, got, broken>>,
         chan' = [l \in Links |-> chan'[l]], shut' = [l \in Links |-> shut'[l]],
         \A l \in Links : Same(l) \/ \E d \in Dirs : Closes(l, d)
  PROVE  /\ chan' \in [Links -> [Dirs -> Chunks]] /\ shut' \in [Links -> [Dirs -> BOOLEAN]]
         /\ LossInv' /\ ShutInv' /\ EndInv'
         /\ \A l \in Links, d \in Dirs : shut[l][d] => shut'[l][d]
         /\ \A d \in Dirs : Lossless(d)' =>
              Lossless(d) /\ \A l \in Links : chan'[l][d].n = chan[l][d].n
         /\ chan'["user"]["up"].end = "open" => chan["user"]["up"].end = "open"
<1>1. ChanTypes /\ \A l \in Links, d \in Dirs : chan[l][d].n \in Nat
  BY ChanTypesAre DEF ForwardingInv
<1>2. ASSUME NEW l \in Links
      PROVE  /\ chan'[l] \in [Dirs -> Chunks] /\ shut'[l] \in [Dirs -> BOOLEAN]
             /\ \A e \in Dirs :
                  /\ chan'[l][e].n \in Nat /\ chan'[l][e].n <= chan[l][e].n
                  /\ chan[l][e].end # "open" => chan'[l][e].end # "open"
                  /\ shut[l][e] => shut'[l][e]
                  /\ shut'[l][e] =>
                       chan'[l][e].n = 0 /\ chan'[l][Forwarding!Other(e)].end # "open"
  <2>1. CASE Same(l)
    <3>1. \A e \in Dirs : shut[l][e] =>
            chan[l][e].n = 0 /\ chan[l][Forwarding!Other(e)].end # "open"
      BY DEF ForwardingInv, ShutInv
    <3>2. \A e \in Dirs : chan'[l][e].n \in Nat /\ chan'[l][e].n <= chan[l][e].n
      BY <2>1, <1>1 DEF Same
    <3> QED BY <2>1, <1>1, <3>1, <3>2 DEF Same, ChanTypes
  <2>2. ASSUME NEW d \in Dirs, Closes(l, d)
        PROVE  /\ chan'[l] \in [Dirs -> Chunks] /\ shut'[l] \in [Dirs -> BOOLEAN]
               /\ \A e \in Dirs :
                    /\ chan'[l][e].n \in Nat /\ chan'[l][e].n <= chan[l][e].n
                    /\ chan[l][e].end # "open" => chan'[l][e].end # "open"
                    /\ shut[l][e] => shut'[l][e]
                    /\ shut'[l][e] =>
                         chan'[l][e].n = 0 /\ chan'[l][Forwarding!Other(e)].end # "open"
    <3>1. /\ chan'[l] \in [Dirs -> Chunks] /\ shut'[l] \in [Dirs -> BOOLEAN]
          /\ \A e \in Dirs :
               /\ chan'[l][e].n \in Nat /\ chan'[l][e].n <= chan[l][e].n
               /\ chan[l][e].end # "open" => chan'[l][e].end # "open"
               /\ shut'[l][e] <=> shut[l][e] \/ e = d
          /\ chan'[l][d].n = 0 /\ chan'[l][Forwarding!Other(d)].end # "open"
      BY <2>2, LinkClosed
    <3>2. ASSUME NEW e \in Dirs, shut[l][e]
          PROVE  chan'[l][e].n = 0 /\ chan'[l][Forwarding!Other(e)].end # "open"
      <4>1. chan[l][e].n = 0 /\ chan[l][Forwarding!Other(e)].end # "open"
        BY <3>2 DEF ForwardingInv, ShutInv
      <4>2. Forwarding!Other(e) \in Dirs
        BY DirsAre, ForwardingNames
      <4>3. chan'[l][e].n \in Nat /\ chan'[l][e].n <= 0
        BY <3>1, <4>1
      <4> QED BY <3>1, <4>1, <4>2, <4>3
    <3> QED BY <3>1, <3>2
  <2> QED BY <2>1, <2>2
<1>3. chan' \in [Links -> [Dirs -> Chunks]] /\ shut' \in [Links -> [Dirs -> BOOLEAN]]
  BY <1>2
<1>4. ShutInv'
  BY <1>2 DEF ShutInv
<1>5. EndInv'
  <2> DEFINE o(e) == Forwarding!Other(e)
  <2> SUFFICES ASSUME NEW l \in Links, NEW e \in Dirs,
                      l = "user" => e = "up", l = "local" => e = "down",
                      chan'[l][o(e)].end # "open"
               PROVE  /\ shut'[l][e] \/ chan'[l][e].end # "open"
                      /\ ~broken /\ l # "local" => shut'[l][e]
    BY DEF EndInv
  <2>1. o(e) \in Dirs
    BY DirsAre, ForwardingNames
  <2>2. chan[l][o(e)].end # "open" =>
          /\ shut[l][e] \/ chan[l][e].end # "open"
          /\ ~broken /\ l # "local" => shut[l][e]
    BY DEF ForwardingInv, EndInv
  <2>3. CASE chan[l][o(e)].end # "open"
    BY <1>2, <2>2, <2>3
  <2>4. CASE chan[l][o(e)].end = "open"
    <3>1. PICK d \in Dirs : Closes(l, d)
      BY <2>4 DEF Same
    <3>2. chan'[l][d].end = chan[l][d].end /\ shut'[l][d]
      BY <3>1, LinkClosed
    <3>3. d # o(e)
      BY <2>4, <3>2
    <3>4. d = e
      BY <3>3, DirsAre, ForwardingNames
    <3> QED BY <3>2, <3>4
  <2> QED BY <2>3, <2>4
<1>6. ASSUME NEW d \in Dirs
      PROVE  /\ Flight(d)' \in Nat /\ Flight(d) \in Nat /\ Flight(d)' <= Flight(d)
             /\ Flight(d)' = Flight(d) => \A l \in Links : chan'[l][d].n = chan[l][d].n
  <2>1. \A l \in {"user", "work", "local"} :
          chan'[l][d].n \in Nat /\ chan[l][d].n \in Nat /\ chan'[l][d].n <= chan[l][d].n
    BY <1>1, <1>2, DirsAre
  <2>2. /\ chan'["user"][d].n \in Nat /\ chan["user"][d].n \in Nat
        /\ chan'["user"][d].n <= chan["user"][d].n
        /\ chan'["work"][d].n \in Nat /\ chan["work"][d].n \in Nat
        /\ chan'["work"][d].n <= chan["work"][d].n
        /\ chan'["local"][d].n \in Nat /\ chan["local"][d].n \in Nat
        /\ chan'["local"][d].n <= chan["local"][d].n
    BY <2>1
  <2>3. /\ Flight(d) = chan["user"][d].n + chan["work"][d].n + chan["local"][d].n
        /\ Flight(d)' = chan'["user"][d].n + chan'["work"][d].n + chan'["local"][d].n
    BY DEF Flight
  <2>4. /\ Flight(d)' \in Nat /\ Flight(d) \in Nat /\ Flight(d)' <= Flight(d)
        /\ Flight(d)' = Flight(d) =>
             /\ chan'["user"][d].n = chan["user"][d].n
             /\ chan'["work"][d].n = chan["work"][d].n
             /\ chan'["local"][d].n = chan["local"][d].n
    BY <2>2, <2>3
  <2> QED BY <2>4, DirsAre
<1>7. ASSUME NEW d \in Dirs
      PROVE  /\ (got[d] + Flight(d) <= sent[d])'
             /\ Lossless(d)' => Flight(d)' = Flight(d) /\ Lossless(d)
  <2>1. got[d] + Flight(d) <= sent[d]
    BY DEF ForwardingInv, LossInv
  <2>2. got[d] \in Nat /\ sent[d] \in Nat
    BY ChanTypesAre DEF ForwardingInv
  <2>3. Flight(d)' \in Nat /\ Flight(d) \in Nat /\ Flight(d)' <= Flight(d)
    BY <1>6
  <2>4. got'[d] = got[d] /\ sent'[d] = sent[d]
    OBVIOUS
  <2>5. Lossless(d)' <=> sent'[d] = got'[d] + Flight(d)'
    BY DEF Lossless
  <2>6. Lossless(d) <=> sent[d] = got[d] + Flight(d)
    BY DEF Lossless
  <2> HIDE DEF Flight
  <2>7. got[d] + Flight(d)' <= sent[d] /\ (sent[d] = got[d] + Flight(d)' => Flight(d)' = Flight(d))
    BY <2>1, <2>2, <2>3
  <2> QED BY <2>4, <2>5, <2>6, <2>7
<1>8. LossInv'
  BY <1>7 DEF LossInv
<1>9. \A d \in Dirs : Lossless(d)' =>
        Lossless(d) /\ \A l \in Links : chan'[l][d].n = chan[l][d].n
  BY <1>6, <1>7
<1> QED BY <1>2, <1>3, <1>4, <1>5, <1>8, <1>9, DirsAre

\* A chunk moves, or the user or the service ends its direction.
LEMMA MovesKeep ==
  ASSUME ForwardingInv, UNCHANGED <<quic, shut, copy, relay, client, broken>>,
         chan' \in [Links -> [Dirs -> Chunks]],
         sent' \in [Dirs -> 0..MaxChunks], got' \in [Dirs -> 0..MaxChunks],
         \A l \in Links, d \in Dirs :
           /\ shut[l][d] => chan'[l][d].n = chan[l][d].n
           /\ chan[l][d].end # "open" => chan'[l][d].end # "open"
           /\ l # Forwarding!Own(d) => chan'[l][d].end = chan[l][d].end,
         \A d \in Dirs : got'[d] + Flight(d)' <= sent'[d] /\ (Lossless(d)' => Lossless(d)),
         \A d \in Dirs : Lossless(d) => Lossless(d)'
  PROVE  ForwardingInv'
<1> USE DirsAre, ForwardingNames
<1>1. Forwarding!TypeOK'
  BY DEF ForwardingInv, Forwarding!TypeOK, Links, Dirs, Chunks
<1>2. LossInv'
  BY DEF LossInv
<1>3. ShutInv'
  <2>1. \A l \in Links, d \in Dirs : shut[l][d] =>
          chan[l][d].n = 0 /\ chan[l][Forwarding!Other(d)].end # "open"
    BY DEF ForwardingInv, ShutInv
  <2>2. \A d \in Dirs : Forwarding!Other(d) \in Dirs
    OBVIOUS
  <2>3. ShutInv' <=> \A l \in Links, d \in Dirs : shut[l][d] =>
          chan'[l][d].n = 0 /\ chan'[l][Forwarding!Other(d)].end # "open"
    BY DEF ShutInv
  <2> HIDE ForwardingNames, DirsAre
  <2> QED BY <2>1, <2>2, <2>3
<1>4. EndInv'
  <2> SUFFICES ASSUME NEW l \in Links, NEW d \in Dirs,
                      l = "user" => d = "up", l = "local" => d = "down",
                      chan'[l][Forwarding!Other(d)].end # "open"
               PROVE  /\ shut[l][d] \/ chan'[l][d].end # "open"
                      /\ ~broken /\ l # "local" => shut[l][d]
    BY DEF EndInv
  <2>1. l # Forwarding!Own(Forwarding!Other(d)) /\ Forwarding!Other(d) \in Dirs
    OBVIOUS
  <2>2. chan[l][Forwarding!Other(d)].end # "open"
    BY <2>1
  <2>3. /\ shut[l][d] \/ chan[l][d].end # "open"
        /\ ~broken /\ l # "local" => shut[l][d]
    BY <2>2 DEF ForwardingInv, EndInv
  <2> QED BY <2>3
<1>5. RelayInv' /\ ClientInv'
  BY DEF ForwardingInv, RelayInv, ClientInv
<1>6. AnswerInv'
  <2>1. Hopeful' => Hopeful
    BY DEF Hopeful, Given
  <2> QED BY <2>1 DEF ForwardingInv, AnswerInv
<1> QED BY <1>1, <1>2, <1>3, <1>4, <1>5, <1>6 DEF ForwardingInv

\* A copy moves a chunk from one connection to the next.
LEMMA CopiesStep ==
  ASSUME ForwardingInv, NEW s \in Forwarding!Sides, NEW d \in Dirs, Forwarding!Copies(s, d)
  PROVE  ForwardingInv'
<1> DEFINE from == Forwarding!From(s, d)
           into == Forwarding!Into(s, d)
<1>1. from \in Links /\ into \in Links /\ from # into
  BY DirsAre, ForwardingNames
<1>2. /\ ~shut[from][d] /\ ~shut[into][d] /\ chan[from][d].n > 0 /\ chan[into][d].n < Cap
      /\ chan' = [chan EXCEPT ![from][d] = Forwarding!Less(@), ![into][d] = Forwarding!More(@)]
      /\ UNCHANGED <<quic, shut, copy, relay, client, sent, got, broken>>
  BY DEF Forwarding!Copies, Forwarding!MayCopy, Forwarding!CanRead, Forwarding!CanWrite
<1> HIDE DEF from, into
<1>3. ChanTypes /\ \A l \in Links, e \in Dirs : chan[l][e].n \in Nat /\ chan[l][e].n <= Cap
  BY ChanTypesAre DEF ForwardingInv
<1>4. ASSUME NEW l \in Links, NEW e \in Dirs
      PROVE  chan'[l][e] = IF e = d /\ l = from THEN Forwarding!Less(chan[l][e])
                           ELSE IF e = d /\ l = into THEN Forwarding!More(chan[l][e])
                           ELSE chan[l][e]
  BY <1>1, <1>2, <1>3 DEF ChanTypes
<1>5. ASSUME NEW c \in Chunks, c.n \in Nat
      PROVE  /\ c.n > 0 => Forwarding!Less(c) \in Chunks
             /\ c.n < Cap => Forwarding!More(c) \in Chunks
             /\ Forwarding!Less(c).n = c.n - 1 /\ Forwarding!Less(c).end = c.end
             /\ Forwarding!More(c).n = c.n + 1 /\ Forwarding!More(c).end = c.end
  BY <1>5, ForwardingConstants DEF Chunks, Forwarding!Less, Forwarding!More
<1>6. ASSUME NEW l \in Links, NEW e \in Dirs
      PROVE  /\ chan'[l][e] \in Chunks /\ chan'[l][e].end = chan[l][e].end
             /\ chan'[l][e].n = IF e = d /\ l = from THEN chan[l][e].n - 1
                                ELSE IF e = d /\ l = into THEN chan[l][e].n + 1
                                ELSE chan[l][e].n
  <2>1. chan[l][e] \in Chunks /\ chan[l][e].n \in Nat
    BY <1>3 DEF ChanTypes
  <2>2. CASE e = d /\ l = from
    <3>1. chan'[l][e] = Forwarding!Less(chan[l][e]) /\ chan[l][e].n > 0
      BY <2>2, <1>2, <1>4
    <3> QED BY <2>1, <2>2, <3>1, <1>5
  <2>3. CASE e = d /\ l = into
    <3>1. chan'[l][e] = Forwarding!More(chan[l][e]) /\ chan[l][e].n < Cap
      BY <2>3, <1>1, <1>2, <1>4
    <3> QED BY <1>1, <2>1, <2>3, <3>1, <1>5
  <2>4. CASE ~(e = d /\ l = from) /\ ~(e = d /\ l = into)
    <3>1. chan'[l][e] = chan[l][e]
      BY <2>4, <1>4
    <3> QED BY <2>1, <2>4, <3>1
  <2> QED BY <2>2, <2>3, <2>4
<1>7. chan' \in [Links -> [Dirs -> Chunks]]
  <2>1. chan' = [l \in Links |-> chan'[l]]
    BY <1>2, <1>3 DEF ChanTypes
  <2>2. \A l \in Links : chan'[l] = [e \in Dirs |-> chan'[l][e]]
    BY <1>1, <1>2, <1>3 DEF ChanTypes
  <2> QED BY <2>1, <2>2, <1>6
<1>8. ASSUME NEW e \in Dirs PROVE Flight(e)' = Flight(e)
  <2>1. \A l \in {"user", "work", "local"} : chan[l][e].n \in Nat
    BY <1>3, DirsAre
  <2>2. chan["user"][e].n \in Nat /\ chan["work"][e].n \in Nat /\ chan["local"][e].n \in Nat
    BY <2>1
  <2>3. \A l \in {"user", "work", "local"} :
          chan'[l][e].n = IF e = d /\ l = from THEN chan[l][e].n - 1
                          ELSE IF e = d /\ l = into THEN chan[l][e].n + 1
                          ELSE chan[l][e].n
    BY <1>6, DirsAre
  <2> QED BY <1>1, <2>2, <2>3, DirsAre DEF Flight
<1>9. ASSUME NEW e \in Dirs
      PROVE  got'[e] + Flight(e)' <= sent'[e] /\ (Lossless(e)' <=> Lossless(e))
  <2>1. got[e] + Flight(e) <= sent[e]
    BY DEF ForwardingInv, LossInv
  <2>2. got'[e] = got[e] /\ sent'[e] = sent[e]
    BY <1>2
  <2> QED BY <1>8, <2>1, <2>2 DEF Lossless
<1>10. \A l \in Links, e \in Dirs :
         /\ shut[l][e] => chan'[l][e].n = chan[l][e].n
         /\ chan[l][e].end # "open" => chan'[l][e].end # "open"
         /\ l # Forwarding!Own(e) => chan'[l][e].end = chan[l][e].end
  <2> TAKE l \in Links, e \in Dirs
  <2>1. shut[l][e] => ~(e = d /\ l = from) /\ ~(e = d /\ l = into)
    BY <1>2
  <2>2. chan'[l][e].end = chan[l][e].end
    BY <1>6
  <2>3. shut[l][e] => chan'[l][e].n = chan[l][e].n
    BY <1>6, <2>1
  <2> QED BY <2>2, <2>3
<1>11. sent' \in [Dirs -> 0..MaxChunks] /\ got' \in [Dirs -> 0..MaxChunks]
  BY <1>2, <1>3 DEF ChanTypes
<1> QED BY <1>2, <1>7, <1>9, <1>10, <1>11, MovesKeep

\* The user or the service writes, reads or ends: one direction of its connection.
LEMMA EndpointSteps ==
  ASSUME ForwardingInv, NEW l \in Links, NEW d \in Dirs, NEW c \in Chunks,
         ~shut[l][d] \/ c.n = chan[l][d].n,
         chan[l][d].end # "open" => c.end # "open",
         l # Forwarding!Own(d) => c.end = chan[l][d].end,
         chan' = [chan EXCEPT ![l][d] = c],
         UNCHANGED <<quic, shut, copy, relay, client, broken>>,
         sent' \in [Dirs -> 0..MaxChunks], got' \in [Dirs -> 0..MaxChunks],
         sent'[d] - got'[d] - c.n = sent[d] - got[d] - chan[l][d].n,
         \A e \in Dirs \ {d} : sent'[e] = sent[e] /\ got'[e] = got[e]
  PROVE  ForwardingInv'
<1>1. ChanTypes /\ \A k \in Links, e \in Dirs : chan[k][e].n \in Nat /\ chan[k][e].n <= Cap
  BY ChanTypesAre DEF ForwardingInv
<1>2. ASSUME NEW k \in Links, NEW e \in Dirs
      PROVE  chan'[k][e] = IF k = l /\ e = d THEN c ELSE chan[k][e]
  BY <1>1 DEF ChanTypes
<1>3. chan' \in [Links -> [Dirs -> Chunks]]
  BY <1>1 DEF ChanTypes
<1>4. \A k \in Links, e \in Dirs :
        /\ shut[k][e] => chan'[k][e].n = chan[k][e].n
        /\ chan[k][e].end # "open" => chan'[k][e].end # "open"
        /\ k # Forwarding!Own(e) => chan'[k][e].end = chan[k][e].end
  BY <1>2
<1>5. c.n \in Nat
  BY ForwardingConstants DEF Chunks
<1>6. ASSUME NEW e \in Dirs
      PROVE  sent'[e] - got'[e] - Flight(e)' = sent[e] - got[e] - Flight(e)
  <2>1. /\ sent[e] \in Nat /\ got[e] \in Nat /\ sent'[e] \in Nat /\ got'[e] \in Nat
        /\ chan["user"][e].n \in Nat /\ chan["work"][e].n \in Nat /\ chan["local"][e].n \in Nat
    BY <1>1, DirsAre, ForwardingConstants DEF ChanTypes
  <2>2. CASE e # d
    <3>1. \A k \in {"user", "work", "local"} : chan'[k][e] = chan[k][e]
      BY <1>2, <2>2, DirsAre
    <3>2. Flight(e)' = Flight(e) /\ sent'[e] = sent[e] /\ got'[e] = got[e]
      BY <2>2, <3>1 DEF Flight
    <3> QED BY <3>2
  <2>3. CASE e = d
    <3>1. \A k \in {"user", "work", "local"} :
            chan'[k][e].n = IF k = l THEN c.n ELSE chan[k][e].n
      BY <1>2, <2>3, DirsAre
    <3>2. sent'[e] - got'[e] - c.n = sent[e] - got[e] - chan[l][e].n
      BY <2>3
    <3>3. l \in {"user", "work", "local"}
      BY DirsAre
    <3>4. /\ Flight(e) = chan["user"][e].n + chan["work"][e].n + chan["local"][e].n
          /\ Flight(e)' = chan'["user"][e].n + chan'["work"][e].n + chan'["local"][e].n
      BY DEF Flight
    <3>5. Flight(e)' - c.n = Flight(e) - chan[l][e].n /\ Flight(e) \in Nat /\ Flight(e)' \in Nat
      <4>1. CASE l = "user"
        BY <4>1, <1>5, <2>1, <3>1, <3>4
      <4>2. CASE l = "work"
        BY <4>2, <1>5, <2>1, <3>1, <3>4
      <4>3. CASE l = "local"
        BY <4>3, <1>5, <2>1, <3>1, <3>4
      <4> QED BY <3>3, <4>1, <4>2, <4>3
    <3>6. chan[l][e].n \in Nat
      BY <1>1
    <3> HIDE DEF Flight
    <3>7. PICK k \in Nat, n \in Nat, f1 \in Nat, f2 \in Nat :
            k = c.n /\ n = chan[l][e].n /\ f1 = Flight(e) /\ f2 = Flight(e)'
      BY <1>5, <3>5, <3>6
    <3>8. PICK s1 \in Nat, g1 \in Nat, s2 \in Nat, g2 \in Nat :
            s1 = sent[e] /\ g1 = got[e] /\ s2 = sent'[e] /\ g2 = got'[e]
      BY <2>1
    <3>9. s2 - g2 - k = s1 - g1 - n /\ f2 - k = f1 - n
      BY <3>2, <3>5, <3>7, <3>8
    <3>10. s2 - g2 - f2 = s1 - g1 - f1
      BY <3>9
    <3> QED BY <3>7, <3>8, <3>10
  <2> QED BY <2>2, <2>3
<1>7. ASSUME NEW e \in Dirs
      PROVE  got'[e] + Flight(e)' <= sent'[e] /\ (Lossless(e)' <=> Lossless(e))
  <2>1. got[e] + Flight(e) <= sent[e]
    BY DEF ForwardingInv, LossInv
  <2>2. \A k \in {"user", "work", "local"} : chan[k][e].n \in Nat /\ chan'[k][e].n \in Nat
    BY <1>1, <1>2, <1>5, DirsAre
  <2>3. Flight(e) \in Nat /\ Flight(e)' \in Nat
    <3>1. /\ chan["user"][e].n \in Nat /\ chan'["user"][e].n \in Nat
          /\ chan["work"][e].n \in Nat /\ chan'["work"][e].n \in Nat
          /\ chan["local"][e].n \in Nat /\ chan'["local"][e].n \in Nat
      BY <2>2
    <3> QED BY <3>1 DEF Flight
  <2>4. sent[e] \in Nat /\ got[e] \in Nat /\ sent'[e] \in Nat /\ got'[e] \in Nat
    BY <1>1, ForwardingConstants DEF ChanTypes
  <2>5. /\ Lossless(e) <=> sent[e] = got[e] + Flight(e)
        /\ Lossless(e)' <=> sent'[e] = got'[e] + Flight(e)'
    BY DEF Lossless
  <2> HIDE DEF Flight
  <2>6. got'[e] + Flight(e)' <= sent'[e]
    BY <1>6, <2>1, <2>3, <2>4
  <2>7. PICK f1 \in Nat, f2 \in Nat : f1 = Flight(e) /\ f2 = Flight(e)'
    BY <2>3
  <2>8. PICK s1 \in Nat, g1 \in Nat, s2 \in Nat, g2 \in Nat :
          s1 = sent[e] /\ g1 = got[e] /\ s2 = sent'[e] /\ g2 = got'[e]
    BY <2>4
  <2>9. s2 - g2 - f2 = s1 - g1 - f1
    BY <1>6, <2>7, <2>8
  <2>10. s1 = g1 + f1 <=> s2 = g2 + f2
    BY <2>9
  <2> QED BY <2>5, <2>6, <2>7, <2>8, <2>10
<1> QED BY <1>3, <1>4, <1>7, MovesKeep

\* The user or the service sends a chunk.
LEMMA SendStep ==
  ASSUME ForwardingInv, NEW d \in Dirs, Forwarding!Send(d)
  PROVE  ForwardingInv'
<1> DEFINE l == Forwarding!Own(d)
           c == Forwarding!More(chan[l][d])
<1>1. l \in Links
  BY DirsAre, ForwardingNames
<1>2. ChanTypes /\ chan[l][d].n \in Nat /\ chan[l][d] \in Chunks
  BY <1>1, ChanTypesAre DEF ForwardingInv, ChanTypes
<1>3. /\ ~shut[l][d] /\ chan[l][d].n < Cap /\ sent[d] < MaxChunks
      /\ chan' = [chan EXCEPT ![l][d] = c] /\ sent' = [sent EXCEPT ![d] = @ + 1]
      /\ UNCHANGED <<quic, shut, copy, relay, client, got, broken>>
  BY DEF Forwarding!Send, Forwarding!CanWrite
<1>4. c \in Chunks /\ c.n = chan[l][d].n + 1 /\ c.end = chan[l][d].end
  BY <1>2, <1>3, ForwardingConstants DEF Chunks, Forwarding!More
<1> HIDE DEF l, c
<1>5. sent[d] \in Nat /\ got[d] \in Nat
  BY <1>2, ForwardingConstants DEF ChanTypes
<1>6. sent' \in [Dirs -> 0..MaxChunks] /\ got' \in [Dirs -> 0..MaxChunks]
  BY <1>2, <1>3, <1>5, ForwardingConstants DEF ChanTypes
<1>7. sent'[d] = sent[d] + 1 /\ got'[d] = got[d] /\ \A e \in Dirs \ {d} : sent'[e] = sent[e]
  BY <1>2, <1>3 DEF ChanTypes
<1>8. sent'[d] - got'[d] - c.n = sent[d] - got[d] - chan[l][d].n
  BY <1>2, <1>4, <1>5, <1>7
<1> QED BY <1>1, <1>3, <1>4, <1>6, <1>7, <1>8, EndpointSteps

\* The user or the service reads a chunk.
LEMMA ReceiveStep ==
  ASSUME ForwardingInv, NEW d \in Dirs, Forwarding!Receive(d)
  PROVE  ForwardingInv'
<1> DEFINE l == Forwarding!Own(Forwarding!Other(d))
           c == Forwarding!Less(chan[l][d])
<1>1. l \in Links
  BY DirsAre, ForwardingNames
<1>2. ChanTypes /\ chan[l][d].n \in Nat /\ chan[l][d] \in Chunks
  BY <1>1, ChanTypesAre DEF ForwardingInv, ChanTypes
<1>3. /\ ~shut[l][d] /\ chan[l][d].n > 0
      /\ chan' = [chan EXCEPT ![l][d] = c] /\ got' = [got EXCEPT ![d] = @ + 1]
      /\ UNCHANGED <<quic, shut, copy, relay, client, sent, broken>>
  BY DEF Forwarding!Receive, Forwarding!CanRead
<1>4. c \in Chunks /\ c.n = chan[l][d].n - 1 /\ c.end = chan[l][d].end
  BY <1>2, <1>3, ForwardingConstants DEF Chunks, Forwarding!Less
<1>5. got[d] < MaxChunks /\ sent[d] \in Nat /\ got[d] \in Nat
  <2>1. got[d] + Flight(d) <= sent[d] /\ sent[d] \in Nat /\ got[d] \in Nat /\ sent[d] <= MaxChunks
    BY ChanTypesAre DEF ForwardingInv, LossInv
  <2>2. \A k \in {"user", "work", "local"} : chan[k][d].n \in Nat
    BY ChanTypesAre, DirsAre DEF ForwardingInv
  <2>3. /\ chan["user"][d].n \in Nat /\ chan["work"][d].n \in Nat /\ chan["local"][d].n \in Nat
    BY <2>2
  <2>4. l \in {"user", "work", "local"}
    BY <1>1, DirsAre
  <2> HIDE DEF l, c
  <2>5. Flight(d) > 0 /\ Flight(d) \in Nat
    BY <1>3, <2>3, <2>4 DEF Flight
  <2> HIDE DEF Flight
  <2> QED BY <2>1, <2>5, ForwardingConstants
<1> HIDE DEF l, c
<1>6. sent' \in [Dirs -> 0..MaxChunks] /\ got' \in [Dirs -> 0..MaxChunks]
  BY <1>2, <1>3, <1>5, ForwardingConstants DEF ChanTypes
<1>7. got'[d] = got[d] + 1 /\ sent'[d] = sent[d] /\ \A e \in Dirs \ {d} : got'[e] = got[e]
  BY <1>2, <1>3 DEF ChanTypes
<1>8. sent'[d] - got'[d] - c.n = sent[d] - got[d] - chan[l][d].n
  BY <1>2, <1>4, <1>5, <1>7
<1> QED BY <1>1, <1>3, <1>4, <1>6, <1>7, <1>8, EndpointSteps

\* The user or the service finishes sending.
LEMMA FinishStep ==
  ASSUME ForwardingInv, NEW d \in Dirs, Forwarding!Finish(d)
  PROVE  ForwardingInv'
<1> DEFINE l == Forwarding!Own(d)
           c == [n |-> chan[l][d].n, end |-> "fin"]
<1>1. l \in Links
  BY DirsAre, ForwardingNames
<1>2. ChanTypes /\ chan[l][d].n \in Nat /\ chan[l][d] \in Chunks
  BY <1>1, ChanTypesAre DEF ForwardingInv, ChanTypes
<1>3. /\ chan' = [chan EXCEPT ![l][d] = c]
      /\ UNCHANGED <<quic, shut, copy, relay, client, sent, got, broken>>
  BY DEF Forwarding!Finish
<1>4. c \in Chunks /\ c.n = chan[l][d].n /\ c.end # "open"
  BY <1>2, ForwardingConstants DEF Chunks
<1>5. l = Forwarding!Own(d)
  OBVIOUS
<1> HIDE DEF l, c
<1>6. sent' \in [Dirs -> 0..MaxChunks] /\ got' \in [Dirs -> 0..MaxChunks]
  BY <1>2, <1>3 DEF ChanTypes
<1>7. /\ sent'[d] - got'[d] - c.n = sent[d] - got[d] - chan[l][d].n
      /\ \A e \in Dirs \ {d} : sent'[e] = sent[e] /\ got'[e] = got[e]
  BY <1>3, <1>4
<1> QED BY <1>1, <1>3, <1>4, <1>5, <1>6, <1>7, EndpointSteps

\* Each connection is as it was or closed by one of its ends.
Closings ==
  /\ UNCHANGED <<sent, got, broken>>
  /\ chan' = [l \in Links |-> chan'[l]] /\ shut' = [l \in Links |-> shut'[l]]
  /\ \A l \in Links : Same(l) \/ \E d \in Dirs : Closes(l, d)

\* One end of a connection is closed: what that does to its two directions.
LEMMA OneCloses ==
  ASSUME ForwardingInv, NEW l \in Links, NEW d \in Dirs,
         NEW c \in Forwarding!CloseEnds(l, d, chan[l]),
         chan' = [chan EXCEPT ![l] = c], shut' = [shut EXCEPT ![l][d] = TRUE],
         UNCHANGED <<sent, got, broken>>
  PROVE  /\ Closings /\ Closes(l, d) /\ \A k \in Links \ {l} : Same(k)
         /\ \A k \in Links, e \in Dirs : shut'[k][e] <=> shut[k][e] \/ (k = l /\ e = d)
<1>1. ChanTypes
  BY ChanTypesAre DEF ForwardingInv
<1>2. Closes(l, d) /\ \A k \in Links \ {l} : Same(k)
  BY <1>1 DEF Closes, Same, ChanTypes
<1>3. \A k \in Links, e \in Dirs : shut'[k][e] <=> shut[k][e] \/ (k = l /\ e = d)
  BY <1>1 DEF ChanTypes
<1>4. chan' = [k \in Links |-> chan'[k]] /\ shut' = [k \in Links |-> shut'[k]]
  BY <1>1 DEF ChanTypes
<1> QED BY <1>2, <1>3, <1>4 DEF Closings

\* A side closes both of its connections, as far as they were open.
LEMMA BridgeCloses ==
  ASSUME ForwardingInv, NEW s \in Forwarding!Sides, Forwarding!CloseBridge(s),
         UNCHANGED <<sent, got, broken>>
  PROVE  LET near == Forwarding!Near(s)
             far == Forwarding!Far(s)
         IN /\ Closings
            /\ IF shut[near]["up"] THEN Same(near) ELSE Closes(near, "up")
            /\ IF shut[far]["down"] THEN Same(far) ELSE Closes(far, "down")
            /\ \A k \in Links \ {near, far} : Same(k)
            /\ \A k \in Links, e \in Dirs :
                 shut'[k][e] <=> shut[k][e] \/ (k = near /\ e = "up") \/ (k = far /\ e = "down")
<1> DEFINE near == Forwarding!Near(s)
           far == Forwarding!Far(s)
<1>1. near \in Links /\ far \in Links /\ near # far
  BY DirsAre, ForwardingNames
<1>2. PICK a \in Forwarding!CloseEnds(near, "up", chan[near]),
           b \in Forwarding!CloseEnds(far, "down", chan[far]) :
        /\ chan' = [chan EXCEPT ![near] = IF shut[near]["up"] THEN @ ELSE a,
                                ![far] = IF shut[far]["down"] THEN @ ELSE b]
        /\ shut' = [shut EXCEPT ![near]["up"] = TRUE, ![far]["down"] = TRUE]
  BY DEF Forwarding!CloseBridge, Forwarding!CloseBoth
<1> HIDE DEF near, far
<1>3. ChanTypes
  BY ChanTypesAre DEF ForwardingInv
<1>4. /\ chan'[near] = IF shut[near]["up"] THEN chan[near] ELSE a
      /\ chan'[far] = IF shut[far]["down"] THEN chan[far] ELSE b
      /\ \A k \in Links \ {near, far} : chan'[k] = chan[k]
      /\ chan' = [k \in Links |-> chan'[k]]
  BY <1>1, <1>2, <1>3 DEF ChanTypes
<1>5. /\ shut'[near] = [shut[near] EXCEPT !["up"] = TRUE]
      /\ shut'[far] = [shut[far] EXCEPT !["down"] = TRUE]
      /\ \A k \in Links \ {near, far} : shut'[k] = shut[k]
      /\ shut' = [k \in Links |-> shut'[k]]
  BY <1>1, <1>2, <1>3 DEF ChanTypes
<1>6. \A k \in Links : shut[k] \in [Dirs -> BOOLEAN]
  BY <1>3 DEF ChanTypes
<1>7. ASSUME NEW f \in [Dirs -> BOOLEAN], NEW e \in Dirs, f[e]
       PROVE  [f EXCEPT ![e] = TRUE] = f
  <2>1. \A k \in Dirs : [f EXCEPT ![e] = TRUE][k] = f[k]
    BY <1>7
  <2> QED BY <2>1
<1>8. IF shut[near]["up"] THEN Same(near) ELSE Closes(near, "up")
  <2>1. shut[near]["up"] => shut'[near] = shut[near]
    BY <1>1, <1>5, <1>6, <1>7, DirsAre
  <2> QED BY <2>1, <1>4, <1>5 DEF Same, Closes
<1>9. IF shut[far]["down"] THEN Same(far) ELSE Closes(far, "down")
  <2>1. shut[far]["down"] => shut'[far] = shut[far]
    BY <1>1, <1>5, <1>6, <1>7, DirsAre
  <2> QED BY <2>1, <1>4, <1>5 DEF Same, Closes
<1>10. \A k \in Links \ {near, far} : Same(k)
  BY <1>4, <1>5 DEF Same
<1>11. \A k \in Links, e \in Dirs :
         shut'[k][e] <=> shut[k][e] \/ (k = near /\ e = "up") \/ (k = far /\ e = "down")
  BY <1>1, <1>5, <1>6, DirsAre
<1>12. \A k \in Links : Same(k) \/ \E d \in Dirs : Closes(k, d)
  <2> TAKE k \in Links
  <2>1. CASE k = near
    BY <2>1, <1>8, DirsAre
  <2>2. CASE k = far
    BY <2>2, <1>9, DirsAre
  <2>3. CASE k \notin {near, far}
    BY <2>3, <1>10
  <2> QED BY <2>1, <2>2, <2>3
<1>13. Closings
  BY <1>4, <1>5, <1>12 DEF Closings
<1> QED BY <1>8, <1>9, <1>10, <1>11, <1>13 DEF near, far

\* What is left to show of a step that closes connections.
LEMMA ClosingStep ==
  ASSUME ForwardingInv, Closings, UNCHANGED quic,
         copy' \in [Forwarding!Sides -> [Dirs -> {"none", "runs", "done"}]],
         relay' \in {"waiting", "bridging", "over"},
         client' \in {"idle", "opened", "bridging", "over"},
         RelayInv', ClientInv', AnswerInv'
  PROVE  ForwardingInv'
<1>1. /\ chan' \in [Links -> [Dirs -> Chunks]] /\ shut' \in [Links -> [Dirs -> BOOLEAN]]
      /\ LossInv' /\ ShutInv' /\ EndInv'
  BY ClosingsKeep DEF Closings
<1>2. Forwarding!TypeOK'
  BY <1>1 DEF ForwardingInv, Forwarding!TypeOK, Links, Dirs, Chunks, Closings
<1> QED BY <1>1, <1>2 DEF ForwardingInv

\* A user who may still get the answer could before, and nothing of theirs is lost.
LEMMA HopeKept ==
  ASSUME ForwardingInv, Closings, Given => Given', Hopeful'
  PROVE  /\ Hopeful /\ Lossless("down") /\ (shut["user"]["up"] => client = "over")
         /\ \A l \in Links : chan'[l]["up"].n = chan[l]["up"].n
         /\ ~broken /\ chan["user"]["up"].end = "open"
         /\ ~shut["user"]["down"] /\ ~shut'["user"]["down"]
<1>1. /\ \A l \in Links, d \in Dirs : shut[l][d] => shut'[l][d]
      /\ \A d \in Dirs : Lossless(d)' =>
           Lossless(d) /\ \A l \in Links : chan'[l][d].n = chan[l][d].n
      /\ chan'["user"]["up"].end = "open" => chan["user"]["up"].end = "open"
  BY ClosingsKeep DEF Closings
<1>2. "up" \in Dirs /\ "down" \in Dirs /\ "user" \in Links
  BY DirsAre
<1>3. /\ ~broken' /\ Lossless("up")' /\ ~Given'
      /\ chan'["user"]["up"].end = "open" /\ ~shut'["user"]["down"]
  BY DEF Hopeful
<1>4. Lossless("up") /\ \A l \in Links : chan'[l]["up"].n = chan[l]["up"].n
  BY <1>1, <1>2, <1>3
<1>5. Hopeful
  BY <1>1, <1>2, <1>3, <1>4 DEF Hopeful, Closings
<1> QED BY <1>1, <1>2, <1>3, <1>4, <1>5 DEF ForwardingInv, AnswerInv, Hopeful

\* What a closing leaves of the answer: all of it, where each end that closes the
\* way down has read what was there, and each that closes the way up has too.
LEMMA AnswerLeft ==
  ASSUME ForwardingInv, Closings, Lossless("down"),
         \A l \in Links : chan'[l]["down"].n = chan[l]["down"].n
  PROVE  Lossless("down")'
BY DirsAre DEF Lossless, Flight, Closings

\* A copy of the relay reads the end or fails to write, and its session closes.
LEMMA RelayCopyEnds ==
  ASSUME ForwardingInv, NEW d \in Dirs, Forwarding!CopyEnds("relay", d)
  PROVE  ForwardingInv'
<1> USE ForwardingNames, DirsAre
<1>1. /\ Forwarding!MayEnd("relay", d) /\ Forwarding!CloseBridge("relay")
      /\ copy' = [copy EXCEPT !["relay"][d] = "done"]
      /\ relay' = "over" /\ client' = client /\ UNCHANGED <<quic, sent, got, broken>>
      /\ copy["relay"][d] = "runs"
  BY DEF Forwarding!CopyEnds, Forwarding!MayEnd
<1>2. /\ Closings
      /\ IF shut["user"]["up"] THEN Same("user") ELSE Closes("user", "up")
      /\ IF shut["work"]["down"] THEN Same("work") ELSE Closes("work", "down")
      /\ Same("local")
      /\ \A k \in Links, e \in Dirs : shut'[k][e] <=>
           shut[k][e] \/ (k = "user" /\ e = "up") \/ (k = "work" /\ e = "down")
  BY <1>1, BridgeCloses
<1>3. ChanTypes /\ relay # "waiting"
  BY <1>1, ChanTypesAre DEF ForwardingInv, RelayInv
<1>4. /\ copy' \in [Forwarding!Sides -> [Dirs -> {"none", "runs", "done"}]]
      /\ \A e \in Dirs : copy'["client"][e] = copy["client"][e]
      /\ \A e \in Dirs : copy'["relay"][e] = IF e = d THEN "done" ELSE copy["relay"][e]
  BY <1>1, <1>3 DEF ChanTypes
<1>5. relay = "bridging" \/ relay = "over"
  BY <1>3 DEF ForwardingInv, Forwarding!TypeOK
<1>6. \A e \in Dirs : copy["relay"][e] # "none"
  BY <1>1, <1>5 DEF ForwardingInv, RelayInv
<1>7. client # "idle"
  BY <1>1 DEF ForwardingInv, RelayInv
<1>8. RelayInv'
  <2>1. \A e \in Dirs : copy'["relay"][e] # "none"
    BY <1>4, <1>6
  <2>2. shut'["user"]["up"] /\ shut'["work"]["down"]
    BY <1>2
  <2> QED BY <1>1, <1>7, <2>1, <2>2 DEF RelayInv
<1>9. ClientInv'
  <2>1. \A e \in Dirs : shut'["local"][e] <=> shut["local"][e]
    BY <1>2
  <2>2. shut'["work"]["up"] <=> shut["work"]["up"]
    BY <1>2
  <2> QED BY <1>1, <1>4, <1>7, <2>1, <2>2 DEF ForwardingInv, ClientInv
<1>10. AnswerInv'
  <2> SUFFICES ASSUME Hopeful' PROVE Lossless("down")' /\ client = "over"
    BY <1>1 DEF AnswerInv
  <2>1. ~Given
    BY <1>6 DEF Given
  <2>2. /\ Hopeful /\ Lossless("down") /\ (shut["user"]["up"] => client = "over")
        /\ \A l \in Links : chan'[l]["up"].n = chan[l]["up"].n
        /\ ~broken /\ chan["user"]["up"].end = "open" /\ ~shut["user"]["down"]
    BY <1>2, <2>1, HopeKept
  <2>3. CASE relay = "over"
    <3>1. shut["user"]["up"] /\ shut["work"]["down"]
      BY <1>6, <2>3 DEF ForwardingInv, RelayInv
    <3>2. Same("user") /\ Same("work") /\ Same("local")
      BY <1>2, <3>1
    <3>3. \A l \in Links : chan'[l] = chan[l]
      BY <3>2 DEF Same
    <3> QED BY <1>2, <2>2, <3>1, <3>3, AnswerLeft
  <2>4. CASE relay = "bridging"
    <3>1. ~shut["user"]["up"] /\ ~shut["work"]["down"]
      BY <2>4 DEF ForwardingInv, RelayInv
    <3>2. Closes("user", "up") /\ Closes("work", "down") /\ Same("local")
      BY <1>2, <3>1
    <3>3. \A l \in Links, e \in Dirs : chan[l][e].n \in Nat
      BY ChanTypesAre DEF ForwardingInv
    <3>4. chan["user"]["down"].end = "open"
      BY <2>2, <3>1 DEF ForwardingInv, EndInv
    <3>5. chan["user"]["up"].n = 0
      <4>1. chan'["user"]["up"].n = 0
        BY <3>2, LinkClosed
      <4> QED BY <2>2, <4>1
    <3>6. d = "down" /\ chan["work"]["down"].n = 0 /\ chan["work"]["down"].end # "open"
      <4>1. CASE d = "up"
        BY <1>1, <2>2, <3>1, <3>5, <4>1 DEF Forwarding!MayEnd
      <4>2. CASE d = "down"
        <5>1. \/ chan["work"]["down"].n = 0 /\ chan["work"]["down"].end # "open"
              \/ chan["work"]["down"].n > 0 /\ ~Forwarding!CanWrite("user", "down")
          BY <1>1, <3>1, <4>2 DEF Forwarding!MayEnd
        <5> QED BY <2>2, <3>4, <4>2, <5>1 DEF Forwarding!CanWrite
      <4> QED BY <4>1, <4>2
    <3>7. shut["work"]["up"]
      BY <2>2, <3>6 DEF ForwardingInv, EndInv
    <3>8. client = "over"
      BY <1>7, <3>7 DEF ForwardingInv, Forwarding!TypeOK, ClientInv
    <3>9. chan'["user"]["down"].n = chan["user"]["down"].n
      BY <3>2, <3>5, LinkClosed
    <3>10. chan'["work"]["down"].n = chan["work"]["down"].n
      BY <3>2, <3>6, LinkClosed
    <3>11. chan'["local"]["down"].n = chan["local"]["down"].n
      BY <3>2 DEF Same
    <3> QED BY <1>2, <2>2, <3>8, <3>9, <3>10, <3>11, AnswerLeft
  <2> QED BY <1>5, <2>3, <2>4
<1> QED BY <1>1, <1>2, <1>4, <1>8, <1>9, <1>10, ClosingStep DEF ForwardingInv, Forwarding!TypeOK

\* A copy of the client reads the end or fails to write, and its bridge closes.
LEMMA ClientCopyEnds ==
  ASSUME ForwardingInv, NEW d \in Dirs, Forwarding!CopyEnds("client", d)
  PROVE  ForwardingInv'
<1> USE ForwardingNames, DirsAre
<1>1. /\ Forwarding!MayEnd("client", d) /\ Forwarding!CloseBridge("client")
      /\ copy' = [copy EXCEPT !["client"][d] = "done"]
      /\ relay' = relay /\ client' = "over" /\ UNCHANGED <<quic, sent, got, broken>>
      /\ copy["client"][d] = "runs"
  BY DEF Forwarding!CopyEnds, Forwarding!MayEnd
<1>2. /\ Closings
      /\ IF shut["work"]["up"] THEN Same("work") ELSE Closes("work", "up")
      /\ IF shut["local"]["down"] THEN Same("local") ELSE Closes("local", "down")
      /\ Same("user")
      /\ \A k \in Links, e \in Dirs : shut'[k][e] <=>
           shut[k][e] \/ (k = "work" /\ e = "up") \/ (k = "local" /\ e = "down")
  BY <1>1, BridgeCloses
<1>3. ChanTypes /\ (client = "bridging" \/ client = "over")
  BY <1>1, ChanTypesAre DEF ForwardingInv, ClientInv, Forwarding!TypeOK
<1>4. /\ copy' \in [Forwarding!Sides -> [Dirs -> {"none", "runs", "done"}]]
      /\ \A e \in Dirs : copy'["relay"][e] = copy["relay"][e]
  BY <1>1, <1>3 DEF ChanTypes
<1>5. RelayInv'
  <2>1. shut'["user"]["up"] <=> shut["user"]["up"]
    BY <1>2
  <2>2. shut'["work"]["down"] <=> shut["work"]["down"]
    BY <1>2
  <2> QED BY <1>1, <1>3, <1>4, <2>1, <2>2 DEF ForwardingInv, RelayInv
<1>6. ClientInv'
  BY <1>1, <1>2 DEF ClientInv
<1>7. AnswerInv'
  <2> SUFFICES ASSUME Hopeful' PROVE Lossless("down")'
    BY <1>1 DEF AnswerInv
  <2>1. Given => Given'
    BY <1>1, <1>4 DEF Given
  <2>2. /\ Hopeful /\ Lossless("down") /\ (shut["user"]["up"] => client = "over")
        /\ \A l \in Links : chan'[l]["up"].n = chan[l]["up"].n
        /\ ~broken
    BY <1>2, <2>1, HopeKept
  <2>3. CASE client = "over"
    <3>1. Same("user") /\ Same("work") /\ Same("local")
      BY <1>2, <2>3 DEF ForwardingInv, ClientInv
    <3>2. \A l \in Links : chan'[l] = chan[l]
      BY <3>1 DEF Same
    <3> QED BY <1>2, <2>2, <3>2, AnswerLeft
  <2>4. CASE client = "bridging"
    <3>1. ~shut["work"]["up"] /\ ~shut["local"]["down"]
      BY <2>4 DEF ForwardingInv, ClientInv
    <3>2. Closes("work", "up") /\ Closes("local", "down") /\ Same("user")
      BY <1>2, <3>1
    <3>3. \A l \in Links, e \in Dirs : chan[l][e].n \in Nat
      BY ChanTypesAre DEF ForwardingInv
    <3>4. ~shut["work"]["down"]
      <4>1. relay # "over"
        BY <2>2, <2>4 DEF ForwardingInv, RelayInv
      <4> QED BY <2>4, <4>1 DEF ForwardingInv, RelayInv
    <3>5. chan["work"]["up"].end = "open" /\ chan["work"]["down"].end = "open"
      BY <2>2, <3>1, <3>4 DEF ForwardingInv, EndInv
    <3>6. chan["work"]["up"].n = 0
      <4>1. chan'["work"]["up"].n = 0
        BY <3>2, LinkClosed
      <4> QED BY <2>2, <4>1
    <3>7. chan["local"]["down"].n = 0
      <4>1. CASE d = "up"
        BY <1>1, <3>1, <3>5, <3>6, <4>1 DEF Forwarding!MayEnd
      <4>2. CASE d = "down"
        <5>1. \/ chan["local"]["down"].n = 0
              \/ chan["local"]["down"].n > 0 /\ ~Forwarding!CanWrite("work", "down")
          BY <1>1, <3>1, <4>2 DEF Forwarding!MayEnd
        <5> QED BY <3>4, <3>5, <5>1 DEF Forwarding!CanWrite
      <4> QED BY <4>1, <4>2
    <3>8. chan'["work"]["down"].n = chan["work"]["down"].n
      BY <3>2, <3>6, LinkClosed
    <3>9. chan'["local"]["down"].n = chan["local"]["down"].n
      BY <3>2, <3>7, LinkClosed
    <3>10. chan'["user"]["down"].n = chan["user"]["down"].n
      BY <3>2 DEF Same
    <3> QED BY <1>2, <2>2, <3>8, <3>9, <3>10, AnswerLeft
  <2> QED BY <1>3, <2>3, <2>4
<1> QED BY <1>1, <1>2, <1>4, <1>5, <1>6, <1>7, ClosingStep DEF ForwardingInv, Forwarding!TypeOK

\* GiveUp, Refuse, DialFails and Close: one connection is closed.
LEMMA OneClosingSteps ==
  ASSUME ForwardingInv,
         Forwarding!GiveUp \/ Forwarding!Refuse \/ Forwarding!DialFails
         \/ \E d \in Dirs : Forwarding!Close(d)
  PROVE  ForwardingInv'
<1> USE ForwardingNames, DirsAre
<1>1. ChanTypes /\ \A l \in Links, d \in Dirs : chan[l][d].n \in Nat
  BY ChanTypesAre DEF ForwardingInv
<1>2. CASE Forwarding!GiveUp
  <2>1. PICK c \in Forwarding!CloseEnds("user", "up", chan["user"]) :
          chan' = [chan EXCEPT !["user"] = c]
    BY <1>2 DEF Forwarding!GiveUp
  <2>2. /\ relay = "waiting" /\ relay' = "over" /\ shut' = [shut EXCEPT !["user"]["up"] = TRUE]
        /\ UNCHANGED <<quic, copy, client, sent, got, broken>>
    BY <1>2 DEF Forwarding!GiveUp
  <2>3. /\ Closings
        /\ \A k \in Links, e \in Dirs : shut'[k][e] <=> shut[k][e] \/ (k = "user" /\ e = "up")
    BY <2>1, <2>2, OneCloses
  <2>4. \A d \in Dirs : copy["relay"][d] = "none"
    BY <2>2 DEF ForwardingInv, RelayInv
  <2>5. RelayInv'
    BY <2>2, <2>3, <2>4 DEF ForwardingInv, RelayInv
  <2>6. ClientInv'
    BY <2>2, <2>3 DEF ForwardingInv, ClientInv
  <2>7. AnswerInv'
    BY <2>2, <2>4 DEF AnswerInv, Hopeful, Given
  <2> QED
    BY <1>1, <2>2, <2>3, <2>5, <2>6, <2>7, ClosingStep DEF ForwardingInv, Forwarding!TypeOK, ChanTypes
<1>3. CASE Forwarding!Refuse
  <2>1. PICK c \in Forwarding!CloseEnds("work", "down", chan["work"]) :
          chan' = [chan EXCEPT !["work"] = c]
    BY <1>3 DEF Forwarding!Refuse
  <2>2. /\ relay = "over" /\ copy["relay"]["up"] = "none"
        /\ shut' = [shut EXCEPT !["work"]["down"] = TRUE]
        /\ UNCHANGED <<quic, copy, relay, client, sent, got, broken>>
    BY <1>3 DEF Forwarding!Refuse, Forwarding!MayRefuse
  <2>3. /\ Closings
        /\ \A k \in Links, e \in Dirs : shut'[k][e] <=> shut[k][e] \/ (k = "work" /\ e = "down")
    BY <2>1, <2>2, OneCloses
  <2>4. RelayInv'
    BY <2>2, <2>3 DEF ForwardingInv, RelayInv
  <2>5. ClientInv'
    BY <2>2, <2>3 DEF ForwardingInv, ClientInv
  <2>6. AnswerInv'
    BY <2>2 DEF AnswerInv, Hopeful, Given
  <2> QED
    BY <1>1, <2>2, <2>3, <2>4, <2>5, <2>6, ClosingStep DEF ForwardingInv, Forwarding!TypeOK, ChanTypes
<1>4. CASE Forwarding!DialFails
  <2>1. PICK c \in Forwarding!CloseEnds("work", "up", chan["work"]) :
          chan' = [chan EXCEPT !["work"] = c]
    BY <1>4 DEF Forwarding!DialFails
  <2>2. /\ client = "opened" /\ client' = "over" /\ shut' = [shut EXCEPT !["work"]["up"] = TRUE]
        /\ UNCHANGED <<quic, copy, relay, sent, got, broken>>
    BY <1>4 DEF Forwarding!DialFails
  <2>3. /\ Closings /\ Closes("work", "up") /\ Same("user") /\ Same("local")
        /\ \A k \in Links, e \in Dirs : shut'[k][e] <=> shut[k][e] \/ (k = "work" /\ e = "up")
    BY <2>1, <2>2, OneCloses
  <2>4. RelayInv'
    BY <2>2, <2>3 DEF ForwardingInv, RelayInv
  <2>5. ClientInv'
    BY <2>2, <2>3 DEF ForwardingInv, ClientInv
  <2>6. AnswerInv'
    <3> SUFFICES ASSUME Hopeful' PROVE Lossless("down")'
      BY <2>2 DEF AnswerInv
    <3>1. /\ Lossless("down") /\ \A l \in Links : chan'[l]["up"].n = chan[l]["up"].n
      BY <2>2, <2>3, HopeKept DEF Given
    <3>2. chan'["work"]["up"].n = 0
      BY <2>3, LinkClosed
    <3>3. chan["work"]["up"].n = 0
      BY <3>1, <3>2
    <3>4. chan'["work"]["down"].n = chan["work"]["down"].n
      BY <2>3, <3>3, LinkClosed
    <3>5. \A l \in Links : chan'[l]["down"].n = chan[l]["down"].n
      BY <2>3, <3>4 DEF Same
    <3> QED BY <2>3, <3>1, <3>5, AnswerLeft
  <2> QED
    BY <1>1, <2>2, <2>3, <2>4, <2>5, <2>6, ClosingStep DEF ForwardingInv, Forwarding!TypeOK, ChanTypes
<1>5. ASSUME NEW d \in Dirs, Forwarding!Close(d) PROVE ForwardingInv'
  <2> DEFINE l == Forwarding!Own(d)
             o == Forwarding!Other(d)
  <2>1. PICK c \in Forwarding!CloseEnds(l, o, chan[l]) : chan' = [chan EXCEPT ![l] = c]
    BY <1>5 DEF Forwarding!Close
  <2>2. /\ shut' = [shut EXCEPT ![l][o] = TRUE]
        /\ UNCHANGED <<quic, copy, relay, client, sent, got, broken>>
    BY <1>5 DEF Forwarding!Close
  <2>3. l \in Links /\ o \in Dirs /\ ((l = "user" /\ o = "down") \/ (l = "local" /\ o = "up"))
    OBVIOUS
  <2> HIDE DEF l, o
  <2>4. /\ Closings /\ Closes(l, o) /\ \A k \in Links \ {l} : Same(k)
        /\ \A k \in Links, e \in Dirs : shut'[k][e] <=> shut[k][e] \/ (k = l /\ e = o)
    <3> HIDE ForwardingNames, DirsAre
    <3> QED BY <2>1, <2>2, <2>3, OneCloses
  <2>5. RelayInv'
    BY <2>2, <2>3, <2>4 DEF ForwardingInv, RelayInv
  <2>6. ClientInv'
    BY <2>2, <2>3, <2>4 DEF ForwardingInv, ClientInv
  <2>7. AnswerInv'
    <3> SUFFICES ASSUME Hopeful' PROVE Lossless("down")' /\ (shut'["user"]["up"] => client = "over")
      BY <2>2 DEF AnswerInv
    <3>1. /\ Lossless("down") /\ (shut["user"]["up"] => client = "over")
          /\ \A k \in Links : chan'[k]["up"].n = chan[k]["up"].n
          /\ ~shut'["user"]["down"]
      BY <2>2, <2>4, HopeKept DEF Given
    <3>2. l = "local" /\ o = "up"
      BY <2>3, <2>4, <3>1
    <3>3. chan'["local"]["up"].n = 0
      BY <2>4, <3>2, LinkClosed
    <3>4. chan["local"]["up"].n = 0
      BY <3>1, <3>3
    <3>5. chan'["local"]["down"].n = chan["local"]["down"].n
      BY <2>4, <3>2, <3>4, LinkClosed
    <3>6. \A k \in Links : chan'[k]["down"].n = chan[k]["down"].n
      BY <2>4, <3>2, <3>5 DEF Same
    <3>7. shut'["user"]["up"] <=> shut["user"]["up"]
      BY <2>4, <3>2
    <3> QED BY <2>4, <3>1, <3>6, <3>7, AnswerLeft
  <2> QED
    BY <1>1, <2>2, <2>4, <2>5, <2>6, <2>7, ClosingStep DEF ForwardingInv, Forwarding!TypeOK, ChanTypes
<1> QED BY <1>2, <1>3, <1>4, <1>5

\* OpenWorkConn and DialService: a connection that both ends have closed is made.
LEMMA LinkOpens ==
  ASSUME ForwardingInv, NEW l \in Links, \A d \in Dirs : shut[l][d],
         chan' = [chan EXCEPT ![l] = [d \in Forwarding!Dirs |-> [n |-> 0, end |-> "open"]]],
         shut' = [shut EXCEPT ![l] = [d \in Forwarding!Dirs |-> FALSE]],
         UNCHANGED <<sent, got, broken>>
  PROVE  /\ chan' \in [Links -> [Dirs -> Chunks]] /\ shut' \in [Links -> [Dirs -> BOOLEAN]]
         /\ LossInv' /\ ShutInv' /\ EndInv'
         /\ \A k \in Links, d \in Dirs : shut'[k][d] <=> shut[k][d] /\ k # l
         /\ \A k \in Links, d \in Dirs : k # l => chan'[k][d] = chan[k][d]
         /\ \A d \in Dirs : Lossless(d)' <=> Lossless(d)
<1>1. ChanTypes /\ \A k \in Links, d \in Dirs : chan[k][d].n \in Nat
  BY ChanTypesAre DEF ForwardingInv
<1>2. Forwarding!Dirs = Dirs
  BY DEF Dirs
<1>3. [n |-> 0, end |-> "open"] \in Chunks
  BY ForwardingConstants DEF Chunks
<1>4. chan' \in [Links -> [Dirs -> Chunks]] /\ shut' \in [Links -> [Dirs -> BOOLEAN]]
  BY <1>1, <1>2, <1>3 DEF ChanTypes
<1>5. \A k \in Links, d \in Dirs :
        /\ shut'[k][d] <=> shut[k][d] /\ k # l
        /\ k # l => chan'[k][d] = chan[k][d]
        /\ k = l => chan'[k][d].n = 0 /\ chan'[k][d].end = "open"
  BY <1>1, <1>2 DEF ChanTypes
<1>6. \A d \in Dirs : chan[l][d].n = 0
  BY DEF ForwardingInv, ShutInv
<1>7. \A d \in Dirs : Forwarding!Other(d) \in Dirs
  BY DirsAre, ForwardingNames
<1>8. \A k \in Links, d \in Dirs : chan'[k][d].n = chan[k][d].n
  BY <1>5, <1>6
<1>9. \A d \in Dirs : Flight(d)' = Flight(d)
  BY <1>8, DirsAre DEF Flight
<1>10. LossInv' /\ \A d \in Dirs : Lossless(d)' <=> Lossless(d)
  BY <1>9 DEF ForwardingInv, LossInv, Lossless
<1>11. ShutInv'
  BY <1>5, <1>7 DEF ForwardingInv, ShutInv
<1>12. EndInv'
  BY <1>5, <1>7 DEF ForwardingInv, EndInv
<1> QED BY <1>4, <1>5, <1>10, <1>11, <1>12

\* The client opens the work connection, and dials the service.
LEMMA OpeningSteps ==
  ASSUME ForwardingInv, Forwarding!OpenWorkConn \/ Forwarding!DialService
  PROVE  ForwardingInv'
<1> USE DirsAre, ForwardingNames
<1>1. ChanTypes
  BY ChanTypesAre DEF ForwardingInv
<1>2. CASE Forwarding!OpenWorkConn
  <2>1. /\ client = "idle" /\ client' = "opened"
        /\ chan' = [chan EXCEPT !["work"] = [d \in Forwarding!Dirs |-> [n |-> 0, end |-> "open"]]]
        /\ shut' = [shut EXCEPT !["work"] = [d \in Forwarding!Dirs |-> FALSE]]
        /\ UNCHANGED <<quic, copy, relay, sent, got, broken>>
    BY <1>2 DEF Forwarding!OpenWorkConn
  <2>2. \A d \in Dirs : shut["work"][d]
    BY <2>1 DEF ForwardingInv, ClientInv
  <2>3. /\ chan' \in [Links -> [Dirs -> Chunks]] /\ shut' \in [Links -> [Dirs -> BOOLEAN]]
        /\ LossInv' /\ ShutInv' /\ EndInv'
        /\ \A k \in Links, d \in Dirs : shut'[k][d] <=> shut[k][d] /\ k # "work"
        /\ \A k \in Links, d \in Dirs : k # "work" => chan'[k][d] = chan[k][d]
        /\ \A d \in Dirs : Lossless(d)' <=> Lossless(d)
    BY <2>1, <2>2, LinkOpens
  <2>4. RelayInv'
    BY <2>1, <2>3 DEF ForwardingInv, RelayInv
  <2>5. ClientInv'
    BY <2>1, <2>3 DEF ForwardingInv, ClientInv
  <2>6. AnswerInv'
    <3>1. Hopeful' => Hopeful
      BY <2>1, <2>3 DEF Hopeful, Given
    <3>2. (shut'["user"]["up"] <=> shut["user"]["up"]) /\ (Lossless("down")' <=> Lossless("down"))
      BY <2>3
    <3>3. AnswerInv /\ client # "over"
      BY <2>1 DEF ForwardingInv
    <3> QED BY <3>1, <3>2, <3>3 DEF AnswerInv
  <2>7. Forwarding!TypeOK'
    BY <2>1, <2>3 DEF ForwardingInv, Forwarding!TypeOK, Links, Dirs, Chunks
  <2> QED BY <2>3, <2>4, <2>5, <2>6, <2>7 DEF ForwardingInv
<1>3. CASE Forwarding!DialService
  <2>1. /\ client = "opened" /\ client' = "bridging"
        /\ chan' = [chan EXCEPT !["local"] = [d \in Forwarding!Dirs |-> [n |-> 0, end |-> "open"]]]
        /\ shut' = [shut EXCEPT !["local"] = [d \in Forwarding!Dirs |-> FALSE]]
        /\ copy' = [copy EXCEPT !["client"] = [d \in Forwarding!Dirs |-> "runs"]]
        /\ UNCHANGED <<quic, relay, sent, got, broken>>
    BY <1>3 DEF Forwarding!DialService
  <2>2. \A d \in Dirs : shut["local"][d]
    BY <2>1 DEF ForwardingInv, ClientInv
  <2>3. /\ chan' \in [Links -> [Dirs -> Chunks]] /\ shut' \in [Links -> [Dirs -> BOOLEAN]]
        /\ LossInv' /\ ShutInv' /\ EndInv'
        /\ \A k \in Links, d \in Dirs : shut'[k][d] <=> shut[k][d] /\ k # "local"
        /\ \A k \in Links, d \in Dirs : k # "local" => chan'[k][d] = chan[k][d]
        /\ \A d \in Dirs : Lossless(d)' <=> Lossless(d)
    BY <2>1, <2>2, LinkOpens
  <2>4. /\ \A d \in Dirs : copy'["client"][d] = "runs" /\ copy'["relay"][d] = copy["relay"][d]
        /\ copy' \in [Forwarding!Sides -> [Dirs -> {"none", "runs", "done"}]]
    <3>1. Forwarding!Dirs = Dirs
      BY DEF Dirs
    <3> QED BY <1>1, <2>1, <3>1 DEF ChanTypes
  <2>5. RelayInv'
    BY <2>1, <2>3, <2>4 DEF ForwardingInv, RelayInv
  <2>6. ClientInv'
    BY <2>1, <2>3, <2>4 DEF ForwardingInv, ClientInv
  <2>7. AnswerInv'
    <3>1. Hopeful' => Hopeful
      BY <2>1, <2>3, <2>4 DEF Hopeful, Given
    <3>2. (shut'["user"]["up"] <=> shut["user"]["up"]) /\ (Lossless("down")' <=> Lossless("down"))
      BY <2>3
    <3>3. AnswerInv /\ client # "over"
      BY <2>1 DEF ForwardingInv
    <3> QED BY <3>1, <3>2, <3>3 DEF AnswerInv
  <2>8. Forwarding!TypeOK'
    BY <2>1, <2>3, <2>4 DEF ForwardingInv, Forwarding!TypeOK, Links, Dirs, Chunks
  <2> QED BY <2>3, <2>5, <2>6, <2>7, <2>8 DEF ForwardingInv
<1> QED BY <1>2, <1>3

\* The work connection fails, or is attached to its session.
LEMMA StageSteps ==
  ASSUME ForwardingInv, Forwarding!OpenFails \/ Forwarding!Attach
  PROVE  ForwardingInv'
<1> USE DirsAre, ForwardingNames
<1>1. ChanTypes
  BY ChanTypesAre DEF ForwardingInv
<1>2. UNCHANGED <<quic, chan, shut, sent, got, broken>>
  BY DEF Forwarding!OpenFails, Forwarding!Attach
<1>3. LossInv' /\ ShutInv' /\ EndInv' /\ \A d \in Dirs : Lossless(d)' <=> Lossless(d)
  BY <1>2 DEF ForwardingInv, LossInv, ShutInv, EndInv, Flight, Lossless
<1>4. CASE Forwarding!OpenFails
  <2>1. client = "idle" /\ client' = "over" /\ UNCHANGED <<copy, relay>>
    BY <1>4 DEF Forwarding!OpenFails
  <2>2. RelayInv' /\ ClientInv'
    BY <1>2, <2>1 DEF ForwardingInv, RelayInv, ClientInv
  <2>3. AnswerInv'
    <3>1. Hopeful' => Hopeful
      BY <1>2, <1>3, <2>1 DEF Hopeful, Given
    <3> QED BY <1>2, <1>3, <2>1, <3>1 DEF ForwardingInv, AnswerInv
  <2>4. Forwarding!TypeOK'
    BY <1>2, <2>1 DEF ForwardingInv, Forwarding!TypeOK
  <2> QED BY <1>3, <2>2, <2>3, <2>4 DEF ForwardingInv
<1>5. CASE Forwarding!Attach
  <2>1. /\ relay = "waiting" /\ relay' = "bridging" /\ client # "idle" /\ ~shut["work"]["down"]
        /\ copy' = [copy EXCEPT !["relay"] = [d \in Forwarding!Dirs |-> "runs"]]
        /\ UNCHANGED client
    BY <1>5 DEF Forwarding!Attach, Forwarding!MayAttach
  <2>2. /\ \A d \in Dirs : copy'["relay"][d] = "runs" /\ copy'["client"][d] = copy["client"][d]
        /\ copy' \in [Forwarding!Sides -> [Dirs -> {"none", "runs", "done"}]]
    <3>1. Forwarding!Dirs = Dirs
      BY DEF Dirs
    <3> QED BY <1>1, <2>1, <3>1 DEF ChanTypes
  <2>3. RelayInv' /\ ClientInv'
    BY <1>2, <2>1, <2>2 DEF ForwardingInv, RelayInv, ClientInv
  <2>4. AnswerInv'
    <3>1. Hopeful' => Hopeful
      BY <1>2, <1>3, <2>1 DEF Hopeful, Given
    <3> QED BY <1>2, <1>3, <2>1, <3>1 DEF ForwardingInv, AnswerInv
  <2>5. Forwarding!TypeOK'
    BY <1>2, <2>1, <2>2 DEF ForwardingInv, Forwarding!TypeOK, Links, Dirs, Chunks
  <2> QED BY <1>3, <2>3, <2>4, <2>5 DEF ForwardingInv
<1> QED BY <1>4, <1>5

\* A connection breaks.
LEMMA BreakStep ==
  ASSUME ForwardingInv, NEW l \in Links, Forwarding!Break(l)
  PROVE  ForwardingInv'
<1>1. ChanTypes /\ \A k \in Links, d \in Dirs : chan[k][d].n \in Nat
  BY ChanTypesAre DEF ForwardingInv
<1>2. /\ chan' = [chan EXCEPT ![l] = [d \in Dirs |-> [n |-> 0, end |-> "rst"]]]
      /\ broken' /\ UNCHANGED <<quic, shut, copy, relay, client, sent, got>>
  BY DEF Forwarding!Break, Dirs
<1>3. [n |-> 0, end |-> "rst"] \in Chunks
  BY ForwardingConstants DEF Chunks
<1>4. chan' \in [Links -> [Dirs -> Chunks]]
  BY <1>1, <1>2, <1>3 DEF ChanTypes
<1>5. \A k \in Links, d \in Dirs :
        /\ k # l => chan'[k][d] = chan[k][d]
        /\ k = l => chan'[k][d].n = 0 /\ chan'[k][d].end = "rst"
  BY <1>1, <1>2 DEF ChanTypes
<1>6. \A d \in Dirs : Forwarding!Other(d) \in Dirs
  BY DirsAre, ForwardingNames
<1>7. ShutInv' /\ EndInv'
  BY <1>2, <1>5, <1>6 DEF ForwardingInv, ShutInv, EndInv
<1>8. ASSUME NEW d \in Dirs PROVE (got[d] + Flight(d) <= sent[d])'
  <2>1. got[d] + Flight(d) <= sent[d] /\ got[d] \in Nat /\ sent[d] \in Nat
    BY ChanTypesAre DEF ForwardingInv, LossInv
  <2>2. \A k \in {"user", "work", "local"} :
          chan'[k][d].n \in Nat /\ chan[k][d].n \in Nat /\ chan'[k][d].n <= chan[k][d].n
    BY <1>1, <1>5, DirsAre
  <2>3. /\ chan'["user"][d].n \in Nat /\ chan["user"][d].n \in Nat
        /\ chan'["user"][d].n <= chan["user"][d].n
        /\ chan'["work"][d].n \in Nat /\ chan["work"][d].n \in Nat
        /\ chan'["work"][d].n <= chan["work"][d].n
        /\ chan'["local"][d].n \in Nat /\ chan["local"][d].n \in Nat
        /\ chan'["local"][d].n <= chan["local"][d].n
    BY <2>2
  <2>4. Flight(d)' \in Nat /\ Flight(d) \in Nat /\ Flight(d)' <= Flight(d)
    BY <2>3 DEF Flight
  <2>5. got'[d] = got[d] /\ sent'[d] = sent[d]
    BY <1>2
  <2> HIDE DEF Flight
  <2>6. got[d] + Flight(d)' <= sent[d]
    BY <2>1, <2>4
  <2> QED BY <2>5, <2>6
<1>9. LossInv'
  BY <1>8 DEF LossInv
<1>10. RelayInv' /\ ClientInv' /\ AnswerInv'
  BY <1>2 DEF ForwardingInv, RelayInv, ClientInv, AnswerInv, Hopeful
<1>11. Forwarding!TypeOK'
  BY <1>2, <1>4 DEF ForwardingInv, Forwarding!TypeOK, Links, Dirs, Chunks
<1> QED BY <1>7, <1>9, <1>10, <1>11 DEF ForwardingInv

\* A step of the forwarding keeps its invariant.
LEMMA ForwardingStep == ForwardingInv /\ Forwarding!Next => ForwardingInv'
<1> SUFFICES ASSUME ForwardingInv, Forwarding!Next PROVE ForwardingInv'
  OBVIOUS
<1> USE DEF Dirs, Links
<1>1. ASSUME NEW s \in Forwarding!Sides, NEW d \in Forwarding!Dirs, Forwarding!Copies(s, d)
      PROVE  ForwardingInv'
  BY <1>1, CopiesStep
<1>2. ASSUME NEW s \in Forwarding!Sides, NEW d \in Forwarding!Dirs, Forwarding!CopyEnds(s, d)
      PROVE  ForwardingInv'
  BY <1>2, RelayCopyEnds, ClientCopyEnds, ForwardingNames
<1>3. ASSUME NEW d \in Forwarding!Dirs,
             Forwarding!Send(d) \/ Forwarding!Receive(d) \/ Forwarding!Finish(d)
      PROVE  ForwardingInv'
  BY <1>3, SendStep, ReceiveStep, FinishStep
<1>4. ASSUME NEW d \in Forwarding!Dirs, Forwarding!Close(d)
      PROVE  ForwardingInv'
  BY <1>4, OneClosingSteps
<1>5. ASSUME Forwarding!GiveUp \/ Forwarding!Refuse \/ Forwarding!DialFails
      PROVE  ForwardingInv'
  BY <1>5, OneClosingSteps
<1>6. ASSUME NEW l \in Forwarding!Links, Forwarding!Break(l)
      PROVE  ForwardingInv'
  BY <1>6, BreakStep
<1> QED
  BY <1>1, <1>2, <1>3, <1>4, <1>5, <1>6, OpeningSteps, StageSteps
     DEF Forwarding!Next, Forwarding!Forward

\* A copy that can neither copy nor end waits for data, with room where it writes.
LEMMA CopyWaits ==
  ASSUME ForwardingInv, Forwarding!Idle, ~Forwarding!Full,
         NEW s \in Forwarding!Sides, NEW d \in Dirs, copy[s][d] = "runs"
  PROVE  ~shut[Forwarding!From(s, d)][d] /\ chan[Forwarding!From(s, d)][d].end = "open"
<1> DEFINE from == Forwarding!From(s, d)
           into == Forwarding!Into(s, d)
<1>1. from \in Links /\ into \in Links
  BY DirsAre, ForwardingNames
<1>2. ~Forwarding!MayCopy(s, d) /\ ~Forwarding!MayEnd(s, d)
  BY DEF Forwarding!Idle, Dirs
<1>3. /\ chan[from][d].n \in Nat /\ chan[into][d].n \in Nat
      /\ chan[into][d].n <= Cap /\ chan[into][d].n # Cap
  BY <1>1, ChanTypesAre DEF ForwardingInv, Forwarding!Full, Links, Dirs
<1>4. ~shut[from][d] /\ (chan[from][d].n = 0 => chan[from][d].end = "open")
  BY <1>2 DEF Forwarding!MayEnd
<1>5. ~(chan[from][d].n > 0)
  <2> SUFFICES ASSUME chan[from][d].n > 0 PROVE FALSE
    OBVIOUS
  <2>1. Forwarding!CanWrite(into, d)
    BY <1>2 DEF Forwarding!MayEnd
  <2>2. chan[into][d].n < Cap
    BY <1>3, ForwardingConstants
  <2> QED BY <1>2, <1>4, <2>1, <2>2 DEF Forwarding!MayCopy, Forwarding!CanRead
<1> QED BY <1>3, <1>4, <1>5

\* The invariant of the forwarding gives its properties.
LEMMA ForwardingHolds ==
  ForwardingInv => Forwarding!TypeOK /\ Forwarding!AnswerIsWhole /\ Forwarding!EndsSpread
<1> SUFFICES ASSUME ForwardingInv PROVE Forwarding!AnswerIsWhole /\ Forwarding!EndsSpread
  BY DEF ForwardingInv
<1> USE DirsAre, ForwardingNames
<1>1. Forwarding!AnswerIsWhole
  <2> SUFFICES ASSUME chan["user"]["down"].n = 0, chan["user"]["down"].end = "fin",
                      ~shut["user"]["down"], chan["user"]["up"].end = "open",
                      sent["up"] = got["up"], copy["relay"]["down"] # "none", ~broken
               PROVE  got["down"] = sent["down"]
    BY DEF Forwarding!AnswerIsWhole
  <2>1. \A l \in {"user", "work", "local"}, d \in {"up", "down"} : chan[l][d].n \in Nat
    BY ChanTypesAre DEF ForwardingInv
  <2>2. sent["up"] \in Nat /\ got["up"] \in Nat /\ sent["down"] \in Nat /\ got["down"] \in Nat
    BY ChanTypesAre DEF ForwardingInv
  <2>3. Lossless("up")
    <3>1. got["up"] + Flight("up") <= sent["up"]
      BY DEF ForwardingInv, LossInv
    <3>2. Flight("up") \in Nat
      <4>1. chan["user"]["up"].n \in Nat /\ chan["work"]["up"].n \in Nat /\ chan["local"]["up"].n \in Nat
        BY <2>1
      <4> QED BY <4>1 DEF Flight
    <3> HIDE DEF Flight
    <3>3. PICK f \in Nat, g \in Nat : f = Flight("up") /\ g = got["up"]
      BY <2>2, <3>2
    <3>4. f = 0
      BY <3>1, <3>3
    <3>5. g = g + f
      BY <3>4
    <3> QED BY <3>3, <3>5 DEF Lossless
  <2>4. ~Given
    BY DEF Given, ForwardingInv, RelayInv
  <2>5. Lossless("down") /\ (shut["user"]["up"] => client = "over")
    BY <2>3, <2>4 DEF ForwardingInv, AnswerInv, Hopeful
  <2>6. shut["user"]["up"]
    BY DEF ForwardingInv, EndInv
  <2>7. shut["local"]["down"]
    BY <2>5, <2>6 DEF ForwardingInv, ClientInv
  <2>8. relay = "over"
    BY <2>6 DEF ForwardingInv, RelayInv, Forwarding!TypeOK
  <2>9. shut["work"]["down"]
    BY <2>8 DEF ForwardingInv, RelayInv
  <2>10. chan["local"]["down"].n = 0 /\ chan["work"]["down"].n = 0
    BY <2>7, <2>9 DEF ForwardingInv, ShutInv
  <2>11. Flight("down") = 0
    BY <2>10 DEF Flight
  <2> QED BY <2>2, <2>5, <2>11 DEF Lossless
<1>2. Forwarding!EndsSpread
  <2> SUFFICES ASSUME relay # "waiting", client # "idle",
                      \E l \in Links : Forwarding!Over(l), ~Forwarding!Full, Forwarding!Idle
               PROVE  /\ shut["user"]["up"] /\ shut["work"]["down"]
                      /\ shut["work"]["up"] /\ shut["local"]["down"]
    BY DEF Forwarding!EndsSpread, Links
  <2>1. (relay = "bridging" \/ relay = "over") /\ (client = "bridging" \/ client = "over")
    BY DEF ForwardingInv, Forwarding!TypeOK, Forwarding!Idle
  <2>2. ASSUME relay = "bridging"
        PROVE  /\ ~shut["user"]["up"] /\ chan["user"]["up"].end = "open"
               /\ ~shut["work"]["down"] /\ chan["work"]["down"].end = "open"
    <3>1. copy["relay"]["up"] = "runs" /\ copy["relay"]["down"] = "runs"
      BY <2>2 DEF ForwardingInv, RelayInv
    <3>2. ~shut["user"]["up"] /\ chan["user"]["up"].end = "open"
      <4>1. ~shut[Forwarding!From("relay", "up")]["up"]
            /\ chan[Forwarding!From("relay", "up")]["up"].end = "open"
        BY <3>1, CopyWaits
      <4> QED BY <4>1
    <3>3. ~shut["work"]["down"] /\ chan["work"]["down"].end = "open"
      <4>1. ~shut[Forwarding!From("relay", "down")]["down"]
            /\ chan[Forwarding!From("relay", "down")]["down"].end = "open"
        BY <3>1, CopyWaits
      <4> QED BY <4>1
    <3> QED BY <3>2, <3>3
  <2>3. ASSUME client = "bridging"
        PROVE  /\ ~shut["work"]["up"] /\ chan["work"]["up"].end = "open"
               /\ ~shut["local"]["down"] /\ chan["local"]["down"].end = "open"
    <3>1. copy["client"]["up"] = "runs" /\ copy["client"]["down"] = "runs"
      BY <2>3 DEF ForwardingInv, ClientInv
    <3>2. ~shut["work"]["up"] /\ chan["work"]["up"].end = "open"
      <4>1. ~shut[Forwarding!From("client", "up")]["up"]
            /\ chan[Forwarding!From("client", "up")]["up"].end = "open"
        BY <3>1, CopyWaits
      <4> QED BY <4>1
    <3>3. ~shut["local"]["down"] /\ chan["local"]["down"].end = "open"
      <4>1. ~shut[Forwarding!From("client", "down")]["down"]
            /\ chan[Forwarding!From("client", "down")]["down"].end = "open"
        BY <3>1, CopyWaits
      <4> QED BY <4>1
    <3> QED BY <3>2, <3>3
  <2>4. relay = "over" => shut["user"]["up"] /\ shut["work"]["down"]
    <3> SUFFICES ASSUME relay = "over" PROVE shut["user"]["up"] /\ shut["work"]["down"]
      OBVIOUS
    <3>1. shut["user"]["up"]
      BY DEF ForwardingInv, RelayInv
    <3>2. CASE copy["relay"]["up"] = "none"
      BY <3>1, <3>2 DEF Forwarding!Idle, Forwarding!MayRefuse
    <3>3. CASE copy["relay"]["up"] # "none"
      BY <3>1, <3>3 DEF ForwardingInv, RelayInv
    <3> QED BY <3>1, <3>2, <3>3
  <2>5. client = "over" => shut["work"]["up"] /\ shut["local"]["down"]
    BY DEF ForwardingInv, ClientInv
  <2>6. CASE relay = "over" /\ client = "over"
    BY <2>4, <2>5, <2>6
  <2>7. CASE relay = "over" /\ client = "bridging"
    BY <2>3, <2>4, <2>7 DEF ForwardingInv, ShutInv
  <2>8. CASE relay = "bridging" /\ client = "over"
    BY <2>2, <2>5, <2>8 DEF ForwardingInv, ShutInv
  <2>9. CASE relay = "bridging" /\ client = "bridging"
    <3>1. chan["user"]["down"].end = "open" /\ chan["local"]["up"].end = "open"
      BY <2>2, <2>3, <2>9 DEF ForwardingInv, EndInv
    <3>2. \A l \in Links, d \in Dirs : chan[l][d].end = "open"
      BY <2>2, <2>3, <2>9, <3>1
    <3> QED BY <3>2 DEF Forwarding!Over, Dirs
  <2> QED BY <2>1, <2>6, <2>7, <2>8, <2>9
<1> QED BY <1>1, <1>2

-------------------------------------------------------------------------------
(* The wire protocol: what is written under the lock and read by the loop. *)

\* The place of a message in what is written: raw units come after the one frame.
Serial(msg) == IF msg.kind = "raw" THEN msg.n + 1 ELSE msg.n
\* The units of its message that come after u.
Rest(u) == Protocol!Length(u.of.kind) - u.part
\* u is what comes after message s, of which k units are left.
Comes(s, k, u) ==
  IF k > 0 THEN Serial(u.of) = s /\ Rest(u) = k - 1 ELSE Serial(u.of) = s + 1 /\ u.part = 0
Chain(s, k, q) ==
  \A i \in 1..Len(q) :
    Comes(IF i = 1 THEN s ELSE Serial(q[i - 1].of), IF i = 1 THEN k ELSE Rest(q[i - 1]), q[i])
LastSerial(s, q) == IF Len(q) = 0 THEN s ELSE Serial(q[Len(q)].of)
LastRest(k, q) == IF Len(q) = 0 THEN k ELSE Rest(q[Len(q)])

WireTypes ==
  /\ Protocol!TypeOK /\ stream \in Seq(Protocol!Units)
  /\ order \in Seq(Protocol!Messages) /\ handled \in Seq(Protocol!Messages) /\ raw \in Seq(Nat)
KindsFor == IF use = "work" THEN {"work"} ELSE Protocol!Kinds
\* Messages are numbered as written, fit a frame, and come before the raw bytes.
OrderInv ==
  /\ \A k \in 1..Len(order) :
       /\ order[k].n = k /\ Protocol!Length(order[k].kind) <= Protocol!MaxLen
       /\ order[k].kind \in KindsFor
  /\ Len(order) <= MaxMsgs /\ (use = "work" => Len(order) <= 1)
  /\ rawSent > 0 => use = "work" /\ Len(order) = 1
WritingInv == lock # None =>
  /\ writing \in Protocol!Units /\ rawSent = 0
  /\ writing.part <= Protocol!Length(writing.of.kind)
  /\ Protocol!Length(writing.of.kind) <= Protocol!MaxLen /\ writing.of.kind \in KindsFor
  /\ writing.part = 0 =>
       writing.of.n = Len(order) + 1 /\ (use = "work" => Len(order) = 0) /\ Len(order) < MaxMsgs
  /\ writing.part > 0 => Len(order) > 0 /\ writing.of = order[Len(order)]
UnitFits(u) ==
  /\ u.part <= Protocol!Length(u.of.kind)
  /\ IF use = "work" /\ Serial(u.of) > 1 THEN u.of.kind = "raw"
     ELSE u.of.n <= Len(order) /\ u.of = order[u.of.n]
UnitsInv == \A i \in 1..Len(stream) : UnitFits(stream[i])
\* The loop has acted on r messages.
InHand == framing \in {"payload", "decode"}
HeldFrames == [of : Protocol!Messages, left : 0..2, whole : BOOLEAN]
ReaderInv(r) ==
  /\ Protocol!Acted(r)
  /\ framing \notin {"raw", "ended"} => raw = <<>> /\ (use = "work" => r = 0)
  /\ InHand => held \in HeldFrames /\ held.whole /\ r < Len(order) /\ held.of = order[r + 1]
               /\ (framing = "payload" <=> held.left > 0)
  /\ held = None \/ (held \in HeldFrames /\ held.whole)
  /\ framing = "raw" => use = "work" /\ r = 1
  /\ \A i \in 1..Len(raw) : raw[i] = i
  /\ framing = "ended" => end # "open"
\* From what it has read, over what is under way, to what is written next.
ReadSerial(r) == IF InHand THEN r + 1 ELSE r + Len(raw)
ReadRest == IF framing = "payload" THEN held.left ELSE 0
Midway == lock # None /\ writing.part > 0
WroteSerial == Len(order) + rawSent
WroteRest == IF Midway THEN Rest(writing) + 1 ELSE 0
ChainInv(r) == framing # "ended" =>
  /\ Chain(ReadSerial(r), ReadRest, stream)
  /\ end = "open" => /\ LastSerial(ReadSerial(r), stream) = WroteSerial
                     /\ LastRest(ReadRest, stream) = WroteRest
WireInv ==
  /\ WireTypes /\ OrderInv /\ WritingInv /\ UnitsInv
  /\ \E r \in 0..Len(order) : ReaderInv(r) /\ ChainInv(r)

\* What the constants of the wire protocol are, and how long its frames.
LEMMA WireConstants ==
  /\ None \notin Ids /\ Protocol!MaxLen = 2
  /\ WireCap \in Nat /\ MaxMsgs \in Nat /\ MaxRaw \in Nat
  /\ Protocol!Kinds = {"heartbeat", "request", "unknown", "huge"}
  /\ Protocol!Length("heartbeat") = 0 /\ Protocol!Length("request") = 2
  /\ Protocol!Length("unknown") = 1 /\ Protocol!Length("huge") = 3
  /\ Protocol!Length("work") = 1 /\ Protocol!Length("raw") = 0
<1>1. /\ None \notin Ids /\ Protocol!MaxLen = 2
      /\ WireCap \in Nat /\ MaxMsgs \in Nat /\ MaxRaw \in Nat
  BY ConstantsFit
  DEF ConstantsFit, Protocol!NoneAssumption, Protocol!BoundsAssumption, Protocol!MaxLen
<1> QED BY <1>1 DEF Protocol!Length, Protocol!MaxLen, Protocol!Kinds

\* What a unit is made of.
LEMMA UnitTypes ==
  ASSUME NEW u \in Protocol!Units
  PROVE  /\ u = [of |-> u.of, part |-> u.part]
         /\ u.of \in Protocol!Messages /\ u.of = [kind |-> u.of.kind, n |-> u.of.n]
         /\ u.of.kind \in {"heartbeat", "request", "unknown", "huge", "work", "raw"}
         /\ u.of.n \in 1..(MaxMsgs + MaxRaw) /\ u.part \in 0..3
         /\ Protocol!Length(u.of.kind) \in 0..3 /\ Serial(u.of) \in 1..(MaxMsgs + MaxRaw + 1)
         /\ Serial(u.of) \in Nat /\ Rest(u) \in Int
<1>1. /\ u = [of |-> u.of, part |-> u.part] /\ u.part \in 0..3
      /\ u.of \in Protocol!Messages
  BY WireConstants DEF Protocol!Units
<1>2. /\ u.of = [kind |-> u.of.kind, n |-> u.of.n] /\ u.of.n \in 1..(MaxMsgs + MaxRaw)
      /\ u.of.kind \in {"heartbeat", "request", "unknown", "huge", "work", "raw"}
  BY <1>1, WireConstants DEF Protocol!Messages
<1>3. Protocol!Length(u.of.kind) \in 0..3
  BY <1>2, WireConstants
<1>4. Serial(u.of) \in 1..(MaxMsgs + MaxRaw + 1)
  BY <1>2, WireConstants DEF Serial
<1>5. Rest(u) \in Int
  BY <1>1, <1>3 DEF Rest
<1> QED BY <1>1, <1>2, <1>3, <1>4, <1>5

\* One unit more under way.
LEMMA ChainGrows ==
  ASSUME NEW s \in Nat, NEW k \in Int, NEW q \in Seq(Protocol!Units), NEW u \in Protocol!Units,
         Chain(s, k, q), Comes(LastSerial(s, q), LastRest(k, q), u)
  PROVE  /\ Chain(s, k, Append(q, u))
         /\ LastSerial(s, Append(q, u)) = Serial(u.of) /\ LastRest(k, Append(q, u)) = Rest(u)
<1> DEFINE a == Append(q, u)
<1>1. Len(a) = Len(q) + 1 /\ Len(q) \in Nat /\ a[Len(q) + 1] = u /\ \A i \in 1..Len(q) : a[i] = q[i]
  OBVIOUS
<1> HIDE DEF a
<1>2. LastSerial(s, a) = Serial(u.of) /\ LastRest(k, a) = Rest(u)
  BY <1>1 DEF LastSerial, LastRest
<1>3. ASSUME NEW i \in 1..Len(a)
      PROVE  Comes(IF i = 1 THEN s ELSE Serial(a[i - 1].of), IF i = 1 THEN k ELSE Rest(a[i - 1]), a[i])
  <2>1. CASE i = Len(q) + 1
    <3>1. CASE i = 1
      BY <1>1, <2>1, <3>1 DEF LastSerial, LastRest
    <3>2. CASE i # 1
      <4>1. a[i - 1] = q[Len(q)] /\ a[i] = u /\ Len(q) # 0
        BY <1>1, <2>1, <3>2
      <4> QED BY <3>2, <4>1 DEF LastSerial, LastRest
    <3> QED BY <3>1, <3>2
  <2>2. CASE i \in 1..Len(q)
    <3>1. Comes(IF i = 1 THEN s ELSE Serial(q[i - 1].of), IF i = 1 THEN k ELSE Rest(q[i - 1]), q[i])
      BY <2>2 DEF Chain
    <3>2. a[i] = q[i] /\ (i # 1 => a[i - 1] = q[i - 1])
      BY <1>1, <2>2
    <3> QED BY <3>1, <3>2
  <2> QED BY <1>1, <2>1, <2>2
<1> QED BY <1>2, <1>3 DEF Chain, a

\* The first unit is read.
LEMMA ChainShrinks ==
  ASSUME NEW s \in Nat, NEW k \in Int, NEW q \in Seq(Protocol!Units), q # <<>>, Chain(s, k, q)
  PROVE  LET t == Serial(Head(q).of)
             j == Rest(Head(q))
         IN /\ Head(q) \in Protocol!Units /\ Head(q) = q[1] /\ Tail(q) \in Seq(Protocol!Units)
            /\ Comes(s, k, Head(q)) /\ Chain(t, j, Tail(q))
            /\ LastSerial(t, Tail(q)) = LastSerial(s, q) /\ LastRest(j, Tail(q)) = LastRest(k, q)
<1> DEFINE b == Tail(q)
<1>1. /\ Len(q) \in Nat \ {0} /\ Len(b) = Len(q) - 1 /\ Head(q) = q[1]
      /\ \A i \in 1..Len(b) : b[i] = q[i + 1]
      /\ q[1] \in Protocol!Units /\ b \in Seq(Protocol!Units)
  OBVIOUS
<1> HIDE DEF b
<1>2. \A i \in 1..Len(q) :
        Comes(IF i = 1 THEN s ELSE Serial(q[i - 1].of), IF i = 1 THEN k ELSE Rest(q[i - 1]), q[i])
  BY DEF Chain
<1>3. Comes(s, k, q[1])
  BY <1>1, <1>2
<1>4. ASSUME NEW i \in 1..Len(b)
      PROVE  Comes(IF i = 1 THEN Serial(q[1].of) ELSE Serial(b[i - 1].of),
                   IF i = 1 THEN Rest(q[1]) ELSE Rest(b[i - 1]), b[i])
  <2>1. i + 1 \in 1..Len(q) /\ i + 1 # 1 /\ (i + 1) - 1 = i /\ b[i] = q[i + 1]
    BY <1>1
  <2>2. Comes(Serial(q[i].of), Rest(q[i]), b[i])
    BY <1>2, <2>1
  <2>3. i # 1 => b[i - 1] = q[i]
    BY <1>1
  <2> QED BY <2>2, <2>3
<1>5. LastSerial(Serial(q[1].of), b) = LastSerial(s, q) /\ LastRest(Rest(q[1]), b) = LastRest(k, q)
  <2>1. CASE Len(q) = 1
    BY <1>1, <2>1 DEF LastSerial, LastRest
  <2>2. CASE Len(q) # 1
    <3>1. Len(b) # 0 /\ b[Len(b)] = q[Len(q)]
      BY <1>1, <2>2
    <3> QED BY <1>1, <3>1 DEF LastSerial, LastRest
  <2> QED BY <2>1, <2>2
<1> QED BY <1>1, <1>3, <1>4, <1>5 DEF Chain, b

\* The connection breaks, and what is under way is cut off.
LEMMA ChainCut ==
  ASSUME NEW s \in Nat, NEW k \in Int, NEW q \in Seq(Protocol!Units), NEW m \in 0..Len(q)
  PROVE  /\ SubSeq(q, 1, m) \in Seq(Protocol!Units) /\ Len(SubSeq(q, 1, m)) = m
         /\ \A i \in 1..m : SubSeq(q, 1, m)[i] = q[i]
         /\ Chain(s, k, q) => Chain(s, k, SubSeq(q, 1, m))
<1> DEFINE c == SubSeq(q, 1, m)
<1>1. c \in Seq(Protocol!Units) /\ Len(c) = m /\ \A i \in 1..m : c[i] = q[i]
  OBVIOUS
<1> HIDE DEF c
<1>2. ASSUME Chain(s, k, q) PROVE Chain(s, k, c)
  <2> SUFFICES ASSUME NEW i \in 1..Len(c)
               PROVE  Comes(IF i = 1 THEN s ELSE Serial(c[i - 1].of),
                            IF i = 1 THEN k ELSE Rest(c[i - 1]), c[i])
    BY DEF Chain
  <2>1. i \in 1..Len(q) /\ c[i] = q[i] /\ (i # 1 => c[i - 1] = q[i - 1])
    BY <1>1
  <2>2. Comes(IF i = 1 THEN s ELSE Serial(q[i - 1].of), IF i = 1 THEN k ELSE Rest(q[i - 1]), q[i])
    BY <1>2, <2>1 DEF Chain
  <2> QED BY <2>1, <2>2
<1> QED BY <1>1, <1>2 DEF c

\* The wire protocol starts in its invariant.
LEMMA WireInit == Protocol!Init => WireInv
<1> SUFFICES ASSUME Protocol!Init PROVE WireInv
  OBVIOUS
<1> USE DEF Protocol!Init
<1>1. stream = <<>> /\ order = <<>> /\ handled = <<>> /\ raw = <<>>
  OBVIOUS
<1>2. /\ Len(stream) = 0 /\ Len(order) = 0 /\ Len(raw) = 0 /\ DOMAIN handled = {}
      /\ DOMAIN order = {} /\ DOMAIN stream = {} /\ DOMAIN raw = {}
  BY <1>1
<1>3. /\ lock = None /\ writing = None /\ end = "open" /\ closed = "no" /\ framing = "header"
      /\ held = None /\ rawSent = 0 /\ use \in {"control", "work"}
  OBVIOUS
<1>4. WireTypes
  <2>1. stream \in Seq(Protocol!Units) /\ order \in Seq(Protocol!Messages)
        /\ handled \in Seq(Protocol!Messages) /\ raw \in Seq(Nat)
    BY <1>1
  <2>2. \A s \in {order, handled} : \A i \in DOMAIN s : s[i] \in Protocol!Messages
    BY <1>2
  <2> QED BY <1>2, <1>3, <2>1, <2>2, WireConstants DEF WireTypes, Protocol!TypeOK
<1>5. OrderInv /\ WritingInv /\ UnitsInv
  BY <1>2, <1>3, WireConstants DEF OrderInv, WritingInv, UnitsInv
<1>6. ReaderInv(0)
  <2>1. Protocol!Acted(0)
    <3>1. {j \in 1..0 : Protocol!Known(order[j])} = {}
      OBVIOUS
    <3> QED BY <1>2, <3>1 DEF Protocol!Acted
  <2> QED BY <1>1, <1>2, <1>3, <2>1 DEF ReaderInv, InHand
<1>7. ChainInv(0)
  BY <1>2, <1>3 DEF ChainInv, Chain, LastSerial, LastRest, ReadSerial, ReadRest, WroteSerial,
     WroteRest, Midway, InHand
<1>8. 0 \in 0..Len(order)
  BY <1>2
<1> QED BY <1>4, <1>5, <1>6, <1>7, <1>8 DEF WireInv

\* What the types say of each variable.
LEMMA WireTypesAre ==
  ASSUME WireTypes
  PROVE  /\ use \in {"control", "work"} /\ lock \in Ids \cup {None}
         /\ writing \in Protocol!Units \cup {None}
         /\ stream \in Seq(Protocol!Units) /\ Len(stream) <= WireCap /\ Len(stream) \in Nat
         /\ end \in {"open", "fin", "cut"} /\ closed \in {"no", "marked", "done"}
         /\ framing \in {"header", "payload", "decode", "raw", "ended"}
         /\ held \in [of : Protocol!Messages, left : 0..2, whole : BOOLEAN] \cup {None}
         /\ order \in Seq(Protocol!Messages) /\ handled \in Seq(Protocol!Messages)
         /\ Len(order) \in Nat /\ Len(handled) \in Nat /\ Len(raw) \in Nat
         /\ rawSent \in 0..MaxRaw /\ raw \in Seq(Nat)
BY WireConstants DEF WireTypes, Protocol!TypeOK

\* The types of the variables, one by one, are the types of the protocol.
LEMMA WireTypesFit ==
  ASSUME use' \in {"control", "work"}, lock' \in Ids \cup {None},
         writing' \in Protocol!Units \cup {None},
         stream' \in Seq(Protocol!Units), Len(stream') <= WireCap,
         end' \in {"open", "fin", "cut"}, closed' \in {"no", "marked", "done"},
         framing' \in {"header", "payload", "decode", "raw", "ended"},
         held' \in [of : Protocol!Messages, left : 0..2, whole : BOOLEAN] \cup {None},
         order' \in Seq(Protocol!Messages), handled' \in Seq(Protocol!Messages),
         rawSent' \in 0..MaxRaw, raw' \in Seq(Nat)
  PROVE  WireTypes'
<1>1. \A i \in DOMAIN stream' : stream'[i] \in Protocol!Units
  OBVIOUS
<1>2. \A s \in {order', handled'} : \A i \in DOMAIN s : s[i] \in Protocol!Messages
  OBVIOUS
<1>3. \A i \in DOMAIN raw' : raw'[i] \in Nat
  OBVIOUS
<1> QED BY <1>1, <1>2, <1>3, WireConstants DEF WireTypes, Protocol!TypeOK

\* What the loop acted on stays so where none of it changes.
LEMMA ActedKept ==
  ASSUME NEW r, Protocol!Acted(r), UNCHANGED handled, \A k \in 1..r : order'[k] = order[k]
  PROVE  Protocol!Acted(r)'
<1>1. /\ {handled[i] : i \in DOMAIN handled}
           = {order[k] : k \in {j \in 1..r : Protocol!Known(order[j])}}
      /\ \A i, j \in DOMAIN handled : i < j => handled[i].n < handled[j].n
  BY DEF Protocol!Acted
<1>2. {order'[k] : k \in {j \in 1..r : Protocol!Known(order'[j])}}
        = {order[k] : k \in {j \in 1..r : Protocol!Known(order[j])}}
  <2>1. {j \in 1..r : Protocol!Known(order'[j])} = {j \in 1..r : Protocol!Known(order[j])}
    OBVIOUS
  <2> QED BY <2>1
<1>3. Protocol!Acted(r)' <=>
        /\ {handled'[i] : i \in DOMAIN handled'}
             = {order'[k] : k \in {j \in 1..r : Protocol!Known(order'[j])}}
        /\ \A i, j \in DOMAIN handled' : i < j => handled'[i].n < handled'[j].n
  BY DEF Protocol!Acted
<1>4. {handled'[i] : i \in DOMAIN handled'} = {handled[i] : i \in DOMAIN handled}
  OBVIOUS
<1>5. \A i, j \in DOMAIN handled' : i < j => handled'[i].n < handled'[j].n
  BY <1>1
<1>6. {handled'[i] : i \in DOMAIN handled'}
        = {order'[k] : k \in {j \in 1..r : Protocol!Known(order'[j])}}
  BY <1>1, <1>2, <1>4
<1> QED BY <1>3, <1>5, <1>6

\* The reader's part holds while messages are written and the connection ends.
LEMMA ReaderKept ==
  ASSUME WireTypes, NEW r \in 0..Len(order), ReaderInv(r),
         UNCHANGED <<use, framing, held, handled, raw>>,
         Len(order') \in Nat, Len(order) <= Len(order'),
         \A k \in 1..Len(order) : order'[k] = order[k],
         end # "open" => end' # "open"
  PROVE  ReaderInv(r)' /\ r \in 0..Len(order')
<1>1. Len(order) \in Nat
  BY WireTypesAre
<1>2. r \in 0..Len(order')
  BY <1>1
<1>3. Protocol!Acted(r)'
  <2>1. \A k \in 1..r : order'[k] = order[k]
    BY <1>1
  <2> QED BY <2>1, ActedKept DEF ReaderInv
<1>4. InHand => r < Len(order') /\ order'[r + 1] = order[r + 1]
  BY <1>1 DEF ReaderInv
<1>5. InHand' <=> InHand
  BY DEF InHand
<1> QED BY <1>2, <1>3, <1>4, <1>5 DEF ReaderInv

\* Steps of the writers that put nothing on its way.
LEMMA QuietWriterSteps ==
  ASSUME WireInv,
         \/ \E w \in Ids, kind \in Protocol!Kinds \cup {"work"} : Protocol!Write(w, kind)
         \/ \E w \in Ids : Protocol!WriteFails(w)
         \/ Protocol!Mark \/ Protocol!Close
  PROVE  WireInv'
<1> USE WireConstants
<1>1. PICK r \in 0..Len(order) : ReaderInv(r) /\ ChainInv(r)
  BY DEF WireInv
<1>2. UNCHANGED <<use, stream, framing, held, order, handled, rawSent, raw>>
  BY DEF Protocol!Write, Protocol!WriteFails, Protocol!Mark, Protocol!Close
<1>3. (end # "open" => end' # "open") /\ (end' = "open" => end = "open")
  BY DEF Protocol!Write, Protocol!WriteFails, Protocol!Mark, Protocol!Close
<1>4. WireTypes /\ Len(order) \in Nat
  BY WireTypesAre DEF WireInv
<1>5. ReaderInv(r)' /\ r \in 0..Len(order')
  <2>1. Len(order') \in Nat /\ Len(order) <= Len(order')
    BY <1>2, <1>4
  <2>2. \A k \in 1..Len(order) : order'[k] = order[k]
    BY <1>2
  <2> QED BY <1>1, <1>2, <1>3, <1>4, <2>1, <2>2, ReaderKept
<1>6. OrderInv' /\ UnitsInv'
  BY <1>2 DEF WireInv, OrderInv, UnitsInv, UnitFits, KindsFor
<1>7. ASSUME NEW w \in Ids, NEW kind \in Protocol!Kinds \cup {"work"}, Protocol!Write(w, kind)
      PROVE  /\ lock' \in Ids \cup {None} /\ writing' \in Protocol!Units \cup {None}
             /\ WritingInv' /\ WroteRest' = WroteRest
  <2>1. /\ lock = None /\ lock' = w /\ Len(order) < MaxMsgs /\ Protocol!Length(kind) <= 2
        /\ kind \in Protocol!KindsWritten
        /\ writing' = [of |-> [kind |-> kind, n |-> Len(order) + 1], part |-> 0]
    BY <1>7 DEF Protocol!Write, Protocol!Accepts
  <2>2. [kind |-> kind, n |-> Len(order) + 1] \in Protocol!Messages
    BY <1>4, <2>1 DEF Protocol!Messages
  <2>3. writing' \in Protocol!Units /\ writing'.part = 0 /\ writing'.of.n = Len(order) + 1
        /\ writing'.of.kind = kind
    BY <2>1, <2>2 DEF Protocol!Units
  <2>4. kind \in KindsFor /\ (use = "work" => order = <<>>)
    <3>1. use \in {"control", "work"}
      BY <1>4, WireTypesAre
    <3> QED BY <2>1, <3>1 DEF Protocol!KindsWritten, KindsFor
  <2>5. (use = "work" => Len(order) = 0) /\ rawSent = 0
    <3>1. order = <<>> => Len(order) = 0
      OBVIOUS
    <3>2. rawSent > 0 => use = "work" /\ Len(order) = 1
      BY DEF WireInv, OrderInv
    <3>3. rawSent \in 0..MaxRaw
      BY <1>4, WireTypesAre
    <3> QED BY <2>4, <3>1, <3>2, <3>3
  <2>6. Protocol!Length(kind) \in 0..3
    OBVIOUS
  <2>7. WritingInv'
    BY <1>2, <2>1, <2>3, <2>4, <2>5, <2>6 DEF WritingInv, KindsFor
  <2>8. ~Midway /\ ~Midway'
    BY <2>1, <2>3 DEF Midway
  <2> QED BY <2>1, <2>3, <2>7, <2>8 DEF WroteRest
<1>8. ASSUME NEW w \in Ids, Protocol!WriteFails(w)
      PROVE  lock' = None /\ writing' = None /\ WritingInv' /\ end' # "open"
  BY <1>8 DEF Protocol!WriteFails, WritingInv
<1>9. ASSUME Protocol!Mark \/ Protocol!Close
      PROVE  UNCHANGED <<lock, writing>> /\ WritingInv' /\ WroteRest' = WroteRest
  <2>1. UNCHANGED <<lock, writing, order, rawSent, use>>
    BY <1>9 DEF Protocol!Mark, Protocol!Close
  <2> QED BY <2>1 DEF WireInv, WritingInv, KindsFor, WroteRest, Midway, Rest
<1>10. /\ lock' \in Ids \cup {None} /\ writing' \in Protocol!Units \cup {None} /\ WritingInv'
       /\ end' = "open" => WroteRest' = WroteRest
  BY <1>4, <1>7, <1>8, <1>9, WireTypesAre
<1>11. /\ end' \in {"open", "fin", "cut"} /\ closed' \in {"no", "marked", "done"}
  BY <1>4, WireTypesAre DEF Protocol!Write, Protocol!WriteFails, Protocol!Mark, Protocol!Close
<1>12. WireTypes'
  <2>1. /\ use' \in {"control", "work"} /\ stream' \in Seq(Protocol!Units) /\ Len(stream') <= WireCap
        /\ framing' \in {"header", "payload", "decode", "raw", "ended"}
        /\ held' \in [of : Protocol!Messages, left : 0..2, whole : BOOLEAN] \cup {None}
        /\ order' \in Seq(Protocol!Messages) /\ handled' \in Seq(Protocol!Messages)
        /\ rawSent' \in 0..MaxRaw /\ raw' \in Seq(Nat)
    BY <1>2, <1>4, WireTypesAre
  <2> QED BY <1>10, <1>11, <2>1, WireTypesFit
<1>13. ChainInv(r)'
  <2>1. ReadSerial(r)' = ReadSerial(r) /\ ReadRest' = ReadRest /\ WroteSerial' = WroteSerial
    BY <1>2 DEF ReadSerial, ReadRest, WroteSerial, InHand
  <2> QED BY <1>1, <1>2, <1>3, <1>10, <2>1 DEF ChainInv
<1> QED BY <1>5, <1>6, <1>10, <1>12, <1>13 DEF WireInv

\* The connection breaks, and what is under way is cut off.
LEMMA BreakStream ==
  ASSUME WireInv, Protocol!Break
  PROVE  WireInv'
<1>1. PICK r \in 0..Len(order) : ReaderInv(r) /\ ChainInv(r)
  BY DEF WireInv
<1>2. PICK m \in 0..Len(stream) : stream' = SubSeq(stream, 1, m)
  BY DEF Protocol!Break
<1>3. /\ end' = "cut"
      /\ UNCHANGED <<use, lock, writing, closed, framing, held, order, handled, rawSent, raw>>
  BY DEF Protocol!Break
<1>4. WireTypes /\ Len(order) \in Nat /\ stream \in Seq(Protocol!Units) /\ Len(stream) <= WireCap
      /\ Len(stream) \in Nat
  BY WireTypesAre DEF WireInv
<1>5. /\ stream' \in Seq(Protocol!Units) /\ Len(stream') = m
      /\ \A i \in 1..m : stream'[i] = stream[i]
  BY <1>2, <1>4, ChainCut
<1>6. ReaderInv(r)' /\ r \in 0..Len(order')
  BY <1>1, <1>3, <1>4, ReaderKept
<1>7. OrderInv' /\ WritingInv'
  BY <1>3 DEF WireInv, OrderInv, WritingInv, KindsFor
<1>8. UnitsInv'
  <2> SUFFICES ASSUME NEW i \in 1..m PROVE UnitFits(stream[i])'
    BY <1>5 DEF UnitsInv
  <2>1. UnitFits(stream[i]) /\ stream'[i] = stream[i]
    BY <1>4, <1>5 DEF WireInv, UnitsInv
  <2> QED BY <1>3, <2>1 DEF UnitFits
<1>9. WireTypes'
  <2>1. /\ use' \in {"control", "work"} /\ Len(stream') <= WireCap
        /\ lock' \in Ids \cup {None} /\ writing' \in Protocol!Units \cup {None}
        /\ end' \in {"open", "fin", "cut"} /\ closed' \in {"no", "marked", "done"}
        /\ framing' \in {"header", "payload", "decode", "raw", "ended"}
        /\ held' \in [of : Protocol!Messages, left : 0..2, whole : BOOLEAN] \cup {None}
        /\ order' \in Seq(Protocol!Messages) /\ handled' \in Seq(Protocol!Messages)
        /\ rawSent' \in 0..MaxRaw /\ raw' \in Seq(Nat)
    BY <1>3, <1>4, <1>5, WireTypesAre, WireConstants
  <2> QED BY <1>5, <2>1, WireTypesFit
<1>10. ChainInv(r)'
  <2> SUFFICES ASSUME framing # "ended" PROVE Chain(ReadSerial(r)', ReadRest', stream')
    BY <1>3 DEF ChainInv
  <2>1. ReadSerial(r)' = ReadSerial(r) /\ ReadRest' = ReadRest
    BY <1>3 DEF ReadSerial, ReadRest, InHand
  <2>2. ReadSerial(r) \in Nat /\ ReadRest \in Int
    <3>1. Len(raw) \in Nat /\ held \in [of : Protocol!Messages, left : 0..2, whole : BOOLEAN] \cup {None}
      BY <1>4, WireTypesAre
    <3>2. framing = "payload" => held \in [of : Protocol!Messages, left : 0..2, whole : BOOLEAN]
      BY <1>1 DEF ReaderInv, InHand, HeldFrames
    <3>3. framing = "payload" => held.left \in 0..2
      BY <3>2
    <3> QED BY <1>4, <3>1, <3>3 DEF ReadSerial, ReadRest
  <2>3. Chain(ReadSerial(r), ReadRest, stream)
    BY <1>1 DEF ChainInv
  <2> QED BY <1>2, <1>4, <2>1, <2>2, <2>3, ChainCut
<1> QED BY <1>6, <1>7, <1>8, <1>9, <1>10 DEF WireInv

\* What the reader has taken, as a place in what is written.
LEMMA ReadPlace ==
  ASSUME WireTypes, NEW r \in 0..Len(order), ReaderInv(r)
  PROVE  ReadSerial(r) \in Nat /\ ReadRest \in Int /\ r \in Nat
<1>1. Len(raw) \in Nat /\ Len(order) \in Nat
      /\ held \in [of : Protocol!Messages, left : 0..2, whole : BOOLEAN] \cup {None}
  BY WireTypesAre
<1>2. framing = "payload" => held \in [of : Protocol!Messages, left : 0..2, whole : BOOLEAN]
  BY DEF ReaderInv, InHand, HeldFrames
<1>3. framing = "payload" => held.left \in 0..2
  BY <1>2
<1> QED BY <1>1, <1>3 DEF ReadSerial, ReadRest

\* A unit is put on its way by who follows what was written before.
LEMMA UnitGoes ==
  ASSUME WireInv, NEW r \in 0..Len(order), ReaderInv(r), ChainInv(r), end = "open", end' = "open",
         NEW u \in Protocol!Units, stream' = Append(stream, u),
         UNCHANGED <<framing, held, raw>>,
         Comes(WroteSerial, WroteRest, u),
         WroteSerial' = Serial(u.of), WroteRest' = Rest(u)
  PROVE  ChainInv(r)'
<1>1. ReadSerial(r) \in Nat /\ ReadRest \in Int /\ stream \in Seq(Protocol!Units)
  BY ReadPlace, WireTypesAre DEF WireInv
<1>2. framing # "ended"
  BY DEF ReaderInv
<1>3. /\ Chain(ReadSerial(r), ReadRest, stream)
      /\ LastSerial(ReadSerial(r), stream) = WroteSerial
      /\ LastRest(ReadRest, stream) = WroteRest
  BY <1>2 DEF ChainInv
<1>4. /\ Chain(ReadSerial(r), ReadRest, stream')
      /\ LastSerial(ReadSerial(r), stream') = Serial(u.of)
      /\ LastRest(ReadRest, stream') = Rest(u)
  BY <1>1, <1>3, ChainGrows
<1>5. ReadSerial(r)' = ReadSerial(r) /\ ReadRest' = ReadRest
  BY DEF ReadSerial, ReadRest, InHand
<1> QED BY <1>4, <1>5 DEF ChainInv

\* A writer writes a unit of its frame.
LEMMA UnitStep ==
  ASSUME WireInv, NEW w \in Ids, Protocol!WriteUnit(w)
  PROVE  WireInv'
<1> USE WireConstants
<1>1. PICK r \in 0..Len(order) : ReaderInv(r) /\ ChainInv(r)
  BY DEF WireInv
<1>2. /\ lock = w /\ end = "open" /\ Len(stream) < WireCap
      /\ stream' = Append(stream, writing)
      /\ UNCHANGED <<use, end, closed, framing, held, handled, rawSent, raw>>
  BY DEF Protocol!WriteUnit
<1>3. /\ writing.part < Protocol!Length(writing.of.kind) =>
           writing' = [of |-> writing.of, part |-> writing.part + 1] /\ lock' = lock
      /\ ~(writing.part < Protocol!Length(writing.of.kind)) => writing' = None /\ lock' = None
      /\ order' = IF writing.part = 0 THEN Append(order, writing.of) ELSE order
  BY DEF Protocol!WriteUnit, Protocol!Keeps
<1>4. /\ WireTypes /\ Len(order) \in Nat /\ stream \in Seq(Protocol!Units) /\ Len(stream) \in Nat
      /\ order \in Seq(Protocol!Messages) /\ use \in {"control", "work"}
  BY WireTypesAre DEF WireInv
<1>5. lock # None
  BY <1>2
<1>6. /\ writing \in Protocol!Units /\ rawSent = 0
      /\ writing.part <= Protocol!Length(writing.of.kind)
      /\ Protocol!Length(writing.of.kind) <= 2 /\ writing.of.kind \in KindsFor
      /\ writing.part = 0 =>
           writing.of.n = Len(order) + 1 /\ (use = "work" => Len(order) = 0) /\ Len(order) < MaxMsgs
      /\ writing.part > 0 => Len(order) > 0 /\ writing.of = order[Len(order)]
  BY <1>5 DEF WireInv, WritingInv
<1>7. /\ writing = [of |-> writing.of, part |-> writing.part]
      /\ writing.of \in Protocol!Messages /\ writing.of.n \in 1..(MaxMsgs + MaxRaw) /\ writing.part \in 0..3
      /\ Protocol!Length(writing.of.kind) \in 0..3 /\ Rest(writing) \in Int
  BY <1>6, UnitTypes
<1>8. writing.of.kind # "raw" /\ Serial(writing.of) = writing.of.n
  BY <1>6 DEF KindsFor, Serial
<1>9. /\ order' \in Seq(Protocol!Messages) /\ Len(order') \in Nat
      /\ Len(order') = IF writing.part = 0 THEN Len(order) + 1 ELSE Len(order)
      /\ \A k \in 1..Len(order) : order'[k] = order[k]
      /\ Len(order') > 0 /\ order'[Len(order')] = writing.of
  <2>1. CASE writing.part = 0
    <3>1. order' = Append(order, writing.of)
      BY <1>3, <2>1
    <3> QED BY <1>4, <1>7, <2>1, <3>1
  <2>2. CASE writing.part # 0
    <3>1. order' = order /\ writing.part > 0
      BY <1>3, <1>7, <2>2
    <3> QED BY <1>4, <1>6, <2>2, <3>1
  <2> QED BY <2>1, <2>2
<1>10. \A k \in 1..Len(order) : order[k].n = k
  BY DEF WireInv, OrderInv
<1>11. writing.of.n = Len(order')
  <2>1. CASE writing.part = 0
    BY <1>6, <1>9, <2>1
  <2>2. CASE writing.part # 0
    <3>1. writing.part > 0 /\ Len(order') = Len(order)
      BY <1>7, <1>9, <2>2
    <3>2. Len(order) \in 1..Len(order) /\ writing.of = order[Len(order)]
      BY <1>4, <1>6, <3>1
    <3> QED BY <1>10, <3>1, <3>2
  <2> QED BY <2>1, <2>2
<1>12. ReaderInv(r)' /\ r \in 0..Len(order')
  <2>1. Len(order) <= Len(order')
    BY <1>4, <1>9
  <2> QED BY <1>1, <1>2, <1>4, <1>9, <2>1, ReaderKept
<1>13. OrderInv'
  <2>1. Len(order) <= MaxMsgs /\ (use = "work" => Len(order) <= 1) /\ (rawSent > 0 => use = "work" /\ Len(order) = 1)
    BY DEF WireInv, OrderInv
  <2>2. Len(order') <= MaxMsgs /\ (use = "work" => Len(order') <= 1)
    BY <1>4, <1>6, <1>9, <2>1
  <2>3. KindsFor' = KindsFor /\ rawSent' = 0
    BY <1>2, <1>6 DEF KindsFor
  <2>4. ASSUME NEW k \in 1..Len(order')
        PROVE  /\ order'[k].n = k /\ Protocol!Length(order'[k].kind) <= 2
               /\ order'[k].kind \in KindsFor
    <3>1. CASE k = Len(order')
      BY <1>6, <1>9, <1>11, <3>1
    <3>2. CASE k # Len(order')
      <4>1. k \in 1..Len(order)
        BY <1>4, <1>9, <3>2
      <4>2. /\ order[k].n = k /\ Protocol!Length(order[k].kind) <= 2 /\ order[k].kind \in KindsFor
        BY <4>1 DEF WireInv, OrderInv
      <4> QED BY <1>9, <4>1, <4>2
    <3> QED BY <3>1, <3>2
  <2> QED BY <1>2, <2>2, <2>3, <2>4 DEF OrderInv
<1>14. /\ WritingInv' /\ WroteRest' = Rest(writing)
       /\ lock' \in Ids \cup {None} /\ writing' \in Protocol!Units \cup {None}
  <2>1. CASE writing.part < Protocol!Length(writing.of.kind)
    <3>1. writing' = [of |-> writing.of, part |-> writing.part + 1] /\ lock' = lock
      BY <1>3, <2>1
    <3>2. writing'.of = writing.of /\ writing'.part = writing.part + 1
      BY <3>1
    <3>3. writing' \in Protocol!Units
      BY <1>6, <1>7, <2>1, <3>1 DEF Protocol!Units
    <3>4. WritingInv'
      <4>1. KindsFor' = KindsFor /\ rawSent' = 0
        BY <1>2, <1>6 DEF KindsFor
      <4>2. writing'.part <= Protocol!Length(writing'.of.kind) /\ writing'.part # 0
        BY <1>7, <2>1, <3>2
      <4> QED BY <1>6, <1>9, <3>2, <3>3, <4>1, <4>2 DEF WritingInv
    <3>5. WroteRest' = Rest(writing)
      <4>1. Midway'
        BY <1>5, <1>7, <3>1, <3>2 DEF Midway
      <4>2. WroteRest' = Protocol!Length(writing'.of.kind) - writing'.part + 1
        BY <4>1 DEF WroteRest, Rest
      <4>3. Protocol!Length(writing.of.kind) - (writing.part + 1) + 1
              = Protocol!Length(writing.of.kind) - writing.part
        BY <1>7
      <4> QED BY <3>2, <4>2, <4>3 DEF Rest
    <3> QED BY <1>2, <3>1, <3>3, <3>4, <3>5
  <2>2. CASE ~(writing.part < Protocol!Length(writing.of.kind))
    <3>1. writing' = None /\ lock' = None
      BY <1>3, <2>2
    <3>2. Rest(writing) = 0
      BY <1>6, <1>7, <2>2 DEF Rest
    <3> QED BY <3>1, <3>2 DEF WritingInv, WroteRest, Midway
  <2> QED BY <2>1, <2>2
<1>15. Comes(WroteSerial, WroteRest, writing) /\ WroteSerial' = Serial(writing.of)
  <2>1. WroteSerial = Len(order) /\ WroteSerial' = Len(order')
    BY <1>2, <1>4, <1>6, <1>9 DEF WroteSerial
  <2>2. CASE writing.part = 0
    <3>1. WroteRest = 0
      BY <2>2 DEF WroteRest, Midway
    <3> QED BY <1>6, <1>8, <1>9, <2>1, <2>2, <3>1 DEF Comes
  <2>3. CASE writing.part # 0
    <3>1. WroteRest = Rest(writing) + 1
      BY <1>5, <1>7, <2>3 DEF WroteRest, Midway
    <3>2. Rest(writing) + 1 > 0 /\ (Rest(writing) + 1) - 1 = Rest(writing)
      BY <1>6, <1>7 DEF Rest
    <3>3. Serial(writing.of) = Len(order)
      BY <1>8, <1>9, <1>11, <2>3
    <3> QED BY <1>8, <1>11, <2>1, <3>1, <3>2, <3>3 DEF Comes
  <2> QED BY <2>2, <2>3
<1>16. ChainInv(r)'
  BY <1>1, <1>2, <1>6, <1>14, <1>15, UnitGoes
<1>17. UnitsInv'
  <2>1. /\ Len(stream') = Len(stream) + 1 /\ stream'[Len(stream) + 1] = writing
        /\ \A i \in 1..Len(stream) : stream'[i] = stream[i]
    BY <1>2, <1>4, <1>6
  <2> SUFFICES ASSUME NEW i \in 1..(Len(stream) + 1) PROVE UnitFits(stream[i])'
    BY <2>1 DEF UnitsInv
  <2>2. CASE i = Len(stream) + 1
    <3>1. stream'[i] = writing
      BY <2>1, <2>2
    <3>2. use = "work" => Serial(writing.of) = 1
      <4>1. PICK n \in Nat : n = Len(order')
        BY <1>9
      <4>2. use = "work" => n <= 1
        BY <1>2, <1>13, <4>1 DEF OrderInv
      <4>3. n > 0
        BY <1>9, <4>1
      <4>4. use = "work" => n = 1
        BY <4>2, <4>3
      <4> QED BY <1>8, <1>11, <4>1, <4>4
    <3>3. writing.of.n <= Len(order') /\ writing.of = order'[writing.of.n]
      BY <1>9, <1>11
    <3> QED BY <1>2, <1>6, <3>1, <3>2, <3>3 DEF UnitFits
  <2>3. CASE i # Len(stream) + 1
    <3>1. i \in 1..Len(stream) /\ stream'[i] = stream[i]
      BY <1>4, <2>1, <2>3
    <3>2. UnitFits(stream[i]) /\ stream[i] \in Protocol!Units
      BY <1>4, <3>1 DEF WireInv, UnitsInv
    <3>3. stream[i].of.n \in 1..(MaxMsgs + MaxRaw)
      BY <3>2, UnitTypes
    <3>4. stream[i].of.n <= Len(order) =>
            stream[i].of.n <= Len(order') /\ order'[stream[i].of.n] = order[stream[i].of.n]
      <4>1. PICK n \in 1..(MaxMsgs + MaxRaw) : n = stream[i].of.n
        BY <3>3
      <4>2. PICK a \in Nat, b \in Nat : a = Len(order) /\ b = Len(order') /\ a <= b
        BY <1>4, <1>9
      <4>3. n <= a => n <= b /\ n \in 1..a
        BY <4>2
      <4> QED BY <1>9, <4>1, <4>2, <4>3
    <3> QED BY <1>2, <3>1, <3>2, <3>4 DEF UnitFits
  <2> QED BY <2>2, <2>3
<1>18. WireTypes'
  <2>1. /\ use' \in {"control", "work"}
        /\ end' \in {"open", "fin", "cut"} /\ closed' \in {"no", "marked", "done"}
        /\ framing' \in {"header", "payload", "decode", "raw", "ended"}
        /\ held' \in [of : Protocol!Messages, left : 0..2, whole : BOOLEAN] \cup {None}
        /\ handled' \in Seq(Protocol!Messages) /\ rawSent' \in 0..MaxRaw /\ raw' \in Seq(Nat)
    BY <1>2, <1>4, WireTypesAre
  <2>2. stream' \in Seq(Protocol!Units) /\ Len(stream') <= WireCap
    BY <1>2, <1>4, <1>6
  <2> QED BY <1>9, <1>14, <2>1, <2>2, WireTypesFit
<1> QED BY <1>12, <1>13, <1>14, <1>16, <1>17, <1>18 DEF WireInv

\* A session writes a raw unit.
LEMMA RawStep ==
  ASSUME WireInv, Protocol!WriteRaw
  PROVE  WireInv'
<1> USE WireConstants
<1>1. PICK r \in 0..Len(order) : ReaderInv(r) /\ ChainInv(r)
  BY DEF WireInv
<1> DEFINE u == [of |-> [kind |-> "raw", n |-> rawSent + 1], part |-> 0]
<1>2. /\ use = "work" /\ order # <<>> /\ lock = None /\ rawSent < MaxRaw /\ end = "open"
      /\ Len(stream) < WireCap /\ rawSent' = rawSent + 1 /\ stream' = Append(stream, u)
      /\ UNCHANGED <<use, lock, writing, end, closed, framing, held, order, handled, raw>>
  BY DEF Protocol!WriteRaw
<1>3. /\ WireTypes /\ Len(order) \in Nat /\ stream \in Seq(Protocol!Units) /\ Len(stream) \in Nat
      /\ order \in Seq(Protocol!Messages) /\ rawSent \in 0..MaxRaw
  BY WireTypesAre DEF WireInv
<1>4. Len(order) = 1
  <2>1. Len(order) # 0
    BY <1>2, <1>3
  <2>2. Len(order) <= 1
    BY <1>2 DEF WireInv, OrderInv
  <2>3. PICK n \in Nat : n = Len(order)
    BY <1>3
  <2>4. n = 1
    BY <2>1, <2>2, <2>3
  <2> QED BY <2>3, <2>4
<1>5. [kind |-> "raw", n |-> rawSent + 1] \in Protocol!Messages
  BY <1>2, <1>3 DEF Protocol!Messages
<1>6. u \in Protocol!Units
  BY <1>5 DEF Protocol!Units
<1>7. u.of.kind = "raw" /\ u.of.n = rawSent + 1 /\ u.part = 0 /\ Serial(u.of) = rawSent + 2
      /\ Rest(u) = 0
  BY <1>3 DEF Serial, Rest
<1> HIDE DEF u
<1>8. ReaderInv(r)' /\ r \in 0..Len(order')
  <2>1. Len(order') \in Nat /\ Len(order) <= Len(order')
    BY <1>2, <1>3
  <2>2. \A k \in 1..Len(order) : order'[k] = order[k]
    BY <1>2
  <2> QED BY <1>1, <1>2, <1>3, <2>1, <2>2, ReaderKept
<1>9. OrderInv'
  BY <1>2, <1>4 DEF WireInv, OrderInv, KindsFor
<1>10. WritingInv'
  BY <1>2 DEF WritingInv
<1>11. ~Midway /\ ~Midway'
  BY <1>2 DEF Midway
<1>12. WroteSerial = 1 + rawSent /\ WroteSerial' = Serial(u.of)
  <2>1. WroteSerial' = Len(order) + (rawSent + 1)
    BY <1>2 DEF WroteSerial
  <2>2. 1 + (rawSent + 1) = rawSent + 2
    BY <1>3
  <2> QED BY <1>4, <1>7, <2>1, <2>2 DEF WroteSerial
<1>13. Comes(WroteSerial, WroteRest, u) /\ WroteRest' = Rest(u)
  <2>1. WroteRest = 0 /\ WroteRest' = 0
    BY <1>11 DEF WroteRest
  <2>2. Serial(u.of) = WroteSerial + 1
    BY <1>3, <1>7, <1>12
  <2> QED BY <1>7, <2>1, <2>2 DEF Comes
<1>14. ChainInv(r)'
  BY <1>1, <1>2, <1>6, <1>12, <1>13, UnitGoes
<1>15. UnitsInv'
  <2>1. /\ Len(stream') = Len(stream) + 1 /\ stream'[Len(stream) + 1] = u
        /\ \A i \in 1..Len(stream) : stream'[i] = stream[i]
    BY <1>2, <1>3, <1>6
  <2> SUFFICES ASSUME NEW i \in 1..(Len(stream) + 1) PROVE UnitFits(stream[i])'
    BY <2>1 DEF UnitsInv
  <2>2. CASE i = Len(stream) + 1
    <3>1. stream'[i] = u
      BY <2>1, <2>2
    <3>2. u.part <= Protocol!Length(u.of.kind) /\ Serial(u.of) > 1
      BY <1>3, <1>7
    <3> QED BY <1>2, <1>7, <3>1, <3>2 DEF UnitFits
  <2>3. CASE i # Len(stream) + 1
    <3>1. i \in 1..Len(stream) /\ stream'[i] = stream[i]
      BY <1>3, <2>1, <2>3
    <3>2. UnitFits(stream[i])
      BY <3>1 DEF WireInv, UnitsInv
    <3> QED BY <1>2, <3>1, <3>2 DEF UnitFits
  <2> QED BY <2>2, <2>3
<1>16. WireTypes'
  <2>1. /\ use' \in {"control", "work"} /\ lock' \in Ids \cup {None}
        /\ writing' \in Protocol!Units \cup {None}
        /\ end' \in {"open", "fin", "cut"} /\ closed' \in {"no", "marked", "done"}
        /\ framing' \in {"header", "payload", "decode", "raw", "ended"}
        /\ held' \in [of : Protocol!Messages, left : 0..2, whole : BOOLEAN] \cup {None}
        /\ order' \in Seq(Protocol!Messages)
        /\ handled' \in Seq(Protocol!Messages) /\ raw' \in Seq(Nat)
    BY <1>2, <1>3, WireTypesAre
  <2>2. stream' \in Seq(Protocol!Units) /\ Len(stream') <= WireCap /\ rawSent' \in 0..MaxRaw
    BY <1>2, <1>3, <1>6
  <2> QED BY <2>1, <2>2, WireTypesFit
<1> QED BY <1>8, <1>9, <1>10, <1>14, <1>15, <1>16 DEF WireInv

\* The writers' part holds while the loop reads.
LEMMA WriterKept ==
  ASSUME WireInv, UNCHANGED <<use, lock, writing, order, rawSent>>
  PROVE  OrderInv' /\ WritingInv' /\ WroteSerial' = WroteSerial /\ WroteRest' = WroteRest
BY DEF WireInv, OrderInv, WritingInv, KindsFor, WroteSerial, WroteRest, Midway, Rest

\* The loop takes the first unit: it is what comes next, and one of its message.
LEMMA UnitTaken ==
  ASSUME WireInv, NEW r \in 0..Len(order), ReaderInv(r), ChainInv(r), framing # "ended",
         stream # <<>>
  PROVE  LET u == Head(stream)
         IN /\ u \in Protocol!Units /\ Tail(stream) \in Seq(Protocol!Units) /\ Len(Tail(stream)) <= WireCap
            /\ Comes(ReadSerial(r), ReadRest, u) /\ UnitFits(u)
            /\ u.of.kind # "raw" =>
                 /\ u.of = order[u.of.n] /\ u.of.n <= Len(order) /\ Serial(u.of) = u.of.n
                 /\ Protocol!Length(u.of.kind) \in 0..2
            /\ use = "work" /\ Serial(u.of) > 1 => u.of.kind = "raw"
            /\ u.of.kind = "raw" => use = "work" /\ Serial(u.of) > 1
            /\ stream' = Tail(stream) /\ UNCHANGED <<use, order>> => UnitsInv'
<1> DEFINE u == Head(stream)
           q == Tail(stream)
<1> USE WireConstants
<1>1. ReadSerial(r) \in Nat /\ ReadRest \in Int /\ stream \in Seq(Protocol!Units)
      /\ Len(stream) \in Nat /\ Len(stream) <= WireCap /\ Len(order) \in Nat
      /\ use \in {"control", "work"}
  BY ReadPlace, WireTypesAre DEF WireInv
<1>2. Chain(ReadSerial(r), ReadRest, stream)
  BY DEF ChainInv
<1>3. /\ u \in Protocol!Units /\ u = stream[1] /\ q \in Seq(Protocol!Units)
      /\ Comes(ReadSerial(r), ReadRest, u)
  BY <1>1, <1>2, ChainShrinks
<1>4. Len(stream) >= 1 /\ Len(q) = Len(stream) - 1 /\ \A i \in 1..Len(q) : q[i] = stream[i + 1]
  BY <1>1
<1>5. UnitFits(u)
  BY <1>1, <1>3, <1>4 DEF WireInv, UnitsInv
<1>6. /\ u.of.n \in 1..(MaxMsgs + MaxRaw) /\ Serial(u.of) \in Nat /\ Serial(u.of) \in 1..(MaxMsgs + MaxRaw + 1)
      /\ Protocol!Length(u.of.kind) \in 0..3
  BY <1>3, UnitTypes
<1> HIDE DEF u, q
<1>7. ASSUME u.of.n <= Len(order), u.of = order[u.of.n]
      PROVE  u.of.kind # "raw" /\ Protocol!Length(u.of.kind) <= 2
  <2>1. PICK n \in 1..(MaxMsgs + MaxRaw) : n = u.of.n
    BY <1>6
  <2>2. n \in 1..Len(order) /\ u.of = order[n]
    BY <1>1, <1>7, <2>1
  <2>3. order[n].kind \in KindsFor /\ Protocol!Length(order[n].kind) <= 2
    BY <2>2 DEF WireInv, OrderInv
  <2> QED BY <2>2, <2>3 DEF KindsFor
<1>8. u.of.kind # "raw" =>
        /\ u.of = order[u.of.n] /\ u.of.n <= Len(order) /\ Serial(u.of) = u.of.n
        /\ Protocol!Length(u.of.kind) \in 0..2
  <2> SUFFICES ASSUME u.of.kind # "raw"
               PROVE  /\ u.of = order[u.of.n] /\ u.of.n <= Len(order) /\ Serial(u.of) = u.of.n
                      /\ Protocol!Length(u.of.kind) \in 0..2
    OBVIOUS
  <2>1. u.of = order[u.of.n] /\ u.of.n <= Len(order)
    BY <1>5 DEF UnitFits
  <2>2. Protocol!Length(u.of.kind) <= 2
    BY <1>7, <2>1
  <2> QED BY <1>6, <2>1, <2>2 DEF Serial
<1>9. use = "work" /\ Serial(u.of) > 1 => u.of.kind = "raw"
  BY <1>5 DEF UnitFits
<1>10. u.of.kind = "raw" => use = "work" /\ Serial(u.of) > 1
  BY <1>5, <1>7 DEF UnitFits
<1>11. ASSUME stream' = q, UNCHANGED <<use, order>> PROVE UnitsInv'
  <2> SUFFICES ASSUME NEW i \in 1..Len(q) PROVE UnitFits(stream[i])'
    BY <1>11 DEF UnitsInv
  <2>1. i + 1 \in 1..Len(stream) /\ q[i] = stream[i + 1]
    BY <1>1, <1>4
  <2>2. UnitFits(stream[i + 1])
    BY <2>1 DEF WireInv, UnitsInv
  <2> QED BY <1>11, <2>1, <2>2 DEF UnitFits
<1>12. Len(q) <= WireCap
  BY <1>1, <1>4
<1> QED BY <1>3, <1>5, <1>8, <1>9, <1>10, <1>11, <1>12 DEF u, q

\* What is under way still leads from what is read to what is written.
LEMMA ChainRead ==
  ASSUME WireInv, NEW r \in 0..Len(order), ReaderInv(r), ChainInv(r), framing # "ended",
         stream # <<>>, stream' = Tail(stream), UNCHANGED <<use, lock, writing, order, rawSent, end>>,
         NEW p \in Nat, ReadSerial(p)' = Serial(Head(stream).of), ReadRest' = Rest(Head(stream))
  PROVE  ChainInv(p)'
<1>1. ReadSerial(r) \in Nat /\ ReadRest \in Int /\ stream \in Seq(Protocol!Units)
  BY ReadPlace, WireTypesAre DEF WireInv
<1>2. /\ Chain(ReadSerial(r), ReadRest, stream)
      /\ end = "open" => /\ LastSerial(ReadSerial(r), stream) = WroteSerial
                         /\ LastRest(ReadRest, stream) = WroteRest
  BY DEF ChainInv
<1>3. /\ Chain(Serial(Head(stream).of), Rest(Head(stream)), Tail(stream))
      /\ LastSerial(Serial(Head(stream).of), Tail(stream)) = LastSerial(ReadSerial(r), stream)
      /\ LastRest(Rest(Head(stream)), Tail(stream)) = LastRest(ReadRest, stream)
  BY <1>1, <1>2, ChainShrinks
<1>4. WroteSerial' = WroteSerial /\ WroteRest' = WroteRest
  BY WriterKept
<1>5. Chain(ReadSerial(p)', ReadRest', stream')
  BY <1>3
<1>6. end' = "open" => /\ LastSerial(ReadSerial(p)', stream') = WroteSerial'
                       /\ LastRest(ReadRest', stream') = WroteRest'
  BY <1>2, <1>3, <1>4
<1> QED BY <1>5, <1>6 DEF ChainInv

\* The loop reads a header.
LEMMA HeaderStep ==
  ASSUME WireInv, Protocol!ReadHeader
  PROVE  WireInv'
<1> USE WireConstants
<1> DEFINE u == Head(stream)
<1>1. PICK r \in 0..Len(order) : ReaderInv(r) /\ ChainInv(r)
  BY DEF WireInv
<1>2. /\ framing = "header" /\ stream # <<>> /\ stream' = Tail(stream)
      /\ UNCHANGED <<use, lock, writing, end, closed, order, handled, rawSent, raw>>
  BY DEF Protocol!ReadHeader
<1>3. /\ ~(Protocol!Length(u.of.kind) > 2) =>
           /\ held' = [of |-> u.of, left |-> Protocol!Length(u.of.kind), whole |-> u.part = 0]
           /\ framing' = IF Protocol!Length(u.of.kind) > 0 THEN "payload" ELSE "decode"
  BY DEF Protocol!ReadHeader
<1>4. /\ WireTypes /\ Len(order) \in Nat
  BY WireTypesAre DEF WireInv
<1>5. /\ u \in Protocol!Units /\ Tail(stream) \in Seq(Protocol!Units) /\ Len(Tail(stream)) <= WireCap
      /\ Comes(ReadSerial(r), ReadRest, u)
      /\ u.of.kind # "raw" =>
           /\ u.of = order[u.of.n] /\ u.of.n <= Len(order) /\ Serial(u.of) = u.of.n
           /\ Protocol!Length(u.of.kind) \in 0..2
      /\ u.of.kind = "raw" => use = "work" /\ Serial(u.of) > 1
      /\ UnitsInv'
  BY <1>1, <1>2, UnitTaken
<1>6. u.of \in Protocol!Messages /\ Rest(u) = Protocol!Length(u.of.kind) - u.part
  BY <1>5, UnitTypes DEF Rest
<1> HIDE DEF u
<1>7. raw = <<>> /\ Len(raw) = 0 /\ (use = "work" => r = 0)
  <2>1. raw = <<>> /\ (use = "work" => r = 0)
    BY <1>1, <1>2 DEF ReaderInv
  <2> QED BY <2>1
<1>8. ReadSerial(r) = r /\ ReadRest = 0
  BY <1>2, <1>4, <1>7 DEF ReadSerial, ReadRest, InHand
<1>9. Serial(u.of) = r + 1 /\ u.part = 0
  BY <1>5, <1>8 DEF Comes
<1>10. u.of.kind # "raw"
  BY <1>5, <1>7, <1>9
<1>11. u.of.n = r + 1 /\ r + 1 <= Len(order) /\ u.of = order[r + 1] /\ Protocol!Length(u.of.kind) \in 0..2
  BY <1>5, <1>9, <1>10
<1>12. /\ held' = [of |-> u.of, left |-> Protocol!Length(u.of.kind), whole |-> TRUE]
       /\ framing' = IF Protocol!Length(u.of.kind) > 0 THEN "payload" ELSE "decode"
  <2>1. (u.part = 0) = TRUE /\ ~(Protocol!Length(u.of.kind) > 2)
    BY <1>9, <1>11
  <2> QED BY <1>3, <2>1
<1>13. /\ held' \in HeldFrames /\ held'.of = u.of /\ held'.left = Protocol!Length(u.of.kind)
       /\ held'.whole
  BY <1>6, <1>11, <1>12 DEF HeldFrames
<1>14. ReaderInv(r)'
  <2>1. Protocol!Acted(r)'
    BY <1>1, <1>2, ActedKept DEF ReaderInv
  <2>2. InHand' /\ framing' \notin {"raw", "ended"} /\ (framing' = "payload" <=> held'.left > 0)
    BY <1>11, <1>12, <1>13 DEF InHand
  <2>3. r < Len(order')
    BY <1>2, <1>4, <1>11
  <2> QED BY <1>1, <1>2, <1>7, <1>11, <1>13, <2>1, <2>2, <2>3 DEF ReaderInv
<1>15. ChainInv(r)'
  <2>1. InHand'
    BY <1>12 DEF InHand
  <2>2. ReadSerial(r)' = Serial(u.of)
    BY <1>9, <2>1 DEF ReadSerial
  <2>3. ReadRest' = Rest(u)
    <3>1. Rest(u) = Protocol!Length(u.of.kind)
      BY <1>6, <1>9, <1>11
    <3> QED BY <1>11, <1>12, <1>13, <3>1 DEF ReadRest
  <2>4. framing # "ended"
    BY <1>2
  <2> QED BY <1>1, <1>2, <1>4, <2>2, <2>3, <2>4, ChainRead DEF u
<1>16. WireTypes'
  <2>1. /\ use' \in {"control", "work"} /\ lock' \in Ids \cup {None}
        /\ writing' \in Protocol!Units \cup {None}
        /\ end' \in {"open", "fin", "cut"} /\ closed' \in {"no", "marked", "done"}
        /\ order' \in Seq(Protocol!Messages)
        /\ handled' \in Seq(Protocol!Messages) /\ raw' \in Seq(Nat) /\ rawSent' \in 0..MaxRaw
    BY <1>2, <1>4, WireTypesAre
  <2>2. stream' \in Seq(Protocol!Units) /\ Len(stream') <= WireCap
    BY <1>2, <1>5
  <2>3. framing' \in {"header", "payload", "decode", "raw", "ended"}
    BY <1>12
  <2> QED BY <1>13, <2>1, <2>2, <2>3, WireTypesFit DEF HeldFrames
<1>17. OrderInv' /\ WritingInv'
  BY <1>2, WriterKept
<1> QED BY <1>2, <1>5, <1>14, <1>15, <1>16, <1>17 DEF WireInv

\* The loop reads a unit of a payload.
LEMMA PayloadStep ==
  ASSUME WireInv, Protocol!ReadPayload
  PROVE  WireInv'
<1> USE WireConstants
<1> DEFINE u == Head(stream)
<1>1. PICK r \in 0..Len(order) : ReaderInv(r) /\ ChainInv(r)
  BY DEF WireInv
<1>2. /\ framing = "payload" /\ stream # <<>> /\ stream' = Tail(stream)
      /\ UNCHANGED <<use, lock, writing, end, closed, order, handled, rawSent, raw>>
  BY DEF Protocol!ReadPayload
<1>3. /\ held' = [of |-> held.of, left |-> held.left - 1,
                  whole |-> held.whole /\ u.of = held.of
                              /\ u.part = Protocol!Length(u.of.kind) - held.left + 1]
      /\ framing' = IF held'.left > 0 THEN "payload" ELSE "decode"
  BY DEF Protocol!ReadPayload
<1>4. /\ WireTypes /\ Len(order) \in Nat
  BY WireTypesAre DEF WireInv
<1>5. /\ u \in Protocol!Units /\ Tail(stream) \in Seq(Protocol!Units) /\ Len(Tail(stream)) <= WireCap
      /\ Comes(ReadSerial(r), ReadRest, u)
      /\ u.of.kind # "raw" =>
           /\ u.of = order[u.of.n] /\ u.of.n <= Len(order) /\ Serial(u.of) = u.of.n
           /\ Protocol!Length(u.of.kind) \in 0..2
      /\ u.of.kind = "raw" => use = "work" /\ Serial(u.of) > 1
      /\ UnitsInv'
  BY <1>1, <1>2, UnitTaken
<1>6. Rest(u) = Protocol!Length(u.of.kind) - u.part /\ u.part \in 0..3
  BY <1>5, UnitTypes DEF Rest
<1> HIDE DEF u
<1>7. /\ held \in HeldFrames /\ held.whole /\ r < Len(order) /\ held.of = order[r + 1] /\ held.left > 0
      /\ raw = <<>> /\ (use = "work" => r = 0)
  BY <1>1, <1>2 DEF ReaderInv, InHand
<1>8. held.of \in Protocol!Messages /\ held.left \in 1..2
  BY <1>7 DEF HeldFrames
<1>9. ReadSerial(r) = r + 1 /\ ReadRest = held.left
  BY <1>2 DEF ReadSerial, ReadRest, InHand
<1>10. Serial(u.of) = r + 1 /\ Rest(u) = held.left - 1
  BY <1>5, <1>8, <1>9 DEF Comes
<1>11. u.of.kind # "raw"
  BY <1>5, <1>7, <1>10
<1>12. u.of.n = r + 1 /\ u.of = held.of /\ Protocol!Length(u.of.kind) \in 0..2
  BY <1>5, <1>7, <1>10, <1>11
<1>13. u.part = Protocol!Length(u.of.kind) - held.left + 1
  BY <1>6, <1>8, <1>10, <1>12
<1>14. held' = [of |-> held.of, left |-> held.left - 1, whole |-> TRUE]
  BY <1>3, <1>7, <1>12, <1>13
<1>15. /\ held' \in HeldFrames /\ held'.of = held.of /\ held'.left = held.left - 1 /\ held'.whole
       /\ InHand' /\ framing' \notin {"raw", "ended"} /\ (framing' = "payload" <=> held'.left > 0)
       /\ framing' \in {"payload", "decode"}
  BY <1>3, <1>8, <1>14 DEF HeldFrames, InHand
<1>16. ReaderInv(r)'
  <2>1. Protocol!Acted(r)'
    BY <1>1, <1>2, ActedKept DEF ReaderInv
  <2> QED BY <1>1, <1>2, <1>7, <1>15, <2>1 DEF ReaderInv
<1>17. ChainInv(r)'
  <2>1. ReadSerial(r)' = Serial(u.of)
    BY <1>10, <1>15 DEF ReadSerial
  <2>2. ReadRest' = Rest(u)
    BY <1>8, <1>10, <1>15 DEF ReadRest
  <2>3. framing # "ended"
    BY <1>2
  <2> QED BY <1>1, <1>2, <1>4, <2>1, <2>2, <2>3, ChainRead DEF u
<1>18. WireTypes'
  <2>1. /\ use' \in {"control", "work"} /\ lock' \in Ids \cup {None}
        /\ writing' \in Protocol!Units \cup {None}
        /\ end' \in {"open", "fin", "cut"} /\ closed' \in {"no", "marked", "done"}
        /\ order' \in Seq(Protocol!Messages)
        /\ handled' \in Seq(Protocol!Messages) /\ raw' \in Seq(Nat) /\ rawSent' \in 0..MaxRaw
    BY <1>2, <1>4, WireTypesAre
  <2>2. stream' \in Seq(Protocol!Units) /\ Len(stream') <= WireCap
    BY <1>2, <1>5
  <2>3. framing' \in {"header", "payload", "decode", "raw", "ended"}
    BY <1>15
  <2> QED BY <1>15, <2>1, <2>2, <2>3, WireTypesFit DEF HeldFrames
<1>19. OrderInv' /\ WritingInv'
  BY <1>2, WriterKept
<1> QED BY <1>2, <1>5, <1>16, <1>17, <1>18, <1>19 DEF WireInv

\* The loop acts on one message more, or passes over it.
LEMMA ActedGrows ==
  ASSUME WireTypes, OrderInv, NEW r \in 0..Len(order), r < Len(order), Protocol!Acted(r),
         NEW m, m = order[r + 1], UNCHANGED order,
         handled' = IF Protocol!Known(m) THEN Append(handled, m) ELSE handled
  PROVE  Protocol!Acted(r + 1)' /\ handled' \in Seq(Protocol!Messages)
<1>1. /\ Len(order) \in Nat /\ order \in Seq(Protocol!Messages)
      /\ handled \in Seq(Protocol!Messages) /\ Len(handled) \in Nat /\ r \in Nat
  BY WireTypesAre
<1>2. /\ {handled[i] : i \in DOMAIN handled}
           = {order[k] : k \in {j \in 1..r : Protocol!Known(order[j])}}
      /\ \A i, j \in DOMAIN handled : i < j => handled[i].n < handled[j].n
  BY DEF Protocol!Acted
<1>3. r + 1 \in 1..Len(order) /\ m \in Protocol!Messages /\ m.n = r + 1
  <2>1. r + 1 \in 1..Len(order)
    BY <1>1
  <2> QED BY <1>1, <2>1 DEF OrderInv
<1>4. Protocol!Acted(r + 1)' <=>
        /\ {handled'[i] : i \in DOMAIN handled'}
             = {order[k] : k \in {j \in 1..(r + 1) : Protocol!Known(order[j])}}
        /\ \A i, j \in DOMAIN handled' : i < j => handled'[i].n < handled'[j].n
  BY DEF Protocol!Acted
<1>5. 1..(r + 1) = (1..r) \cup {r + 1}
  BY <1>1
<1>6. CASE ~Protocol!Known(m)
  <2>1. handled' = handled
    BY <1>6
  <2>2. {j \in 1..(r + 1) : Protocol!Known(order[j])} = {j \in 1..r : Protocol!Known(order[j])}
    BY <1>5, <1>6
  <2> HIDE <1>5
  <2> QED BY <1>1, <1>2, <1>4, <2>1, <2>2
<1>7. CASE Protocol!Known(m)
  <2>1. handled' = Append(handled, m)
    BY <1>7
  <2>2. /\ handled' \in Seq(Protocol!Messages) /\ DOMAIN handled' = 1..(Len(handled) + 1)
        /\ DOMAIN handled = 1..Len(handled) /\ handled'[Len(handled) + 1] = m
        /\ \A i \in 1..Len(handled) : handled'[i] = handled[i]
    BY <1>1, <1>3, <2>1
  <2>3. {j \in 1..(r + 1) : Protocol!Known(order[j])}
          = {j \in 1..r : Protocol!Known(order[j])} \cup {r + 1}
    BY <1>5, <1>7
  <2>4. {order[k] : k \in {j \in 1..(r + 1) : Protocol!Known(order[j])}}
          = {order[k] : k \in {j \in 1..r : Protocol!Known(order[j])}} \cup {m}
    BY <2>3
  <2>5. 1..(Len(handled) + 1) = (1..Len(handled)) \cup {Len(handled) + 1}
    BY <1>1
  <2>6. {handled'[i] : i \in DOMAIN handled'} = {handled[i] : i \in DOMAIN handled} \cup {m}
    BY <2>2, <2>5
  <2>7. ASSUME NEW i \in 1..Len(handled) PROVE handled[i].n < r + 1 /\ handled[i].n \in Nat
    <3>1. PICK k \in 1..r : handled[i] = order[k]
      <4>1. handled[i] \in {handled[j] : j \in DOMAIN handled}
        BY <2>2
      <4>2. handled[i] \in {order[k] : k \in {j \in 1..r : Protocol!Known(order[j])}}
        BY <1>2, <4>1
      <4> QED BY <4>2
    <3>2. k \in 1..Len(order) /\ order[k].n = k
      BY <1>1, <3>1 DEF OrderInv
    <3> QED BY <1>1, <3>1, <3>2
  <2>8. ASSUME NEW i \in DOMAIN handled', NEW j \in DOMAIN handled', i < j
        PROVE  handled'[i].n < handled'[j].n
    <3>1. i \in 1..Len(handled) /\ (j \in 1..Len(handled) \/ j = Len(handled) + 1)
      BY <1>1, <2>2, <2>8
    <3>2. CASE j \in 1..Len(handled)
      BY <1>2, <2>2, <2>8, <3>1, <3>2
    <3>3. CASE j = Len(handled) + 1
      BY <1>3, <2>2, <2>7, <3>1, <3>3
    <3> QED BY <3>1, <3>2, <3>3
  <2> QED BY <1>2, <1>4, <2>2, <2>4, <2>6, <2>8
<1> QED BY <1>6, <1>7

\* The loop acts on a message, and is done with it.
LEMMA DispatchStep ==
  ASSUME WireInv, Protocol!Dispatch
  PROVE  WireInv'
<1>1. PICK r \in 0..Len(order) : ReaderInv(r) /\ ChainInv(r)
  BY DEF WireInv
<1>2. /\ framing = "decode" /\ framing' = (IF use = "work" THEN "raw" ELSE "header")
      /\ held' = None
      /\ handled' = IF Protocol!Known(held.of) THEN Append(handled, held.of) ELSE handled
      /\ UNCHANGED <<use, lock, writing, stream, end, closed, order, rawSent, raw>>
  BY DEF Protocol!Dispatch
<1>3. WireTypes /\ Len(order) \in Nat /\ r \in Nat
  BY WireTypesAre DEF WireInv
<1>4. /\ r < Len(order) /\ held.of = order[r + 1] /\ raw = <<>> /\ (use = "work" => r = 0)
  BY <1>1, <1>2 DEF ReaderInv, InHand
<1>5. Len(raw) = 0
  BY <1>4
<1>6. Protocol!Acted(r + 1)' /\ handled' \in Seq(Protocol!Messages)
  BY <1>1, <1>2, <1>3, <1>4, ActedGrows DEF WireInv, ReaderInv
<1>7. r + 1 \in 0..Len(order')
  BY <1>2, <1>3, <1>4
<1>8. ~InHand' /\ framing' # "ended" /\ framing' # "payload"
      /\ (framing' = "raw" <=> use = "work")
  BY <1>2 DEF InHand
<1>9. ReaderInv(r + 1)'
  BY <1>2, <1>3, <1>4, <1>5, <1>6, <1>8 DEF ReaderInv
<1>10. ChainInv(r + 1)'
  <2>1. ReadSerial(r) = r + 1 /\ ReadRest = 0
    BY <1>2 DEF ReadSerial, ReadRest, InHand
  <2>2. ReadSerial(r + 1)' = r + 1 /\ ReadRest' = 0
    BY <1>2, <1>3, <1>5, <1>8 DEF ReadSerial, ReadRest
  <2>3. WroteSerial' = WroteSerial /\ WroteRest' = WroteRest
    BY <1>2, WriterKept
  <2> QED BY <1>1, <1>2, <2>1, <2>2, <2>3 DEF ChainInv
<1>11. OrderInv' /\ WritingInv' /\ UnitsInv'
  BY <1>2, WriterKept DEF WireInv, UnitsInv, UnitFits
<1>12. WireTypes'
  <2>1. /\ use' \in {"control", "work"} /\ lock' \in Ids \cup {None}
        /\ writing' \in Protocol!Units \cup {None}
        /\ stream' \in Seq(Protocol!Units) /\ Len(stream') <= WireCap
        /\ end' \in {"open", "fin", "cut"} /\ closed' \in {"no", "marked", "done"}
        /\ order' \in Seq(Protocol!Messages) /\ raw' \in Seq(Nat) /\ rawSent' \in 0..MaxRaw
    BY <1>2, <1>3, WireTypesAre
  <2>2. framing' \in {"header", "payload", "decode", "raw", "ended"}
        /\ held' \in [of : Protocol!Messages, left : 0..2, whole : BOOLEAN] \cup {None}
    BY <1>2
  <2> QED BY <1>6, <2>1, <2>2, WireTypesFit
<1> QED BY <1>7, <1>9, <1>10, <1>11, <1>12 DEF WireInv

\* A session reads a raw unit.
LEMMA RawRead ==
  ASSUME WireInv, Protocol!ReadRaw
  PROVE  WireInv'
<1> USE WireConstants
<1> DEFINE u == Head(stream)
<1>1. PICK r \in 0..Len(order) : ReaderInv(r) /\ ChainInv(r)
  BY DEF WireInv
<1>2. /\ framing = "raw" /\ stream # <<>> /\ stream' = Tail(stream)
      /\ raw' = Append(raw, IF u.of.kind = "raw" THEN u.of.n ELSE 0)
      /\ UNCHANGED <<use, lock, writing, end, closed, framing, order, handled, rawSent, held>>
  BY DEF Protocol!ReadRaw
<1>3. /\ WireTypes /\ Len(order) \in Nat /\ Len(raw) \in Nat /\ raw \in Seq(Nat)
  BY WireTypesAre DEF WireInv
<1>4. /\ u \in Protocol!Units /\ Tail(stream) \in Seq(Protocol!Units) /\ Len(Tail(stream)) <= WireCap
      /\ Comes(ReadSerial(r), ReadRest, u) /\ UnitFits(u)
      /\ use = "work" /\ Serial(u.of) > 1 => u.of.kind = "raw"
      /\ UnitsInv'
  BY <1>1, <1>2, UnitTaken
<1>5. /\ u.of.n \in 1..(MaxMsgs + MaxRaw) /\ u.part \in 0..3 /\ Rest(u) = Protocol!Length(u.of.kind) - u.part
      /\ Serial(u.of) \in Nat
  BY <1>4, UnitTypes DEF Rest
<1> HIDE DEF u
<1>6. use = "work" /\ r = 1
  BY <1>1, <1>2 DEF ReaderInv
<1>7. ReadSerial(r) = 1 + Len(raw) /\ ReadRest = 0
  BY <1>2, <1>6 DEF ReadSerial, ReadRest, InHand
<1>8. Serial(u.of) = (1 + Len(raw)) + 1 /\ u.part = 0
  BY <1>4, <1>7 DEF Comes
<1>9. u.of.kind = "raw"
  <2>1. PICK n \in Nat : n = Len(raw)
    BY <1>3
  <2>2. (1 + n) + 1 > 1
    OBVIOUS
  <2> QED BY <1>4, <1>6, <1>8, <2>1, <2>2
<1>10. u.of.n = Len(raw) + 1 /\ Rest(u) = 0
  <2>1. u.of.n + 1 = (1 + Len(raw)) + 1
    BY <1>8, <1>9 DEF Serial
  <2>2. PICK n \in Nat, k \in Nat : n = Len(raw) /\ k = u.of.n
    BY <1>3, <1>5
  <2>3. k = n + 1
    BY <2>1, <2>2
  <2> QED BY <1>5, <1>8, <1>9, <2>2, <2>3
<1>11. /\ raw' = Append(raw, Len(raw) + 1) /\ raw' \in Seq(Nat) /\ Len(raw') = Len(raw) + 1
       /\ \A i \in 1..Len(raw) : raw'[i] = raw[i]
       /\ raw'[Len(raw) + 1] = Len(raw) + 1
  <2>1. raw' = Append(raw, Len(raw) + 1) /\ Len(raw) + 1 \in Nat
    BY <1>2, <1>3, <1>9, <1>10
  <2> QED BY <1>3, <2>1
<1>12. \A i \in 1..Len(raw') : raw'[i] = i
  <2>1. \A i \in 1..Len(raw) : raw[i] = i
    BY <1>1 DEF ReaderInv
  <2>2. \A i \in 1..(Len(raw) + 1) : i \in 1..Len(raw) \/ i = Len(raw) + 1
    BY <1>3
  <2> QED BY <1>11, <2>1, <2>2
<1>13. ReaderInv(r)'
  <2>1. Protocol!Acted(r)'
    BY <1>1, <1>2, ActedKept DEF ReaderInv
  <2>2. held = None \/ (held \in HeldFrames /\ held.whole)
    BY <1>1 DEF ReaderInv
  <2>3. ~InHand'
    BY <1>2 DEF InHand
  <2> QED BY <1>2, <1>6, <1>12, <2>1, <2>2, <2>3 DEF ReaderInv
<1>14. ChainInv(r)'
  <2>1. ReadSerial(r)' = Serial(u.of)
    <3>1. ReadSerial(r)' = 1 + Len(raw')
      BY <1>2, <1>6 DEF ReadSerial, InHand
    <3>2. 1 + (Len(raw) + 1) = (1 + Len(raw)) + 1
      BY <1>3
    <3> QED BY <1>8, <1>11, <3>1, <3>2
  <2>2. ReadRest' = Rest(u)
    BY <1>2, <1>10 DEF ReadRest
  <2>3. framing # "ended" /\ r \in Nat
    BY <1>2, <1>6
  <2> QED BY <1>1, <1>2, <2>1, <2>2, <2>3, ChainRead DEF u
<1>15. OrderInv' /\ WritingInv'
  BY <1>2, WriterKept
<1>16. WireTypes'
  <2>1. /\ use' \in {"control", "work"} /\ lock' \in Ids \cup {None}
        /\ writing' \in Protocol!Units \cup {None}
        /\ end' \in {"open", "fin", "cut"} /\ closed' \in {"no", "marked", "done"}
        /\ framing' \in {"header", "payload", "decode", "raw", "ended"}
        /\ held' \in [of : Protocol!Messages, left : 0..2, whole : BOOLEAN] \cup {None}
        /\ order' \in Seq(Protocol!Messages)
        /\ handled' \in Seq(Protocol!Messages) /\ rawSent' \in 0..MaxRaw
    BY <1>2, <1>3, WireTypesAre
  <2>2. stream' \in Seq(Protocol!Units) /\ Len(stream') <= WireCap
    BY <1>2, <1>4
  <2> QED BY <1>11, <2>1, <2>2, WireTypesFit
<1> QED BY <1>2, <1>4, <1>13, <1>14, <1>15, <1>16 DEF WireInv

\* The loop ends, with the connection or before it.
LEMMA ReaderEnds ==
  ASSUME WireInv, Protocol!ReadFails \/ Protocol!CloseReader
  PROVE  WireInv'
<1>1. PICK r \in 0..Len(order) : ReaderInv(r) /\ ChainInv(r)
  BY DEF WireInv
<1>2. /\ framing' = "ended" /\ held' = None /\ end' # "open"
      /\ stream' = stream \/ stream' = <<>>
      /\ end' = end \/ end' = "cut"
      /\ UNCHANGED <<use, lock, writing, closed, order, handled, rawSent, raw>>
  BY DEF Protocol!ReadFails, Protocol!CloseReader
<1>3. WireTypes
  BY DEF WireInv
<1>4. ReaderInv(r)'
  <2>1. Protocol!Acted(r)'
    BY <1>1, <1>2, ActedKept DEF ReaderInv
  <2>2. ~InHand'
    BY <1>2 DEF InHand
  <2>3. \A i \in 1..Len(raw) : raw[i] = i
    BY <1>1 DEF ReaderInv
  <2> QED BY <1>2, <2>1, <2>2, <2>3 DEF ReaderInv
<1>5. ChainInv(r)'
  BY <1>2 DEF ChainInv
<1>6. OrderInv' /\ WritingInv'
  BY <1>2, WriterKept
<1>7. UnitsInv'
  <2>1. CASE stream' = stream
    BY <1>2, <2>1 DEF WireInv, UnitsInv, UnitFits
  <2>2. CASE stream' = <<>>
    <3>1. Len(stream') = 0
      BY <2>2
    <3> QED BY <3>1 DEF UnitsInv
  <2> QED BY <1>2, <2>1, <2>2
<1>8. WireTypes'
  <2>1. /\ use' \in {"control", "work"} /\ lock' \in Ids \cup {None}
        /\ writing' \in Protocol!Units \cup {None}
        /\ end' \in {"open", "fin", "cut"} /\ closed' \in {"no", "marked", "done"}
        /\ order' \in Seq(Protocol!Messages) /\ raw' \in Seq(Nat)
        /\ handled' \in Seq(Protocol!Messages) /\ rawSent' \in 0..MaxRaw
    BY <1>2, <1>3, WireTypesAre
  <2>2. stream' \in Seq(Protocol!Units) /\ Len(stream') <= WireCap
    <3>1. <<>> \in Seq(Protocol!Units) /\ Len(<<>>) <= WireCap
      BY WireConstants
    <3> QED BY <1>2, <1>3, <3>1, WireTypesAre
  <2>3. framing' \in {"header", "payload", "decode", "raw", "ended"}
        /\ held' \in [of : Protocol!Messages, left : 0..2, whole : BOOLEAN] \cup {None}
    BY <1>2
  <2> QED BY <2>1, <2>2, <2>3, WireTypesFit
<1> QED BY <1>1, <1>2, <1>4, <1>5, <1>6, <1>7, <1>8 DEF WireInv

\* A step of the wire protocol keeps its invariant.
LEMMA WireStep == WireInv /\ Protocol!Next => WireInv'
<1> SUFFICES ASSUME WireInv, Protocol!Next PROVE WireInv'
  OBVIOUS
<1>1. ASSUME NEW w \in Ids, Protocol!WriteUnit(w) PROVE WireInv'
  BY <1>1, UnitStep
<1>2. ASSUME \/ \E w \in Ids, kind \in Protocol!Kinds \cup {"work"} : Protocol!Write(w, kind)
             \/ \E w \in Ids : Protocol!WriteFails(w)
             \/ Protocol!Mark \/ Protocol!Close
      PROVE  WireInv'
  BY <1>2, QuietWriterSteps
<1> QED
  BY <1>1, <1>2, RawStep, BreakStream, HeaderStep, PayloadStep, DispatchStep, RawRead, ReaderEnds
     DEF Protocol!Next

\* After the frame of a work connection each unit is one place further than the
\* one before it.
SpreadInv == use = "work" =>
  \A i, j \in 1..Len(stream) :
    i < j /\ Serial(stream[i].of) > 1 => Serial(stream[j].of) = Serial(stream[i].of) + (j - i)

\* Units after the frame are raw: nothing of their message comes after them.
LEMMA RawUnits ==
  ASSUME WireInv, use = "work", NEW i \in 1..Len(stream), Serial(stream[i].of) > 1
  PROVE  stream[i].of.kind = "raw" /\ Rest(stream[i]) = 0
<1>1. stream[i] \in Protocol!Units /\ UnitFits(stream[i])
  BY WireTypesAre DEF WireInv, UnitsInv
<1>2. stream[i].of.kind = "raw"
  BY <1>1 DEF UnitFits
<1>3. stream[i].part <= 0 /\ stream[i].part \in 0..3
  BY <1>1, <1>2, UnitTypes, WireConstants DEF UnitFits
<1> QED BY <1>2, <1>3, WireConstants DEF Rest

\* A unit is written at the end.
LEMMA SpreadGrows ==
  ASSUME WireInv, WireInv', SpreadInv, end = "open", UNCHANGED <<use, end, framing>>,
         NEW u \in Protocol!Units, stream' = Append(stream, u)
  PROVE  SpreadInv'
<1> DEFINE a == stream'
           L == Len(stream)
<1> SUFFICES ASSUME use = "work", NEW i \in 1..Len(a), NEW j \in 1..Len(a), i < j,
                    Serial(a[i].of) > 1
             PROVE  Serial(a[j].of) = Serial(a[i].of) + (j - i)
  BY DEF SpreadInv
<1>1. /\ stream \in Seq(Protocol!Units) /\ L \in Nat /\ Len(a) = L + 1 /\ a[L + 1] = u
      /\ \A k \in 1..L : a[k] = stream[k] /\ Serial(stream[k].of) \in Nat
  <2>1. stream \in Seq(Protocol!Units)
    BY WireTypesAre DEF WireInv
  <2>2. /\ L \in Nat /\ Len(a) = L + 1 /\ a[L + 1] = u /\ \A k \in 1..L : a[k] = stream[k]
    BY <2>1
  <2>3. ASSUME NEW k \in 1..L PROVE Serial(stream[k].of) \in Nat
    <3>1. stream[k] \in Protocol!Units
      BY <2>1
    <3> QED BY <3>1, UnitTypes
  <2> QED BY <2>1, <2>2, <2>3
<1>2. \E r : Chain(ReadSerial(r), ReadRest, stream)'
  <2>1. PICK r \in 0..Len(order') : ReaderInv(r)' /\ ChainInv(r)'
    BY DEF WireInv
  <2>2. framing' # "ended"
    BY <2>1 DEF ReaderInv
  <2> QED BY <2>1, <2>2 DEF ChainInv
<1>3. ASSUME L > 0 PROVE Comes(Serial(a[L].of), Rest(a[L]), a[L + 1])
  <2>1. L + 1 \in 1..Len(a) /\ L + 1 # 1 /\ (L + 1) - 1 = L
    BY <1>1, <1>3
  <2> QED BY <1>2, <2>1 DEF Chain
<1> HIDE DEF a
<1>4. CASE j \in 1..L
  <2>1. i \in 1..L
    BY <1>1, <1>4
  <2> QED BY <1>1, <1>4, <2>1 DEF SpreadInv
<1>5. CASE j = L + 1
  <2>1. i \in 1..L /\ L \in 1..L /\ L > 0
    BY <1>1, <1>5
  <2>2. a[i] = stream[i] /\ a[L] = stream[L] /\ Serial(stream[i].of) > 1
        /\ Serial(stream[i].of) \in Nat /\ Serial(stream[L].of) \in Nat
    BY <1>1, <2>1
  <2>3. Serial(stream[L].of) = Serial(stream[i].of) + (L - i)
    <3>1. CASE i = L
      BY <2>1, <2>2, <3>1
    <3>2. CASE i # L
      <4>1. i \in 1..Len(stream) /\ L \in 1..Len(stream) /\ i < L
        BY <2>1, <3>2
      <4> HIDE DEF L
      <4> QED BY <2>2, <4>1 DEF SpreadInv
    <3> QED BY <3>1, <3>2
  <2>4. PICK n \in Nat, m \in Nat : n = Serial(stream[i].of) /\ m = Serial(stream[L].of)
    BY <2>2
  <2>5. m > 1
    BY <1>1, <2>1, <2>2, <2>3, <2>4
  <2>6. Rest(stream[L]) = 0
    BY <2>1, <2>4, <2>5, RawUnits
  <2>7. Serial(a[j].of) = m + 1
    BY <1>3, <1>5, <2>1, <2>2, <2>4, <2>6 DEF Comes
  <2> QED BY <1>1, <1>5, <2>1, <2>2, <2>3, <2>4, <2>7
<1> QED BY <1>1, <1>4, <1>5

\* Units are read at the front, or cut off at the end.
LEMMA SpreadShrinks ==
  ASSUME WireInv, SpreadInv, use' = use, NEW d \in Nat,
         Len(stream') \in Nat, Len(stream') + d <= Len(stream),
         \A k \in 1..Len(stream') : stream'[k] = stream[k + d]
  PROVE  SpreadInv'
<1> DEFINE b == stream'
<1> SUFFICES ASSUME use = "work", NEW i \in 1..Len(b), NEW j \in 1..Len(b), i < j,
                    Serial(b[i].of) > 1
             PROVE  Serial(b[j].of) = Serial(b[i].of) + (j - i)
  BY DEF SpreadInv
<1>1. Len(stream) \in Nat
  BY WireTypesAre DEF WireInv
<1> HIDE DEF b
<1>2. i + d \in 1..Len(stream) /\ j + d \in 1..Len(stream) /\ i + d < j + d
      /\ (j + d) - (i + d) = j - i /\ b[i] = stream[i + d] /\ b[j] = stream[j + d]
  BY <1>1 DEF b
<1>3. Serial(stream[i + d].of) > 1
  BY <1>2
<1>4. Serial(stream[j + d].of) = Serial(stream[i + d].of) + ((j + d) - (i + d))
  BY <1>2, <1>3 DEF SpreadInv
<1> QED BY <1>2, <1>4

\* Nothing is under way at the start.
LEMMA SpreadInit == Protocol!Init => SpreadInv
BY DEF Protocol!Init, SpreadInv

\* A step of the wire protocol keeps the places of its units.
LEMMA SpreadStep ==
  ASSUME WireInv, WireInv', SpreadInv, Protocol!Next
  PROVE  SpreadInv'
<1>1. stream \in Seq(Protocol!Units) /\ Len(stream) \in Nat
  BY WireTypesAre DEF WireInv
<1>2. ASSUME NEW w \in Ids, Protocol!WriteUnit(w) PROVE SpreadInv'
  <2>1. /\ end = "open" /\ stream' = Append(stream, writing) /\ UNCHANGED <<use, end, framing>>
        /\ lock = w
    BY <1>2 DEF Protocol!WriteUnit
  <2>2. writing \in Protocol!Units
    BY <2>1, WireConstants DEF WireInv, WritingInv
  <2> QED BY <2>1, <2>2, SpreadGrows
<1>3. ASSUME Protocol!WriteRaw PROVE SpreadInv'
  <2> DEFINE u == [of |-> [kind |-> "raw", n |-> rawSent + 1], part |-> 0]
  <2>1. /\ end = "open" /\ stream' = Append(stream, u) /\ UNCHANGED <<use, end, framing>>
        /\ rawSent < MaxRaw /\ rawSent \in 0..MaxRaw
    BY <1>3, WireTypesAre DEF Protocol!WriteRaw, WireInv
  <2>2. u \in Protocol!Units
    BY <2>1, WireConstants DEF Protocol!Units, Protocol!Messages
  <2> QED BY <2>1, <2>2, SpreadGrows
<1>4. ASSUME stream # <<>>, stream' = Tail(stream), use' = use PROVE SpreadInv'
  <2>1. /\ Len(stream') = Len(stream) - 1 /\ Len(stream') \in Nat
        /\ \A k \in 1..Len(stream') : stream'[k] = stream[k + 1]
    BY <1>1, <1>4
  <2> QED BY <1>1, <1>4, <2>1, SpreadShrinks
<1>5. ASSUME Protocol!Break PROVE SpreadInv'
  <2>1. PICK k \in 0..Len(stream) : stream' = SubSeq(stream, 1, k) /\ use' = use
    BY <1>5 DEF Protocol!Break
  <2>2. Len(stream') = k /\ \A i \in 1..k : stream'[i] = stream[i + 0]
    BY <1>1, <2>1
  <2> QED BY <1>1, <2>1, <2>2, SpreadShrinks
<1>6. ASSUME Protocol!CloseReader PROVE SpreadInv'
  <2>1. Len(stream') = 0 /\ use' = use
    BY <1>6 DEF Protocol!CloseReader
  <2> QED BY <2>1 DEF SpreadInv
<1>7. ASSUME UNCHANGED stream, use' = use PROVE SpreadInv'
  BY <1>7 DEF SpreadInv
<1>8. CASE Protocol!ReadHeader \/ Protocol!ReadPayload \/ Protocol!ReadRaw
  <2>1. stream # <<>> /\ stream' = Tail(stream) /\ use' = use
    BY <1>8 DEF Protocol!ReadHeader, Protocol!ReadPayload, Protocol!ReadRaw
  <2> QED BY <1>4, <2>1
<1>9. CASE Protocol!Mark \/ Protocol!Close \/ Protocol!Dispatch \/ Protocol!ReadFails
  <2>1. UNCHANGED stream /\ use' = use
    BY <1>9 DEF Protocol!Mark, Protocol!Close, Protocol!Dispatch, Protocol!ReadFails
  <2> QED BY <1>7, <2>1
<1>10. ASSUME NEW w \in Ids, Protocol!WriteFails(w) \/ \E kind \in Protocol!Kinds \cup {"work"} : Protocol!Write(w, kind)
       PROVE  SpreadInv'
  <2>1. UNCHANGED stream /\ use' = use
    BY <1>10 DEF Protocol!WriteFails, Protocol!Write
  <2> QED BY <1>7, <2>1
<1> QED BY <1>2, <1>3, <1>5, <1>6, <1>8, <1>9, <1>10 DEF Protocol!Next

\* What is under way when the loop has taken the frame of a work connection: raw
\* units, as many as were sent and not read.
LEMMA RawUnderWay ==
  ASSUME WireInv, SpreadInv, end = "open", framing = "raw"
  PROVE  Len(raw) + Len(stream) = rawSent
<1> USE WireConstants
<1>1. PICK r \in 0..Len(order) : ReaderInv(r) /\ ChainInv(r)
  BY DEF WireInv
<1>2. /\ Len(stream) \in Nat /\ Len(stream) <= WireCap /\ Len(order) \in Nat /\ Len(raw) \in Nat
      /\ stream \in Seq(Protocol!Units) /\ rawSent \in Nat
  BY WireTypesAre DEF WireInv
<1>3. use = "work" /\ r = 1
  BY <1>1 DEF ReaderInv
<1>4. ReadSerial(r) = 1 + Len(raw) /\ ReadRest = 0
  BY <1>3 DEF ReadSerial, ReadRest, InHand
<1>5. Len(order) = 1
  <2>1. Len(order) <= 1
    BY <1>3 DEF WireInv, OrderInv
  <2>2. PICK n \in Nat : n = Len(order)
    BY <1>2
  <2>3. 1 <= n /\ n <= 1
    BY <1>3, <2>1, <2>2
  <2>4. n = 1
    BY <2>3
  <2> QED BY <2>2, <2>4
<1>6. /\ Chain(1 + Len(raw), 0, stream)
      /\ LastSerial(1 + Len(raw), stream) = 1 + rawSent /\ LastRest(0, stream) = WroteRest
  BY <1>1, <1>4, <1>5 DEF ChainInv, WroteSerial
<1>7. CASE stream = <<>>
  BY <1>2, <1>6, <1>7 DEF LastSerial
<1>8. CASE stream # <<>>
  <2>1. PICK n \in Nat, m \in Nat, t \in Nat : n = Len(raw) /\ m = Len(stream) /\ t = rawSent
    BY <1>2
  <2>2. m > 0 /\ 1 \in 1..Len(stream) /\ Len(stream) \in 1..Len(stream)
    BY <1>2, <1>8, <2>1
  <2>3. Serial(stream[1].of) = n + 2
    <3>1. Comes(1 + Len(raw), 0, stream[1])
      BY <1>6, <2>2 DEF Chain
    <3> QED BY <2>1, <3>1 DEF Comes
  <2>4. Serial(stream[m].of) = n + 1 + m
    <3>1. CASE m = 1
      BY <2>3, <3>1
    <3>2. CASE m # 1
      <4>1. m \in 1..Len(stream) /\ 1 < m /\ Serial(stream[1].of) > 1
        BY <2>1, <2>2, <2>3, <3>2
      <4>2. Serial(stream[m].of) = Serial(stream[1].of) + (m - 1)
        BY <1>3, <2>2, <4>1 DEF SpreadInv
      <4> QED BY <2>3, <4>2
    <3> QED BY <3>1, <3>2
  <2>5. LastSerial(1 + Len(raw), stream) = n + 1 + m
    BY <2>1, <2>2, <2>4 DEF LastSerial
  <2>6. n + 1 + m = 1 + t
    BY <1>6, <2>1, <2>5
  <2> QED BY <2>1, <2>6
<1> QED BY <1>7, <1>8

\* The two invariants of the wire protocol give its properties.
LEMMA WireHolds ==
  WireInv /\ SpreadInv => /\ Protocol!TypeOK /\ Protocol!FramesAreWhole
                          /\ Protocol!NothingIsLost /\ Protocol!RawFollowsFrame
<1> SUFFICES ASSUME WireInv, SpreadInv
             PROVE  Protocol!FramesAreWhole /\ Protocol!NothingIsLost /\ Protocol!RawFollowsFrame
  BY DEF WireInv, WireTypes
<1>1. PICK r \in 0..Len(order) : ReaderInv(r) /\ ChainInv(r)
  BY DEF WireInv
<1>2. /\ Len(order) \in Nat /\ Len(raw) \in Nat /\ rawSent \in 0..MaxRaw /\ use \in {"control", "work"}
      /\ raw \in Seq(Nat) /\ r \in Nat
  BY WireTypesAre DEF WireInv
<1>3. Protocol!FramesAreWhole
  BY <1>1 DEF ReaderInv, Protocol!FramesAreWhole
<1>4. Protocol!NothingIsLost
  <2>1. framing = "ended" => end # "open"
    BY <1>1 DEF ReaderInv
  <2>2. ASSUME end = "open", lock = None, stream = <<>>, framing = "header"
        PROVE  Protocol!Acted(Len(order))
    <3>1. raw = <<>> /\ (use = "work" => r = 0) /\ Protocol!Acted(r)
      BY <1>1, <2>2 DEF ReaderInv
    <3>2. Len(raw) = 0 /\ Len(stream) = 0
      BY <2>2, <3>1
    <3>3. ReadSerial(r) = r
      BY <1>2, <2>2, <3>2 DEF ReadSerial, InHand
    <3>4. LastSerial(ReadSerial(r), stream) = WroteSerial
      BY <1>1, <2>2 DEF ChainInv
    <3>5. r = Len(order) + rawSent
      BY <3>2, <3>3, <3>4 DEF LastSerial, WroteSerial
    <3>6. r = Len(order)
      <4>1. PICK a \in Nat, b \in Nat : a = Len(order) /\ b = rawSent
        BY <1>2
      <4>2. r = a + b /\ r <= a
        BY <3>5, <4>1
      <4>3. r = a
        BY <1>2, <4>2
      <4> QED BY <4>1, <4>3
    <3> QED BY <3>1, <3>6
  <2> QED BY <2>1, <2>2 DEF Protocol!NothingIsLost
<1>5. Protocol!RawFollowsFrame
  <2>1. \A i \in 1..Len(raw) : raw[i] = i
    BY <1>1 DEF ReaderInv
  <2>2. raw = [i \in 1..Len(raw) |-> i]
    <3>1. raw = [i \in 1..Len(raw) |-> raw[i]]
      BY <1>2
    <3> QED BY <2>1, <3>1
  <2> QED BY <2>2, RawUnderWay DEF Protocol!RawFollowsFrame
<1> QED BY <1>3, <1>4, <1>5

\* No answer is cut short while the user's direction is open, the end of either
\* connection reaches the other, and messages arrive whole, in the order of the
\* lock, with the bytes of a session after the frame of its connection (session.go:
\* Bridge; tunnel.go: bridgeConnections; codec.go: Write, ReadMessage).
THEOREM ConnectionsAreForwarded == Spec => []ForwardingIsSound
<1> DEFINE Inv == (part = "forwarding" => ForwardingInv) /\ (part = "wire" => WireInv /\ SpreadInv)
<1>1. Init => Inv
  BY ForwardingInit, WireInit, SpreadInit DEF Init
<1>2. Inv /\ [Next]_vars => Inv'
  <2> SUFFICES ASSUME Inv, [Next]_vars PROVE Inv'
    OBVIOUS
  <2>1. ASSUME part' = "forwarding" PROVE ForwardingInv'
    <3>1. CASE Next
      <4>1. part = "forwarding" /\ Forwarding!Next
        BY <2>1, <3>1 DEF Next
      <4> QED BY <4>1, ForwardingStep
    <3>2. CASE UNCHANGED vars
      <4>1. ForwardingInv /\ UNCHANGED forwardingVars
        BY <2>1, <3>2 DEF vars
      <4> QED
        BY <4>1 DEF forwardingVars, ForwardingInv, Forwarding!TypeOK, LossInv, ShutInv, EndInv,
           RelayInv, ClientInv, AnswerInv, Hopeful, Given, Lossless, Flight
    <3> QED BY <3>1, <3>2
  <2>2. ASSUME part' = "wire" PROVE WireInv' /\ SpreadInv'
    <3>1. CASE Next
      <4>1. WireInv /\ SpreadInv /\ Protocol!Next
        BY <2>2, <3>1 DEF Next
      <4>2. WireInv'
        BY <4>1, <2>2, WireStep
      <4> QED BY <4>1, <4>2, SpreadStep
    <3>2. CASE UNCHANGED vars
      <4>1. WireInv /\ SpreadInv /\ UNCHANGED wireVars
        BY <2>2, <3>2 DEF vars
      <4>2. WireInv' = WireInv
        BY <4>1 DEF wireVars, WireInv, WireTypes, Protocol!TypeOK, OrderInv, KindsFor, WritingInv,
           UnitsInv, UnitFits, ReaderInv, InHand, Protocol!Acted, Protocol!Known, ChainInv,
           ReadSerial, ReadRest, WroteSerial, WroteRest, Midway
      <4>3. SpreadInv' = SpreadInv
        BY <4>1 DEF wireVars, SpreadInv
      <4> QED BY <4>1, <4>2, <4>3
    <3> QED BY <3>1, <3>2
  <2> QED BY <2>1, <2>2
<1>3. Inv => ForwardingIsSound
  BY ForwardingHolds, WireHolds DEF ForwardingIsSound
<1> QED BY <1>1, <1>2, <1>3, PTL DEF Spec

===============================================================================
