------------------------------ MODULE WireProtocol -----------------------------
(***************************************************************************)
(* One direction of one connection of the wire protocol (pkg/protocol:     *)
(* codec.go, message.go): goroutines that write framed messages under one  *)
(* lock, the bytes on their way, and the loop that reads frames, decodes   *)
(* them and passes over what it does not know.  A work connection carries  *)
(* one frame and then the raw bytes of a session, read from the            *)
(* connection under it.  A unit is a piece of the stream: a header, a part *)
(* of a payload, or raw bytes.                                             *)
(***************************************************************************)
EXTENDS Naturals, Sequences

CONSTANTS
  Writers,   \* goroutines that write messages
  None,
  Cap,       \* bound: units under way
  MaxMsgs,   \* bound: messages written
  MaxRaw     \* bound: raw units written

\* What the constants must satisfy; the MC module assumes it.
NoneAssumption == None \notin Writers
BoundsAssumption == Cap \in Nat /\ MaxMsgs \in Nat /\ MaxRaw \in Nat

Kinds == {"heartbeat", "request", "unknown", "huge"}
MaxLen == 2                                            \* maxPayloadSize
Length(kind) ==
  CASE kind = "heartbeat" -> 0
    [] kind = "request" -> MaxLen
    [] kind = "unknown" -> 1
    [] kind = "huge" -> MaxLen + 1
    [] kind = "work" -> 1
    [] kind = "raw" -> 0

VARIABLES
  use,       \* "control" or "work": what the connection is for
  lock,      \* writeMu
  writing,   \* the message under the lock and its next unit
  stream,    \* units written and not yet read
  end,       \* "open", "fin" (closed after the stream), "cut" (broken)
  closed,    \* Close: "no", "marked" (the flag is set), "done"
  reader,    \* the read loop: "header", "payload", "decode", "raw", "ended"
  held,      \* the frame being read: its message, units to come, history: whole
  order,     \* history: messages in the order their headers were written
  handled,   \* history: messages the loop acted on
  rawSent, raw  \* history: raw units written, and the ones read, by number

vars == <<use, lock, writing, stream, end, closed, reader, held, order, handled,
          rawSent, raw>>

Messages == [kind : Kinds \cup {"work", "raw"}, n : 1 .. MaxMsgs + MaxRaw]
Units == [of : Messages, part : 0 .. MaxLen + 1]

TypeOK ==
  /\ use \in {"control", "work"}
  /\ lock \in Writers \cup {None}
  /\ writing \in Units \cup {None}
  /\ Len(stream) <= Cap /\ \A i \in DOMAIN stream : stream[i] \in Units
  /\ end \in {"open", "fin", "cut"} /\ closed \in {"no", "marked", "done"}
  /\ reader \in {"header", "payload", "decode", "raw", "ended"}
  /\ held \in [of : Messages, left : 0 .. MaxLen, whole : BOOLEAN] \cup {None}
  /\ \A s \in {order, handled} : \A i \in DOMAIN s : s[i] \in Messages
  /\ rawSent \in 0 .. MaxRaw /\ \A i \in DOMAIN raw : raw[i] \in Nat

Init ==
  /\ use \in {"control", "work"}
  /\ lock = None /\ writing = None
  /\ stream = <<>> /\ end = "open" /\ closed = "no"
  /\ reader = "header" /\ held = None
  /\ order = <<>> /\ handled = <<>> /\ rawSent = 0 /\ raw = <<>>

-------------------------------------------------------------------------------
(* Writing: Conn.Write holds writeMu over the header and the payload.      *)

\* A closed connection and a payload too large are refused before a byte.
Accepts(kind) == closed = "no" /\ Length(kind) <= MaxLen

\* What is written on a work connection is the one frame that names its session.
KindsWritten == IF use = "control" THEN Kinds
                ELSE IF order = <<>> THEN {"work"} ELSE {}

Write(w, kind) ==
  /\ lock = None /\ kind \in KindsWritten /\ Len(order) < MaxMsgs
  /\ Accepts(kind)
  /\ lock' = w
  /\ writing' = [of |-> [kind |-> kind, n |-> Len(order) + 1], part |-> 0]
  /\ UNCHANGED <<use, stream, end, closed, reader, held, order, handled, rawSent, raw>>

\* The lock is kept until the last unit is written.
Keeps(unit) == unit.part < Length(unit.of.kind)

WriteUnit(w) ==
  /\ lock = w /\ writing # None /\ end = "open" /\ Len(stream) < Cap
  /\ stream' = Append(stream, writing)
  /\ IF Keeps(writing)
     THEN writing' = [of |-> writing.of, part |-> writing.part + 1] /\ UNCHANGED lock
     ELSE writing' = None /\ lock' = None
  /\ order' = IF writing.part = 0 THEN Append(order, writing.of) ELSE order
  /\ UNCHANGED <<use, end, closed, reader, held, handled, rawSent, raw>>

\* There are no deadlines: a write waits for room, until the connection ends.
WriteFails(w) ==
  /\ lock = w /\ end # "open"
  /\ lock' = None /\ writing' = None
  /\ UNCHANGED <<use, stream, end, closed, reader, held, order, handled, rawSent, raw>>

\* The bridge of a work connection writes to the connection under it.
WriteRaw ==
  /\ use = "work" /\ order # <<>> /\ lock = None /\ closed = "no"
  /\ rawSent < MaxRaw /\ end = "open" /\ Len(stream) < Cap
  /\ rawSent' = rawSent + 1
  /\ stream' = Append(stream, [of |-> [kind |-> "raw", n |-> rawSent + 1], part |-> 0])
  /\ UNCHANGED <<use, lock, writing, end, closed, reader, held, order, handled, raw>>

\* Close takes neither lock of Read and Write: it ends a write that waits.
Mark == /\ closed = "no" /\ closed' = "marked"
        /\ UNCHANGED <<use, lock, writing, stream, end, reader, held, order, handled,
                       rawSent, raw>>
Close == /\ closed = "marked" /\ closed' = "done"
         /\ end' = IF end = "open" THEN "fin" ELSE end
         /\ UNCHANGED <<use, lock, writing, stream, reader, held, order, handled,
                        rawSent, raw>>
Break == /\ end = "open" /\ end' = "cut"
         /\ \E k \in 0 .. Len(stream) : stream' = SubSeq(stream, 1, k)
         /\ UNCHANGED <<use, lock, writing, closed, reader, held, order, handled,
                        rawSent, raw>>

-------------------------------------------------------------------------------
(* Reading: the one loop that reads a connection.                          *)

\* ReadFull of a header; the length it names is checked before the payload.
ReadHeader ==
  /\ reader = "header" /\ stream # <<>>
  /\ LET u == Head(stream)
         left == Length(u.of.kind)
     IN IF left > MaxLen
        THEN reader' = "ended" /\ UNCHANGED held
        ELSE /\ held' = [of |-> u.of, left |-> left, whole |-> u.part = 0]
             /\ reader' = IF left > 0 THEN "payload" ELSE "decode"
  /\ stream' = Tail(stream)
  /\ UNCHANGED <<use, lock, writing, end, closed, order, handled, rawSent, raw>>

\* ReadFull of the payload, piece by piece.
ReadPayload ==
  /\ reader = "payload" /\ stream # <<>>
  /\ LET u == Head(stream)
     IN held' = [of |-> held.of, left |-> held.left - 1,
                 whole |-> held.whole /\ u.of = held.of
                             /\ u.part = Length(u.of.kind) - held.left + 1]
  /\ reader' = IF held'.left > 0 THEN "payload" ELSE "decode"
  /\ stream' = Tail(stream)
  /\ UNCHANGED <<use, lock, writing, end, closed, order, handled, rawSent, raw>>

\* DecodePayload: a type that is not known, or a payload that is not one of it.
Known(msg) == msg.kind # "unknown"

\* What the loop does not know it passes over; a work connection is handed over
\* to its session.
Dispatch ==
  /\ reader = "decode"
  /\ handled' = IF Known(held.of) THEN Append(handled, held.of) ELSE handled
  /\ reader' = IF use = "work" THEN "raw" ELSE "header"
  /\ held' = None
  /\ UNCHANGED <<use, lock, writing, stream, end, closed, order, rawSent, raw>>

ReadRaw ==
  /\ reader = "raw" /\ stream # <<>>
  /\ raw' = Append(raw, IF Head(stream).of.kind = "raw" THEN Head(stream).of.n ELSE 0)
  /\ stream' = Tail(stream)
  /\ UNCHANGED <<use, lock, writing, end, closed, reader, held, order, handled, rawSent>>

\* The end of the stream, within a frame or between two.
ReadFails ==
  /\ reader \in {"header", "payload", "raw"} /\ stream = <<>> /\ end # "open"
  /\ reader' = "ended" /\ held' = None
  /\ UNCHANGED <<use, lock, writing, stream, end, closed, order, handled, rawSent, raw>>

\* The reading side closes, with what it has not read.
CloseReader ==
  /\ reader # "ended" /\ reader' = "ended" /\ held' = None
  /\ stream' = <<>> /\ end' = "cut"
  /\ UNCHANGED <<use, lock, writing, closed, order, handled, rawSent, raw>>

Next ==
  \/ \E w \in Writers : \/ \E kind \in Kinds \cup {"work"} : Write(w, kind)
                        \/ WriteUnit(w) \/ WriteFails(w)
  \/ WriteRaw \/ Mark \/ Close \/ Break
  \/ ReadHeader \/ ReadPayload \/ Dispatch \/ ReadRaw \/ ReadFails \/ CloseReader

Spec == Init /\ [][Next]_vars

-------------------------------------------------------------------------------
\* The loop has acted on the first r messages, which are numbered in the order of
\* the lock (Write): on each it knows, once, and in that order.
Acted(r) ==
  /\ {handled[i] : i \in DOMAIN handled} = {order[k] : k \in {j \in 1 .. r : Known(order[j])}}
  /\ \A i, j \in DOMAIN handled : i < j => handled[i].n < handled[j].n

\* A message is read as one of its writers wrote it, in the order of the lock,
\* whoever writes at the same time and wherever the stream ends (codec.go: Write,
\* ReadMessage).
FramesAreWhole ==
  /\ held # None => held.whole
  /\ \E r \in 0 .. Len(order) : Acted(r)

\* While the connection holds, the loop goes on, past what it does not know, and
\* acts on every other message (client_conn.go: readLoop).
NothingIsLost ==
  /\ reader = "ended" => end # "open"
  /\ end = "open" /\ lock = None /\ stream = <<>> /\ reader = "header" => Acted(Len(order))

\* The bytes of a session begin where the frame ends: reading the frame takes
\* none of them (codec.go: ReadMessage, Underlying).
RawFollowsFrame ==
  /\ raw = [i \in 1 .. Len(raw) |-> i]
  /\ end = "open" /\ reader = "raw" => Len(raw) + Len(stream) = rawSent
===============================================================================
