----------------------------- MODULE LinkProbing ------------------------------
(***************************************************************************)
(* The prober of one link (desktop/internal/probe/probe.go, loss.go): one  *)
(* goroutine sends a probe per interval, another reads the answers, and    *)
(* both change the entries of the loss tracker, which has no lock.  Each   *)
(* loads the slice and stores it again; what the other did in between may  *)
(* be undone.  Time is counted in intervals.  Sequence numbers are told    *)
(* apart: they come round after 65536 intervals, when no answer of an      *)
(* earlier round is on its way.                                            *)
(***************************************************************************)
EXTENDS Naturals, Sequences, FiniteSets

CONSTANTS
  MaxProbes,  \* bound of the probes sent
  Window,     \* lossTrack.window in intervals
  None

\* What the constants must satisfy; the MC module assumes it.
WindowAssumption == Window \in Nat \ {0} /\ MaxProbes \in Nat

VARIABLES
  running,    \* p.ctx is not done
  probes,     \* p.seqNum, and the time
  entries,    \* l.entries
  appending,  \* the slice RecordSent has loaded, or None
  pruned,     \* the slice pruneOld is about to store, or None
  wire,       \* answers on their way; an answer may come twice
  read,       \* history: probes whose answer was read
  metrics,    \* LossRate of p.metrics, a fraction, or None before an answer
  raced,      \* history: the two goroutines have met in the tracker
  late        \* history: an answer came after its entry was pruned

vars == <<running, probes, entries, appending, pruned, wire, read, metrics, raced, late>>

Entries == [seq : 1..MaxProbes, received : BOOLEAN]
NoneAssumption == None \notin Seq(Entries)
Lost(q) == Cardinality({k \in DOMAIN q : ~q[k].received})

TypeOK ==
  /\ running \in BOOLEAN /\ probes \in 0..MaxProbes
  /\ \A q \in {entries, appending, pruned} \ {None} :
       \A k \in DOMAIN q : q[k] \in Entries
  /\ wire \subseteq 1..MaxProbes /\ read \subseteq 1..probes
  /\ metrics = None \/ metrics \in [lost : 0..MaxProbes, of : 0..MaxProbes]
  /\ raced \in BOOLEAN /\ late \in BOOLEAN

Init ==
  /\ running = TRUE /\ probes = 0 /\ entries = <<>> /\ appending = None
  /\ pruned = None /\ wire = {} /\ read = {} /\ metrics = None
  /\ raced = FALSE /\ late = FALSE

-------------------------------------------------------------------------------
\* sendProbe: RecordSent comes before the write, which may fail.
Load ==
  /\ running /\ appending = None /\ probes < MaxProbes
  /\ probes' = probes + 1
  /\ appending' = entries
  /\ UNCHANGED <<running, entries, pruned, wire, read, metrics, raced, late>>

\* A slice with room keeps the marks made since, a copied one may not.
MarkedSince(q) ==
  [k \in DOMAIN q |->
     IF \E j \in DOMAIN entries : entries[j].seq = q[k].seq /\ entries[j].received
     THEN [q[k] EXCEPT !.received = TRUE] ELSE q[k]]

Store ==
  /\ appending # None
  /\ \E q \in {appending, MarkedSince(appending)} :
       entries' = Append(q, [seq |-> probes, received |-> FALSE])
  /\ appending' = None
  /\ raced' = (raced \/ entries # appending \/ pruned # None)
  /\ wire' \in {wire, wire \cup {probes}}
  /\ UNCHANGED <<running, probes, pruned, read, metrics, late>>

\* RecordReceived marks the newest entry with the number of the answer.
Marked(n) ==
  [k \in DOMAIN entries |->
     IF entries[k].seq = n THEN [entries[k] EXCEPT !.received = TRUE] ELSE entries[k]]
\* What pruneOld leaves: it cuts the old entries off the front.
Old(e) == e.seq + Window < probes
Cuts(q) == {i \in 0..Len(q) : /\ \A k \in 1..i : Old(q[k])
                              /\ i < Len(q) => ~Old(q[i + 1])}
Recent(q) == {SubSeq(q, i + 1, Len(q)) : i \in Cuts(q)}

\* An answer is read; pruneOld loads the slice.
Read(n) ==
  /\ running /\ pruned = None /\ n \in wire
  /\ wire' \in {wire, wire \ {n}}
  /\ read' = read \cup {n}
  /\ entries' = Marked(n)
  /\ pruned' \in Recent(Marked(n))
  /\ late' = (late \/ \A k \in DOMAIN pruned' : pruned'[k].seq # n)
  /\ UNCHANGED <<running, probes, appending, metrics, raced>>

\* It is stored if anything was old; updateMetrics stores the loss.
Update ==
  /\ pruned # None
  /\ entries' = IF Len(pruned) < Len(entries) THEN pruned ELSE entries
  /\ metrics' = [lost |-> Lost(pruned), of |-> Len(pruned)]
  /\ pruned' = None
  /\ raced' = (raced \/ appending # None)
  /\ UNCHANGED <<running, probes, appending, wire, read, late>>

Stop ==
  /\ running /\ running' = FALSE
  /\ UNCHANGED <<probes, entries, appending, pruned, wire, read, metrics, raced, late>>

Next == Load \/ Store \/ Update \/ Stop \/ \E n \in 1..MaxProbes : Read(n)

Spec == Init /\ [][Next]_vars

-------------------------------------------------------------------------------
\* As long as the two goroutines do not meet, every probe of the window is there
\* once, and it is marked if its answer was read (loss.go: RecordSent,
\* RecordReceived, pruneOld).
MarksAreRight ==
  ~raced /\ appending = None /\ pruned = None =>
    /\ \A k \in DOMAIN entries : entries[k].received <=> entries[k].seq \in read
    /\ \A j, k \in DOMAIN entries : j < k => entries[j].seq < entries[k].seq
    /\ \A n \in (IF probes > Window THEN probes - Window ELSE 1)..probes :
         \E k \in DOMAIN entries : entries[k].seq = n

\* Complete loss, 1.0 in the comment of LossRate, is never shown: the metrics are
\* computed when an answer is read, and that answer counts.
LossIsPartial == metrics # None /\ ~raced /\ ~late => metrics.lost < metrics.of

\* Violated: when a whole window went unanswered the metrics say so.
DeadLinkIsSeen ==
  metrics # None /\ ~raced /\ probes > Window + 1
    /\ (\A n \in (probes - Window)..probes : n \notin read) => metrics.lost = metrics.of
===============================================================================
