------------------------ MODULE SessionTrackingProofs ------------------------
(***************************************************************************)
(* Proofs about SessionTracking, for any bounds and heartbeat interval:    *)
(* what the collector makes of the two logs of a session, in whatever      *)
(* order it reads them.                                                    *)
(*                                                                         *)
(* The counters are compared by the lines they stand for: the engine's     *)
(* with all lines of a log, the collector's with those it has read.  Both  *)
(* grow at the end of a sequence, one line at a time, so that one lemma    *)
(* about Append and one about the next line carry the proof.               *)
(***************************************************************************)
EXTENDS SessionTrackingInv, SequenceTheorems, FiniteSetTheorems, TLAPS

-----------------------------------------------------------------------------
(* Sequence numbers along a log. *)

\* The fields of a message the engine writes.
LEMMA MessageType ==
  ASSUME NEW ev \in MessageLines
  PROVE  /\ ev.class = "message" /\ ev.seq \in Nat \ {0} /\ ev.ts \in Nat \ {0}
         /\ ev.type \in {"A", "5", "8", "2"} /\ ev.direction \in {"in", "out"}
         /\ ev.dup \in BOOLEAN
         /\ Incoming(ev) <=> ev.direction = "in"
         /\ Sequenced(ev) <=> ev.direction = "in" /\ ~ev.dup
BY DEF MessageLines, Incoming, Sequenced

\* Only one number is expected.
LEMMA ExpectsOne ==
  ASSUME NEW s \in Seq(MessageLines), NEW i \in 0 .. Len(s), NEW a, NEW b,
         Expects(s, i, a), Expects(s, i, b)
  PROVE  a = b
<1>1. CASE \A j \in 1 .. i : ~Sequenced(s[j])
  BY <1>1 DEF Expects, LastOf
<1>2. CASE \E j \in 1 .. i : Sequenced(s[j])
  <2>1. PICK j \in 1 .. i : LastOf(s, i, j) /\ a = s[j].seq + 1
    BY <1>2 DEF Expects
  <2>2. PICK k \in 1 .. i : LastOf(s, i, k) /\ b = s[k].seq + 1
    BY <1>2 DEF Expects
  <2>3. ~(j < k) /\ ~(k < j)
    BY <2>1, <2>2 DEF LastOf
  <2>4. QED
    BY <2>1, <2>2, <2>3
<1>3. QED
  BY <1>1, <1>2

\* It is a number, and 0 means that there was none to go by.
LEMMA ExpectsType ==
  ASSUME NEW s \in Seq(MessageLines), NEW i \in 0 .. Len(s), NEW n, Expects(s, i, n)
  PROVE  n \in Nat /\ (n = 0 <=> \A j \in 1 .. i : ~Sequenced(s[j]))
<1>1. CASE n = 0 /\ \A j \in 1 .. i : ~Sequenced(s[j])
  BY <1>1
<1>2. CASE \E j \in 1 .. i : LastOf(s, i, j) /\ n = s[j].seq + 1
  <2>1. PICK j \in 1 .. i : LastOf(s, i, j) /\ n = s[j].seq + 1
    BY <1>2
  <2>2. s[j] \in MessageLines
    BY ElementOfSeq
  <2>3. s[j].seq \in Nat
    BY <2>2, MessageType
  <2>4. QED
    BY <2>1, <2>3 DEF LastOf
<1>3. QED
  BY <1>1, <1>2 DEF Expects

\* The next message sets what is expected after it, if it has a number to go by.
LEMMA ExpectsNext ==
  ASSUME NEW s \in Seq(MessageLines), NEW i \in 0 .. Len(s) - 1, NEW n, Expects(s, i, n)
  PROVE  Expects(s, i + 1, IF Sequenced(s[i + 1]) THEN s[i + 1].seq + 1 ELSE n)
<1>1. CASE Sequenced(s[i + 1])
  <2>1. LastOf(s, i + 1, i + 1)
    BY <1>1 DEF LastOf
  <2>2. i + 1 \in 1 .. i + 1
    OBVIOUS
  <2>3. QED
    BY <1>1, <2>1, <2>2 DEF Expects
<1>2. CASE ~Sequenced(s[i + 1])
  <2>1. CASE n = 0 /\ \A j \in 1 .. i : ~Sequenced(s[j])
    BY <1>2, <2>1 DEF Expects
  <2>2. CASE \E j \in 1 .. i : LastOf(s, i, j) /\ n = s[j].seq + 1
    <3>1. PICK j \in 1 .. i : LastOf(s, i, j) /\ n = s[j].seq + 1
      BY <2>2
    <3>2. LastOf(s, i + 1, j) /\ j \in 1 .. i + 1
      BY <1>2, <3>1 DEF LastOf
    <3>3. QED
      BY <1>2, <3>1, <3>2 DEF Expects
  <2>3. QED
    BY <2>1, <2>2 DEF Expects
<1>3. QED
  BY <1>1, <1>2

\* There is a gap where the next message is past the number expected.
LEMMA GapIff ==
  ASSUME NEW s \in Seq(MessageLines), NEW i \in 0 .. Len(s) - 1, NEW n, Expects(s, i, n)
  PROVE  GapAt(s, i + 1) <=> Sequenced(s[i + 1]) /\ n # 0 /\ s[i + 1].seq > n
<1>1. i + 1 - 1 = i /\ i \in 0 .. Len(s)
  OBVIOUS
<1>2. ASSUME GapAt(s, i + 1)
      PROVE  Sequenced(s[i + 1]) /\ n # 0 /\ s[i + 1].seq > n
  <2>1. PICK j \in 1 .. i : LastOf(s, i, j) /\ s[i + 1].seq > s[j].seq + 1
    BY <1>1, <1>2 DEF GapAt
  <2>2. Expects(s, i, s[j].seq + 1)
    BY <2>1 DEF Expects
  <2>3. n = s[j].seq + 1
    BY <1>1, <2>2, ExpectsOne
  <2>4. n # 0
    BY <1>1, <2>1, ExpectsType DEF LastOf
  <2>5. QED
    BY <1>2, <2>1, <2>3, <2>4 DEF GapAt
<1>3. ASSUME Sequenced(s[i + 1]), n # 0, s[i + 1].seq > n
      PROVE  GapAt(s, i + 1)
  <2>1. PICK j \in 1 .. i : LastOf(s, i, j) /\ n = s[j].seq + 1
    BY <1>3 DEF Expects
  <2>2. QED
    BY <1>1, <1>3, <2>1 DEF GapAt
<1>4. QED
  BY <1>2, <1>3

\* Counting on: one more number, if it is in the set.
LEMMA OneMore ==
  ASSUME NEW n \in Nat, NEW P, NEW Q, P \subseteq 1 .. n,
         Q = P \/ Q = P \cup {n + 1}
  PROVE  /\ Cardinality(P) \in Nat
         /\ Cardinality(Q) = Cardinality(P) + IF n + 1 \in Q THEN 1 ELSE 0
<1>1. IsFiniteSet(P)
  <2>1. IsFiniteSet(1 .. n)
    BY FS_Interval
  <2>2. QED
    BY <2>1, FS_Subset
<1>2. n + 1 \notin P
  OBVIOUS
<1>3. Cardinality(P) \in Nat
  BY <1>1, FS_CardinalityType
<1>4. CASE Q = P
  BY <1>2, <1>3, <1>4
<1>5. CASE Q = P \cup {n + 1}
  <2>1. Cardinality(Q) = Cardinality(P) + 1
    BY <1>1, <1>2, <1>5, FS_AddElement
  <2>2. n + 1 \in Q
    BY <1>5
  <2>3. QED
    BY <1>3, <2>1, <2>2
<1>6. QED
  BY <1>3, <1>4, <1>5

\* The gaps up to the next message.
LEMMA GapLinesNext ==
  ASSUME NEW s, NEW i \in Nat
  PROVE  /\ Cardinality(GapLines(s, i)) \in Nat
         /\ Cardinality(GapLines(s, i + 1)) =
              Cardinality(GapLines(s, i)) + IF GapAt(s, i + 1) THEN 1 ELSE 0
<1>1. GapLines(s, i) \subseteq 1 .. i
  BY DEF GapLines
<1>2. /\ GapLines(s, i + 1) = GapLines(s, i) \/ GapLines(s, i + 1) = GapLines(s, i) \cup {i + 1}
      /\ i + 1 \in GapLines(s, i + 1) <=> GapAt(s, i + 1)
  BY DEF GapLines
<1>3. QED
  BY <1>1, <1>2, OneMore

\* The lines of one type up to the next line.
LEMMA ToldNext ==
  ASSUME NEW s, NEW type, NEW i \in Nat
  PROVE  /\ Cardinality(Told(s, type, i)) \in Nat
         /\ Cardinality(Told(s, type, i + 1)) =
              Cardinality(Told(s, type, i)) + IF s[i + 1].type = type THEN 1 ELSE 0
<1>1. Told(s, type, i) \subseteq 1 .. i
  BY DEF Told
<1>2. /\ Told(s, type, i + 1) = Told(s, type, i) \/ Told(s, type, i + 1) = Told(s, type, i) \cup {i + 1}
      /\ i + 1 \in Told(s, type, i + 1) <=> s[i + 1].type = type
  BY DEF Told
<1>3. QED
  BY <1>1, <1>2, OneMore

\* What is said of the first lines does not change when the log grows.
LEMMA PrefixKept ==
  ASSUME NEW s, NEW t, NEW i \in Nat, \A j \in 1 .. i : t[j] = s[j]
  PROVE  /\ \A n : Expects(s, i, n) => Expects(t, i, n)
         /\ GapLines(t, i) = GapLines(s, i)
         /\ \A type : Told(t, type, i) = Told(s, type, i)
<1>1. ASSUME NEW n, Expects(s, i, n)
      PROVE  Expects(t, i, n)
  BY <1>1 DEF Expects, LastOf
<1>2. ASSUME NEW j \in 1 .. i
      PROVE  GapAt(t, j) <=> GapAt(s, j)
  BY DEF GapAt, LastOf
<1>3. GapLines(t, i) = GapLines(s, i)
  BY <1>2 DEF GapLines
<1>4. \A type : Told(t, type, i) = Told(s, type, i)
  BY DEF Told
<1>5. QED
  BY <1>1, <1>3, <1>4

\* A message is appended to the log.
LEMMA MessageAppended ==
  ASSUME NEW s \in Seq(MessageLines), NEW x \in MessageLines, NEW n,
         Expects(s, Len(s), n), TwoMissing(s),
         Sequenced(x) /\ n # 0 /\ x.seq > n => x.seq = n + 2
  PROVE  LET t == Append(s, x) IN
         /\ t \in Seq(MessageLines) /\ Len(t) = Len(s) + 1 /\ t[Len(s) + 1] = x
         /\ \A i \in 1 .. Len(s) : t[i] = s[i]
         /\ Expects(t, Len(t), IF Sequenced(x) THEN x.seq + 1 ELSE n)
         /\ TwoMissing(t)
         /\ Cardinality(GapLines(t, Len(t))) =
              Cardinality(GapLines(s, Len(s)))
                + IF Sequenced(x) /\ n # 0 /\ x.seq > n THEN 1 ELSE 0
<1> DEFINE t == Append(s, x)  l == Len(s)
<1>1. t \in Seq(MessageLines) /\ Len(t) = l + 1 /\ t[l + 1] = x /\ \A i \in 1 .. l : t[i] = s[i]
  BY AppendProperties
<1>2. l \in Nat
  BY LenProperties
<1> HIDE DEF t, l
<1>3. Expects(t, l, n) /\ GapLines(t, l) = GapLines(s, l)
  BY <1>1, <1>2, PrefixKept DEF l
<1>4. l \in 0 .. Len(t) - 1 /\ l \in 0 .. Len(t)
  BY <1>1, <1>2
<1>5. Expects(t, l + 1, IF Sequenced(x) THEN x.seq + 1 ELSE n)
  BY <1>1, <1>3, <1>4, ExpectsNext
<1>6. GapAt(t, l + 1) <=> Sequenced(x) /\ n # 0 /\ x.seq > n
  BY <1>1, <1>3, <1>4, GapIff
<1>7. Cardinality(GapLines(t, l + 1)) =
        Cardinality(GapLines(s, l)) + IF Sequenced(x) /\ n # 0 /\ x.seq > n THEN 1 ELSE 0
  BY <1>2, <1>3, <1>6, GapLinesNext
<1>8. TwoMissing(t)
  <2> SUFFICES ASSUME NEW i \in 1 .. l + 1, NEW j \in 1 .. i - 1,
                      Sequenced(t[i]), LastOf(t, i - 1, j), t[i].seq > t[j].seq + 1
               PROVE  t[i].seq = t[j].seq + 3
    BY <1>1 DEF TwoMissing
  <2>1. CASE i = l + 1
    <3>1. Expects(t, l, t[j].seq + 1) /\ j \in 1 .. l
      BY <1>2, <2>1 DEF Expects
    <3>2. n = t[j].seq + 1
      BY <1>1, <1>3, <1>4, <3>1, ExpectsOne
    <3>3. n \in Nat /\ n # 0
      BY <1>1, <1>3, <1>4, <2>1, <3>1, ExpectsType DEF LastOf
    <3>4. x.seq = n + 2
      BY <1>1, <2>1, <3>2, <3>3
    <3>5. t[j].seq \in Nat
      BY <1>1, <1>2, <3>1, ElementOfSeq, MessageType
    <3>6. QED
      BY <1>1, <2>1, <3>2, <3>4, <3>5
  <2>2. CASE i # l + 1
    <3>1. i \in 1 .. l /\ t[i] = s[i] /\ t[j] = s[j] /\ \A k \in 1 .. i : t[k] = s[k]
      BY <1>1, <1>2, <2>2
    <3>2. LastOf(s, i - 1, j)
      BY <1>2, <3>1 DEF LastOf
    <3>3. QED
      BY <3>1, <3>2 DEF TwoMissing, l
  <2>3. QED
    BY <2>1, <2>2
<1>9. QED
  BY <1>1, <1>5, <1>7, <1>8 DEF t, l

\* A line is appended to the log of events.
LEMMA EventAppended ==
  ASSUME NEW s \in Seq(EventLines), NEW x \in EventLines
  PROVE  LET t == Append(s, x) IN
         /\ t \in Seq(EventLines) /\ Len(t) = Len(s) + 1 /\ t[Len(s) + 1] = x
         /\ \A i \in 1 .. Len(s) : t[i] = s[i]
         /\ \A type : Cardinality(Told(t, type, Len(t))) =
              Cardinality(Told(s, type, Len(s))) + IF x.type = type THEN 1 ELSE 0
<1> DEFINE t == Append(s, x)  l == Len(s)
<1>1. t \in Seq(EventLines) /\ Len(t) = l + 1 /\ t[l + 1] = x /\ \A i \in 1 .. l : t[i] = s[i]
  BY AppendProperties
<1>2. l \in Nat
  BY LenProperties
<1> HIDE DEF t, l
<1>3. ASSUME NEW type
      PROVE  Cardinality(Told(t, type, l + 1)) =
               Cardinality(Told(s, type, l)) + IF x.type = type THEN 1 ELSE 0
  <2>1. Told(t, type, l) = Told(s, type, l)
    BY <1>1, <1>2, PrefixKept
  <2>2. QED
    <3>1. Cardinality(Told(t, type, l + 1)) =
            Cardinality(Told(t, type, l)) + IF t[l + 1].type = type THEN 1 ELSE 0
      BY <1>2, ToldNext
    <3>2. QED
      BY <1>1, <2>1, <3>1
<1>4. QED
  BY <1>1, <1>3 DEF t, l

-----------------------------------------------------------------------------
(* What the pipeline makes of the next line. *)

\* The fields of an event the engine writes; it takes no part in gap detection.
LEMMA EventType ==
  ASSUME NEW ev \in EventLines
  PROVE  /\ ev.class = "event" /\ ev.ts \in Nat \ {0} /\ ev.expected \in Nat /\ ev.received \in Nat
         /\ ev.type \in {"Connecting", "ReconnectAttempt", "LogonSent", "LogonReceived",
                         "LogonRejected", "Disconnected", "SeqNumTooHigh", "ResendRequested"}
         /\ ~Incoming(ev) /\ ~Outgoing(ev) /\ ~Sequenced(ev) /\ ~Derived(snapshot, ev)
BY DEF EventLines, Incoming, Outgoing, Sequenced, Derived

\* The fields of a session's record.
LEMMA SnapshotType ==
  ASSUME NEW s \in Snapshots
  PROVE  /\ s.state \in LinkStates /\ s.next_expected_in \in Nat
         /\ s.last_incoming_ts \in Nat /\ s.last_event_ts \in Nat
         /\ s.count \in [Counters -> Nat]
         /\ \A c \in {"seq_gaps", "seq_gaps_reported", "disconnects", "logon_rejects"} :
              s.count[c] \in Nat
BY DEF Snapshots, Counters

\* Any event leaves a record of its type.
LEMMA ApplyType ==
  ASSUME NEW s \in Snapshots, NEW ev, StateAfter(s, ev) \in LinkStates, ev.ts \in Nat,
         Sequenced(ev) => ev.seq \in Nat, Outgoing(ev) => ev.seq \in Nat
  PROVE  /\ Apply(s, ev) \in Snapshots
         /\ Apply(s, ev).state = StateAfter(s, ev)
         /\ Apply(s, ev).heartbeat_interval = s.heartbeat_interval
         /\ Apply(s, ev).last_incoming_ts = IF Incoming(ev) THEN ev.ts ELSE s.last_incoming_ts
         /\ Apply(s, ev).next_expected_in = IF Sequenced(ev) THEN ev.seq + 1 ELSE s.next_expected_in
         /\ \A c \in Counters :
              Apply(s, ev).count[c] = s.count[c] + IF c \in Counted(s, ev) THEN 1 ELSE 0
<1> DEFINE t == Apply(s, ev)
<1>1. /\ t.state = StateAfter(s, ev)
      /\ t.heartbeat_interval = s.heartbeat_interval
      /\ t.last_incoming_ts = IF Incoming(ev) THEN ev.ts ELSE s.last_incoming_ts
      /\ t.next_expected_in = IF Sequenced(ev) THEN ev.seq + 1 ELSE s.next_expected_in
  BY DEF Apply, Snapshots
<1>2. t.count = [c \in Counters |-> s.count[c] + IF c \in Counted(s, ev) THEN 1 ELSE 0]
  BY DEF Apply, Snapshots
<1>3. t.count \in [Counters -> Nat]
  BY <1>2 DEF Snapshots
<1>4. /\ t.last_event_ts = IF ev.ts > s.last_event_ts THEN ev.ts ELSE s.last_event_ts
      /\ t.logon_ts = IF LoggedOnBy(ev) THEN ev.ts ELSE s.logon_ts
      /\ t.last_outgoing_seq =
           IF Outgoing(ev) /\ ev.seq > s.last_outgoing_seq THEN ev.seq ELSE s.last_outgoing_seq
  BY DEF Apply, Snapshots
<1>5. /\ t.state \in LinkStates /\ t.heartbeat_interval \in Nat
      /\ t.next_expected_in \in Nat /\ t.last_outgoing_seq \in Nat
      /\ t.last_event_ts \in Nat /\ t.last_incoming_ts \in Nat /\ t.logon_ts \in Nat
  BY <1>1, <1>4 DEF Snapshots
<1>6. t \in Snapshots
  <2>1. t = [s EXCEPT !.state = t.state, !.last_event_ts = t.last_event_ts,
                      !.last_incoming_ts = t.last_incoming_ts, !.logon_ts = t.logon_ts,
                      !.next_expected_in = t.next_expected_in,
                      !.last_outgoing_seq = t.last_outgoing_seq, !.count = t.count]
    BY <1>1, <1>2, <1>4, Zenon DEF Apply
  <2> HIDE DEF t
  <2>2. QED
    BY <1>3, <1>5, <2>1 DEF Snapshots
<1>7. QED
  BY <1>1, <1>2, <1>6 DEF t

\* What a message does to the record.
LEMMA ApplyMessage ==
  ASSUME NEW s \in Snapshots, NEW ev \in MessageLines
  PROVE  /\ Apply(s, ev) \in Snapshots
         /\ Apply(s, ev).heartbeat_interval = s.heartbeat_interval
         /\ Apply(s, ev).last_incoming_ts = IF Incoming(ev) THEN ev.ts ELSE s.last_incoming_ts
         /\ Apply(s, ev).next_expected_in = IF Sequenced(ev) THEN ev.seq + 1 ELSE s.next_expected_in
         /\ Apply(s, ev).count["seq_gaps"] = s.count["seq_gaps"] + IF Derived(s, ev) THEN 1 ELSE 0
         /\ \A c \in {"seq_gaps_reported", "disconnects", "logon_rejects"} :
              Apply(s, ev).count[c] = s.count[c]
         /\ GapSize(s, ev) = IF Derived(s, ev) THEN ev.seq - s.next_expected_in ELSE 0
         /\ ev.type = "5" => Apply(s, ev).state = "disconnected"
         /\ ev.type = "A" /\ ev.direction = "in" => Apply(s, ev).state = "logged_on"
         /\ ev.type = "A" /\ ev.direction = "out" /\ s.state # "logged_on" =>
              Apply(s, ev).state = "logon_pending"
         /\ ev.type \in {"8", "2"} => Apply(s, ev).state = s.state
<1>1. StateAfter(s, ev) \in LinkStates
  BY MessageType, SnapshotType DEF StateAfter, LinkStates
<1>2. ev.ts \in Nat /\ ev.seq \in Nat
  BY MessageType
<1>3. /\ Apply(s, ev) \in Snapshots
      /\ Apply(s, ev).state = StateAfter(s, ev)
      /\ Apply(s, ev).heartbeat_interval = s.heartbeat_interval
      /\ Apply(s, ev).last_incoming_ts = IF Incoming(ev) THEN ev.ts ELSE s.last_incoming_ts
      /\ Apply(s, ev).next_expected_in = IF Sequenced(ev) THEN ev.seq + 1 ELSE s.next_expected_in
      /\ \A c \in Counters :
           Apply(s, ev).count[c] = s.count[c] + IF c \in Counted(s, ev) THEN 1 ELSE 0
  BY <1>1, <1>2, ApplyType
<1>4. /\ "seq_gaps" \in Counted(s, ev) <=> Derived(s, ev)
      /\ "seq_gaps_reported" \notin Counted(s, ev)
      /\ "disconnects" \notin Counted(s, ev)
      /\ "logon_rejects" \notin Counted(s, ev)
  BY MessageType DEF Counted, Counters
<1>5. \A c \in {"seq_gaps_reported", "disconnects", "logon_rejects"} :
        Apply(s, ev).count[c] = s.count[c]
  BY <1>3, <1>4, SnapshotType DEF Counters
<1>6. Apply(s, ev).count["seq_gaps"] = s.count["seq_gaps"] + IF Derived(s, ev) THEN 1 ELSE 0
  BY <1>3, <1>4 DEF Counters
<1>7. GapSize(s, ev) = IF Derived(s, ev) THEN ev.seq - s.next_expected_in ELSE 0
  BY MessageType DEF GapSize
<1>8. /\ ev.type = "5" => StateAfter(s, ev) = "disconnected"
      /\ ev.type = "A" /\ ev.direction = "in" => StateAfter(s, ev) = "logged_on"
      /\ ev.type = "A" /\ ev.direction = "out" /\ s.state # "logged_on" =>
           StateAfter(s, ev) = "logon_pending"
      /\ ev.type \in {"8", "2"} => StateAfter(s, ev) = s.state
  BY MessageType DEF StateAfter
<1>9. QED
  BY <1>3, <1>5, <1>6, <1>7, <1>8

\* What the table of link states says of the lines the engine writes.
LEMMA StateOfLine ==
  ASSUME NEW s, NEW ev \in EventLines
  PROVE  /\ ev.type \in {"Connecting", "ReconnectAttempt"} => StateAfter(s, ev) = "connecting"
         /\ ev.type = "LogonSent" => StateAfter(s, ev) = "logon_pending"
         /\ ev.type = "LogonReceived" => StateAfter(s, ev) = "logged_on"
         /\ ev.type \in {"LogonRejected", "Disconnected"} => StateAfter(s, ev) = "disconnected"
         /\ ev.type \in {"SeqNumTooHigh", "ResendRequested"} => StateAfter(s, ev) = s.state
<1>1. ev.class = "event"
  BY EventType
<1>2. CASE ev.type \in {"SeqNumTooHigh", "ResendRequested"}
  BY <1>1, <1>2 DEF StateAfter, StateOfEvent
<1>3. CASE ev.type \in {"Connecting", "ReconnectAttempt", "LogonSent"}
  BY <1>1, <1>3 DEF StateAfter, StateOfEvent
<1>4. CASE ev.type \in {"LogonReceived", "LogonRejected", "Disconnected"}
  BY <1>1, <1>4 DEF StateAfter, StateOfEvent
<1>5. QED
  BY <1>2, <1>3, <1>4, EventType

\* What the table of counters says of the lines the engine writes.
LEMMA CountedOfLine ==
  ASSUME NEW s, NEW ev \in EventLines
  PROVE  /\ "seq_gaps" \notin Counted(s, ev)
         /\ "seq_gaps_reported" \in Counted(s, ev) <=> ev.type = "SeqNumTooHigh"
         /\ "disconnects" \in Counted(s, ev) <=> ev.type = "Disconnected"
         /\ "logon_rejects" \in Counted(s, ev) <=> ev.type = "LogonRejected"
<1>1. ev.class = "event"
  BY EventType
<1>2. CASE ev.type \in {"Connecting", "LogonSent", "LogonReceived"}
  BY <1>1, <1>2 DEF Counted, CounterOfEvent
<1>3. CASE ev.type = "SeqNumTooHigh"
  BY <1>1, <1>3 DEF Counted, CounterOfEvent
<1>4. CASE ev.type = "Disconnected"
  BY <1>1, <1>4 DEF Counted, CounterOfEvent
<1>5. CASE ev.type = "LogonRejected"
  BY <1>1, <1>5 DEF Counted, CounterOfEvent
<1>6. CASE ev.type \in {"ReconnectAttempt", "ResendRequested"}
  BY <1>1, <1>6 DEF Counted, CounterOfEvent
<1>7. QED
  BY <1>2, <1>3, <1>4, <1>5, <1>6, EventType

\* What an event of the engine does to the record.
LEMMA ApplyEvent ==
  ASSUME NEW s \in Snapshots, NEW ev \in EventLines
  PROVE  /\ Apply(s, ev) \in Snapshots
         /\ Apply(s, ev).state = StateAfter(s, ev)
         /\ Apply(s, ev).heartbeat_interval = s.heartbeat_interval
         /\ Apply(s, ev).last_incoming_ts = s.last_incoming_ts
         /\ Apply(s, ev).next_expected_in = s.next_expected_in
         /\ Apply(s, ev).count["seq_gaps"] = s.count["seq_gaps"]
         /\ Apply(s, ev).count["seq_gaps_reported"] =
              s.count["seq_gaps_reported"] + IF ev.type = "SeqNumTooHigh" THEN 1 ELSE 0
         /\ Apply(s, ev).count["disconnects"] =
              s.count["disconnects"] + IF ev.type = "Disconnected" THEN 1 ELSE 0
         /\ Apply(s, ev).count["logon_rejects"] =
              s.count["logon_rejects"] + IF ev.type = "LogonRejected" THEN 1 ELSE 0
         /\ GapSize(s, ev) =
              IF ev.type = "SeqNumTooHigh" /\ ev.expected # 0 /\ ev.received > ev.expected
              THEN ev.received - ev.expected ELSE 0
<1>1. StateAfter(s, ev) \in LinkStates
  BY StateOfLine, SnapshotType, EventType DEF LinkStates
<1>2. ev.ts \in Nat /\ ~Sequenced(ev) /\ ~Outgoing(ev) /\ ~Incoming(ev)
  BY EventType
<1>3. /\ Apply(s, ev) \in Snapshots
      /\ Apply(s, ev).state = StateAfter(s, ev)
      /\ Apply(s, ev).heartbeat_interval = s.heartbeat_interval
      /\ Apply(s, ev).last_incoming_ts = s.last_incoming_ts
      /\ Apply(s, ev).next_expected_in = s.next_expected_in
      /\ \A c \in Counters :
           Apply(s, ev).count[c] = s.count[c] + IF c \in Counted(s, ev) THEN 1 ELSE 0
  BY <1>1, <1>2, ApplyType
<1>4. /\ Apply(s, ev).count["seq_gaps_reported"] =
           s.count["seq_gaps_reported"] + IF ev.type = "SeqNumTooHigh" THEN 1 ELSE 0
      /\ Apply(s, ev).count["disconnects"] =
           s.count["disconnects"] + IF ev.type = "Disconnected" THEN 1 ELSE 0
      /\ Apply(s, ev).count["logon_rejects"] =
           s.count["logon_rejects"] + IF ev.type = "LogonRejected" THEN 1 ELSE 0
  BY <1>3, CountedOfLine DEF Counters
<1>5. Apply(s, ev).count["seq_gaps"] = s.count["seq_gaps"]
  BY <1>3, CountedOfLine, SnapshotType DEF Counters
<1>6. GapSize(s, ev) =
        IF ev.type = "SeqNumTooHigh" /\ ev.expected # 0 /\ ev.received > ev.expected
        THEN ev.received - ev.expected ELSE 0
  BY EventType DEF GapSize
<1>7. QED
  BY <1>3, <1>4, <1>5, <1>6

\* The staleness check touches the link state alone.
LEMMA EvaluatedOutcome ==
  ASSUME NEW s \in Snapshots, NEW t, t = Evaluated(s, now)
  PROVE  /\ t \in Snapshots
         /\ s.state \in {"logged_on", "stale"} => t.state \in {"logged_on", "stale"}
         /\ s.state \notin {"logged_on", "stale"} => t = s
         /\ t.heartbeat_interval = s.heartbeat_interval
         /\ t.last_incoming_ts = s.last_incoming_ts
         /\ t.next_expected_in = s.next_expected_in /\ t.count = s.count
<1>1. t = s \/ t = [s EXCEPT !.state = "stale"] \/ t = [s EXCEPT !.state = "logged_on"]
  BY DEF Evaluated
<1>2. s.state \notin {"logged_on", "stale"} => t = s
  BY DEF Evaluated
<1>3. t \in Snapshots
  BY <1>1 DEF Snapshots, LinkStates
<1>4. /\ t.heartbeat_interval = s.heartbeat_interval
      /\ t.last_incoming_ts = s.last_incoming_ts
      /\ t.next_expected_in = s.next_expected_in /\ t.count = s.count
  BY <1>1 DEF Snapshots
<1>5. s.state \in {"logged_on", "stale"} => t.state \in {"logged_on", "stale"}
  BY <1>1 DEF Snapshots
<1>6. QED
  BY <1>2, <1>3, <1>4, <1>5

-----------------------------------------------------------------------------
(* What a step of the engine adds to the logs. *)

\* The sequence number the lines of the message log lead to.
NextIn == IF IN_SEQ = 1 THEN 0 ELSE IN_SEQ

\* The types of the logs and of what was read of them.
LEMMA TypesOfLogs ==
  ASSUME TypeOK, LinesInv
  PROVE  /\ msgs \in Seq(MessageLines) /\ evts \in Seq(EventLines)
         /\ Len(msgs) \in Nat /\ Len(evts) \in Nat
         /\ read["message_log"] \in 0 .. Len(msgs) /\ read["event_log"] \in 0 .. Len(evts)
         /\ now \in Nat \ {0} /\ IN_SEQ \in Nat /\ OUT_SEQ \in Nat
<1>1. msgs \in Seq(MessageLines) /\ evts \in Seq(EventLines)
  BY DEF LinesInv
<1>2. Len(msgs) \in Nat /\ Len(evts) \in Nat
  BY <1>1, LenProperties
<1>3. read["message_log"] \in 0 .. Len(msgs) /\ read["event_log"] \in 0 .. Len(evts)
  BY <1>2 DEF TypeOK, Logs, msgs, evts
<1>4. now \in Nat \ {0} /\ IN_SEQ \in Nat /\ OUT_SEQ \in Nat
  BY TrackingAssumption DEF TypeOK
<1>5. QED
  BY <1>1, <1>2, <1>3, <1>4

\* Write appends to both logs and touches nothing of the collector.
LEMMA WriteOutcome ==
  ASSUME LinesInv, NEW ms, NEW es, Write(ms, es)
  PROVE  /\ msgs' = msgs \o ms /\ evts' = evts \o es
         /\ log' = [l \in Logs |-> log'[l]]
         /\ kept_up' = (kept_up /\ CaughtUp)
         /\ now' = now /\ read' = read /\ snapshot' = snapshot /\ missing' = missing
<1>1. log' = [log EXCEPT !["message_log"] = @ \o ms, !["event_log"] = @ \o es]
  BY DEF Write
<1>2. log' = [l \in Logs |-> IF l = "message_log" THEN msgs \o ms ELSE evts \o es]
  BY <1>1 DEF LinesInv, Logs, msgs, evts
<1>3. msgs' = msgs \o ms /\ evts' = evts \o es /\ log' = [l \in Logs |-> log'[l]]
  BY <1>2 DEF Logs, msgs, evts
<1>4. QED
  BY <1>3 DEF Write, collectorVars

\* One line or two lines at the end are appended one by one.
LEMMA OneOrTwo ==
  ASSUME NEW S, NEW s \in Seq(S)
  PROVE  /\ s \o << >> = s
         /\ \A x \in S : s \o <<x>> = Append(s, x)
         /\ \A x, y \in S : s \o <<x, y>> = Append(Append(s, x), y)
<1>1. s \o << >> = s
  BY ConcatEmptySeq
<1>2. \A x \in S : s \o <<x>> = Append(s, x)
  BY AppendIsConcat
<1>3. ASSUME NEW x \in S, NEW y \in S
      PROVE  s \o <<x, y>> = Append(Append(s, x), y)
  <2>1. Append(s, x) \in Seq(S) /\ Append(s, x) = s \o <<x>>
    BY AppendProperties, AppendIsConcat
  <2>2. Append(Append(s, x), y) = (s \o <<x>>) \o <<y>>
    BY <2>1, AppendIsConcat
  <2>3. <<x>> \in Seq(S) /\ <<y>> \in Seq(S)
    OBVIOUS
  <2>4. (s \o <<x>>) \o <<y>> = s \o (<<x>> \o <<y>>)
    BY <2>3, ConcatAssociative
  <2>5. <<x>> \o <<y>> = <<x, y>>
    <3> DEFINE p == <<x>> \o <<y>>  q == <<x, y>>
    <3>1. p \in Seq(S) /\ q \in Seq(S)
      BY <2>3, ConcatProperties
    <3>2. Len(p) = 2 /\ p[1] = x /\ p[2] = y
      BY <2>3, ConcatProperties
    <3>3. Len(q) = 2 /\ q[1] = x /\ q[2] = y
      OBVIOUS
    <3> HIDE DEF p, q
    <3>4. p = q
      BY <3>1, <3>2, <3>3, SeqEqual
    <3>5. QED
      BY <3>4 DEF p, q
  <2>6. QED
    BY <2>2, <2>4, <2>5
<1>4. QED
  BY <1>1, <1>2, <1>3

\* The message log has grown: by d lines with a gap, and so that the number that
\* the engine expects next is what the log leads to.
MessagesGrow(d) ==
  /\ msgs' \in Seq(MessageLines) /\ Len(msgs) <= Len(msgs')
  /\ \A i \in 1 .. Len(msgs) : msgs'[i] = msgs[i]
  /\ Expects(msgs', Len(msgs'), NextIn')
  /\ TwoMissing(msgs')
  /\ Cardinality(GapLines(msgs', Len(msgs'))) = Cardinality(GapLines(msgs, Len(msgs))) + d

\* The event log has grown: by g gaps, b broken connections and r refused logons.
EventsGrow(g, b, r) ==
  /\ evts' \in Seq(EventLines) /\ Len(evts) <= Len(evts')
  /\ \A i \in 1 .. Len(evts) : evts'[i] = evts[i]
  /\ \A i \in Len(evts) + 1 .. Len(evts') :
       evts'[i].type = "SeqNumTooHigh" =>
         evts'[i].expected # 0 /\ evts'[i].received = evts'[i].expected + 2
  /\ Cardinality(Told(evts', "SeqNumTooHigh", Len(evts'))) =
       Cardinality(Told(evts, "SeqNumTooHigh", Len(evts))) + g
  /\ Cardinality(Told(evts', "Disconnected", Len(evts'))) =
       Cardinality(Told(evts, "Disconnected", Len(evts))) + b
  /\ Cardinality(Told(evts', "LogonRejected", Len(evts'))) =
       Cardinality(Told(evts, "LogonRejected", Len(evts))) + r

\* No message.
LEMMA NoMessage ==
  ASSUME TypeOK, LinesInv, SequenceInv, msgs' = msgs, NextIn' = NextIn
  PROVE  MessagesGrow(0)
<1>1. msgs \in Seq(MessageLines) /\ Len(msgs) \in Nat
  BY TypesOfLogs
<1>2. Expects(msgs, Len(msgs), NextIn) /\ TwoMissing(msgs)
  BY DEF SequenceInv, NextIn
<1>3. Cardinality(GapLines(msgs, Len(msgs))) \in Nat
  BY <1>1, GapLinesNext
<1> DEFINE C == Cardinality(GapLines(msgs, Len(msgs)))
<1>4. C = C + 0
  BY <1>3
<1>5. QED
  BY <1>1, <1>2, <1>4 DEF MessagesGrow

\* A message that has no number to go by changes nothing.
LEMMA PlainMessage ==
  ASSUME TypeOK, LinesInv, SequenceInv, NEW x \in MessageLines, ~Sequenced(x),
         msgs' = msgs \o <<x>>, NextIn' = NextIn
  PROVE  MessagesGrow(0)
<1>1. msgs \in Seq(MessageLines) /\ Len(msgs) \in Nat
  BY TypesOfLogs
<1>2. msgs' = Append(msgs, x)
  BY <1>1, OneOrTwo
<1>3. Expects(msgs, Len(msgs), NextIn) /\ TwoMissing(msgs)
  BY DEF SequenceInv, NextIn
<1> DEFINE t == Append(msgs, x)
<1>4. /\ t \in Seq(MessageLines) /\ Len(t) = Len(msgs) + 1
      /\ \A i \in 1 .. Len(msgs) : t[i] = msgs[i]
      /\ Expects(t, Len(t), NextIn) /\ TwoMissing(t)
      /\ Cardinality(GapLines(t, Len(t))) = Cardinality(GapLines(msgs, Len(msgs))) + 0
  BY <1>1, <1>3, MessageAppended
<1> HIDE DEF t
<1>5. msgs' = t /\ NextIn' = NextIn
  BY <1>2 DEF t
<1>6. Len(msgs) <= Len(t)
  BY <1>1, <1>4
<1>7. QED
  BY <1>4, <1>5, <1>6 DEF MessagesGrow

\* A message with the number expected, or with number 1, is no gap.
LEMMA NextMessage ==
  ASSUME TypeOK, LinesInv, SequenceInv, NEW x \in MessageLines, Sequenced(x),
         x.seq = IN_SEQ \/ x.seq = 1, IN_SEQ' = x.seq + 1, msgs' = msgs \o <<x>>
  PROVE  MessagesGrow(0)
<1>1. msgs \in Seq(MessageLines) /\ Len(msgs) \in Nat /\ IN_SEQ \in Nat
  BY TypesOfLogs
<1>2. msgs' = Append(msgs, x)
  BY <1>1, OneOrTwo
<1>3. Expects(msgs, Len(msgs), NextIn) /\ TwoMissing(msgs) /\ IN_SEQ >= 1
  BY DEF SequenceInv, NextIn
<1>4. x.seq \in Nat \ {0}
  BY MessageType
<1>5. ~(NextIn # 0 /\ x.seq > NextIn)
  BY <1>1, <1>3, <1>4 DEF NextIn
<1>6. NextIn' = x.seq + 1
  BY <1>4 DEF NextIn
<1> DEFINE t == Append(msgs, x)
<1>7. /\ t \in Seq(MessageLines) /\ Len(t) = Len(msgs) + 1
      /\ \A i \in 1 .. Len(msgs) : t[i] = msgs[i]
      /\ Expects(t, Len(t), x.seq + 1) /\ TwoMissing(t)
      /\ Cardinality(GapLines(t, Len(t))) = Cardinality(GapLines(msgs, Len(msgs))) + 0
  BY <1>1, <1>3, <1>5, MessageAppended
<1> HIDE DEF t
<1>8. msgs' = t
  BY <1>2 DEF t
<1>9. Len(msgs) <= Len(t)
  BY <1>1, <1>7
<1>10. QED
  BY <1>6, <1>7, <1>8, <1>9 DEF MessagesGrow

\* A message two past the number expected is a gap; a request follows.
LEMMA GapMessage ==
  ASSUME TypeOK, LinesInv, SequenceInv, IN_SEQ # 1,
         NEW x \in MessageLines, Sequenced(x), x.seq = IN_SEQ + 2, IN_SEQ' = IN_SEQ + 3,
         NEW y \in MessageLines, ~Sequenced(y), msgs' = msgs \o <<x, y>>
  PROVE  MessagesGrow(1)
<1>1. msgs \in Seq(MessageLines) /\ Len(msgs) \in Nat /\ IN_SEQ \in Nat
  BY TypesOfLogs
<1> DEFINE t == Append(msgs, x)  u == Append(t, y)
<1>2. msgs' = u
  BY <1>1, OneOrTwo
<1>3. Expects(msgs, Len(msgs), NextIn) /\ TwoMissing(msgs) /\ IN_SEQ >= 1
  BY DEF SequenceInv, NextIn
<1>4. NextIn = IN_SEQ /\ NextIn # 0 /\ x.seq > NextIn /\ x.seq = NextIn + 2
  BY <1>1, <1>3 DEF NextIn
<1>5. NextIn' = x.seq + 1
  BY <1>1, <1>3 DEF NextIn
<1>6. /\ t \in Seq(MessageLines) /\ Len(t) = Len(msgs) + 1
      /\ \A i \in 1 .. Len(msgs) : t[i] = msgs[i]
      /\ Expects(t, Len(t), x.seq + 1) /\ TwoMissing(t)
      /\ Cardinality(GapLines(t, Len(t))) = Cardinality(GapLines(msgs, Len(msgs))) + 1
  BY <1>1, <1>3, <1>4, MessageAppended
<1> HIDE DEF t
<1>7. /\ u \in Seq(MessageLines) /\ Len(u) = Len(t) + 1
      /\ \A i \in 1 .. Len(t) : u[i] = t[i]
      /\ Expects(u, Len(u), x.seq + 1) /\ TwoMissing(u)
      /\ Cardinality(GapLines(u, Len(u))) = Cardinality(GapLines(t, Len(t))) + 0
  BY <1>6, MessageAppended
<1> HIDE DEF u
<1>8. Len(msgs) <= Len(u) /\ \A i \in 1 .. Len(msgs) : u[i] = msgs[i]
  BY <1>1, <1>6, <1>7
<1>9. Cardinality(GapLines(u, Len(u))) = Cardinality(GapLines(msgs, Len(msgs))) + 1
  <2>1. Cardinality(GapLines(msgs, Len(msgs))) \in Nat
    BY <1>1, GapLinesNext
  <2>2. QED
    BY <1>6, <1>7, <2>1
<1>10. QED
  BY <1>2, <1>5, <1>7, <1>8, <1>9 DEF MessagesGrow

\* Whether a line counts.
Is(x, type) == IF x.type = type THEN 1 ELSE 0

\* No event.
LEMMA NoEvent ==
  ASSUME TypeOK, LinesInv, evts' = evts \o << >>
  PROVE  EventsGrow(0, 0, 0)
<1>1. evts \in Seq(EventLines) /\ Len(evts) \in Nat
  BY TypesOfLogs
<1>2. evts' = evts
  BY <1>1, OneOrTwo
<1>3. \A type : Cardinality(Told(evts, type, Len(evts))) \in Nat
  BY <1>1, ToldNext
<1>4. \A type : Cardinality(Told(evts', type, Len(evts'))) = Cardinality(Told(evts, type, Len(evts))) + 0
  BY <1>2, <1>3
<1>5. QED
  BY <1>1, <1>2, <1>4 DEF EventsGrow

\* One event that tells of no gap.
LEMMA OneEvent ==
  ASSUME TypeOK, LinesInv, NEW x \in EventLines, x.type # "SeqNumTooHigh",
         evts' = evts \o <<x>>
  PROVE  EventsGrow(0, Is(x, "Disconnected"), Is(x, "LogonRejected"))
<1>1. evts \in Seq(EventLines) /\ Len(evts) \in Nat
  BY TypesOfLogs
<1> DEFINE t == Append(evts, x)
<1>2. evts' = t
  BY <1>1, OneOrTwo
<1>3. /\ t \in Seq(EventLines) /\ Len(t) = Len(evts) + 1 /\ t[Len(evts) + 1] = x
      /\ \A i \in 1 .. Len(evts) : t[i] = evts[i]
      /\ \A type : Cardinality(Told(t, type, Len(t))) =
           Cardinality(Told(evts, type, Len(evts))) + Is(x, type)
  BY <1>1, EventAppended DEF Is
<1> HIDE DEF t
<1>4. \A i \in Len(evts) + 1 .. Len(t) : t[i] = x
  BY <1>1, <1>3
<1>5. Is(x, "SeqNumTooHigh") = 0
  BY DEF Is
<1>6. Len(evts) <= Len(t)
  BY <1>1, <1>3
<1>7. QED
  BY <1>2, <1>3, <1>4, <1>5, <1>6 DEF EventsGrow

\* Two events, of which the first may tell of a gap.
LEMMA TwoEvents ==
  ASSUME TypeOK, LinesInv, NEW x \in EventLines, NEW y \in EventLines,
         x.type = "SeqNumTooHigh" => x.expected # 0 /\ x.received = x.expected + 2,
         x.type \notin {"Disconnected", "LogonRejected"},
         y.type \notin {"SeqNumTooHigh", "Disconnected", "LogonRejected"},
         evts' = evts \o <<x, y>>
  PROVE  EventsGrow(Is(x, "SeqNumTooHigh"), 0, 0)
<1>1. evts \in Seq(EventLines) /\ Len(evts) \in Nat
  BY TypesOfLogs
<1> DEFINE t == Append(evts, x)  u == Append(t, y)
<1>2. evts' = u
  BY <1>1, OneOrTwo
<1>3. /\ t \in Seq(EventLines) /\ Len(t) = Len(evts) + 1 /\ t[Len(evts) + 1] = x
      /\ \A i \in 1 .. Len(evts) : t[i] = evts[i]
      /\ \A type : Cardinality(Told(t, type, Len(t))) =
           Cardinality(Told(evts, type, Len(evts))) + Is(x, type)
  BY <1>1, EventAppended DEF Is
<1> HIDE DEF t
<1>4. /\ u \in Seq(EventLines) /\ Len(u) = Len(t) + 1 /\ u[Len(t) + 1] = y
      /\ \A i \in 1 .. Len(t) : u[i] = t[i]
      /\ \A type : Cardinality(Told(u, type, Len(u))) =
           Cardinality(Told(t, type, Len(t))) + Is(y, type)
  BY <1>3, EventAppended DEF Is
<1> HIDE DEF u
<1>5. \A i \in Len(evts) + 1 .. Len(u) : u[i] = x \/ u[i] = y
  BY <1>1, <1>3, <1>4
<1>6. Len(evts) <= Len(u) /\ \A i \in 1 .. Len(evts) : u[i] = evts[i]
  BY <1>1, <1>3, <1>4
<1>7. /\ Is(x, "Disconnected") = 0 /\ Is(x, "LogonRejected") = 0 /\ Is(x, "SeqNumTooHigh") \in Nat
      /\ Is(y, "SeqNumTooHigh") = 0 /\ Is(y, "Disconnected") = 0 /\ Is(y, "LogonRejected") = 0
  BY DEF Is
<1>8. \A type : Cardinality(Told(evts, type, Len(evts))) \in Nat
  BY <1>1, ToldNext
<1>9. /\ Cardinality(Told(u, "SeqNumTooHigh", Len(u))) =
           Cardinality(Told(evts, "SeqNumTooHigh", Len(evts))) + Is(x, "SeqNumTooHigh")
      /\ Cardinality(Told(u, "Disconnected", Len(u))) =
           Cardinality(Told(evts, "Disconnected", Len(evts))) + 0
      /\ Cardinality(Told(u, "LogonRejected", Len(u))) =
           Cardinality(Told(evts, "LogonRejected", Len(evts))) + 0
  BY <1>3, <1>4, <1>7, <1>8
<1>10. \A i \in Len(evts) + 1 .. Len(u) :
         u[i].type = "SeqNumTooHigh" => u[i].expected # 0 /\ u[i].received = u[i].expected + 2
  BY <1>5
<1>11. QED
  BY <1>2, <1>4, <1>6, <1>9, <1>10 DEF EventsGrow

-----------------------------------------------------------------------------
(* The engine's counters are those of its logs. *)

\* What happened, and what the logs tell of it.
Books(d, b, r) ==
  /\ MessagesGrow(d) /\ EventsGrow(d, b, r)
  /\ COUNT' \in [{"gaps", "missing", "disconnects", "refused"} -> Nat]
  /\ COUNT'["gaps"] = COUNT["gaps"] + d /\ COUNT'["missing"] = COUNT["missing"] + 2 * d
  /\ COUNT'["disconnects"] = COUNT["disconnects"] + b
  /\ COUNT'["refused"] = COUNT["refused"] + r

\* What every step of the engine keeps.
Frame ==
  /\ log' = [l \in Logs |-> log'[l]]
  /\ kept_up' = (kept_up /\ CaughtUp)
  /\ now' = now /\ read' = read /\ snapshot' = snapshot /\ missing' = missing
  /\ LINK' \in {"down", "logon", "up"} /\ HEARD' \in 0 .. now
  /\ IN_SEQ' \in Nat /\ OUT_SEQ' \in Nat /\ IN_SEQ' >= 1 /\ OUT_SEQ' >= 1

\* What the engine counts are numbers.
LEMMA CountType ==
  ASSUME TypeOK
  PROVE  /\ COUNT["gaps"] \in Nat /\ COUNT["missing"] \in Nat
         /\ COUNT["disconnects"] \in Nat /\ COUNT["refused"] \in Nat
BY DEF TypeOK

\* Nothing happened that is counted.
LEMMA CountKept ==
  ASSUME TypeOK, COUNT' = COUNT, MessagesGrow(0), EventsGrow(0, 0, 0)
  PROVE  Books(0, 0, 0)
BY CountType DEF Books, TypeOK

\* The lines that the engine writes have the types of the logs.
LEMMA NewLines ==
  ASSUME TypeOK, LinesInv, SequenceInv
  PROVE  /\ \A type \in {"A", "5", "8", "2"}, seq \in Nat \ {0} :
              /\ In(type, seq) \in MessageLines /\ Sequenced(In(type, seq))
              /\ In(type, seq).seq = seq /\ In(type, seq).type = type
              /\ In(type, seq).direction = "in" /\ In(type, seq).ts = now
              /\ Out(type, seq) \in MessageLines /\ ~Sequenced(Out(type, seq))
              /\ Out(type, seq).type = type /\ Out(type, seq).direction = "out"
         /\ \A seq \in Nat \ {0} :
              /\ Resent(seq) \in MessageLines /\ ~Sequenced(Resent(seq))
              /\ Resent(seq).type = "8" /\ Resent(seq).direction = "in" /\ Resent(seq).ts = now
         /\ \A type \in {"Connecting", "ReconnectAttempt", "LogonSent", "LogonReceived",
                         "LogonRejected", "Disconnected", "ResendRequested"} :
              Event(type) \in EventLines /\ Event(type).type = type
         /\ \A x, y \in Nat :
              LET ev == SessionEvent("SeqNumTooHigh", x, y, now) IN
              /\ ev \in EventLines /\ ev.type = "SeqNumTooHigh"
              /\ ev.expected = x /\ ev.received = y
         /\ IN_SEQ \in Nat \ {0} /\ OUT_SEQ \in Nat \ {0}
<1>1. now \in Nat \ {0} /\ IN_SEQ \in Nat \ {0} /\ OUT_SEQ \in Nat \ {0}
  BY TypesOfLogs DEF SequenceInv
<1>2. \A type \in {"A", "5", "8", "2"}, seq \in Nat \ {0} :
        /\ In(type, seq) \in MessageLines /\ Sequenced(In(type, seq))
        /\ In(type, seq).seq = seq /\ In(type, seq).type = type
        /\ In(type, seq).direction = "in" /\ In(type, seq).ts = now
        /\ Out(type, seq) \in MessageLines /\ ~Sequenced(Out(type, seq))
        /\ Out(type, seq).type = type /\ Out(type, seq).direction = "out"
  BY <1>1 DEF In, Out, FixMessage, MessageLines, Sequenced, Incoming
<1>3. \A seq \in Nat \ {0} :
        /\ Resent(seq) \in MessageLines /\ ~Sequenced(Resent(seq))
        /\ Resent(seq).type = "8" /\ Resent(seq).direction = "in" /\ Resent(seq).ts = now
  BY <1>1 DEF Resent, FixMessage, MessageLines, Sequenced, Incoming
<1>4. \A type \in {"Connecting", "ReconnectAttempt", "LogonSent", "LogonReceived",
                   "LogonRejected", "Disconnected", "ResendRequested"} :
        Event(type) \in EventLines /\ Event(type).type = type
  BY <1>1 DEF Event, SessionEvent, EventLines
<1>5. \A x, y \in Nat :
        LET ev == SessionEvent("SeqNumTooHigh", x, y, now) IN
        /\ ev \in EventLines /\ ev.type = "SeqNumTooHigh"
        /\ ev.expected = x /\ ev.received = y
  BY <1>1 DEF SessionEvent, EventLines
<1>6. QED
  BY <1>1, <1>2, <1>3, <1>4, <1>5

\* A logon request is no gap, whatever it does to the outgoing numbers.
LEMMA RequestLogonBooks ==
  ASSUME TypeOK, LinesInv, SequenceInv, RequestLogon
  PROVE  Frame /\ Books(0, 0, 0)
<1> DEFINE x == Out("A", OUT_SEQ)
           c == IF OUT_SEQ = 1 THEN "Connecting" ELSE "ReconnectAttempt"
<1>1. Write(<<x>>, <<Event(c), Event("LogonSent")>>)
  BY DEF RequestLogon
<1>2. /\ x \in MessageLines /\ ~Sequenced(x)
      /\ Event(c) \in EventLines /\ Event(c).type = c
      /\ Event("LogonSent") \in EventLines /\ Event("LogonSent").type = "LogonSent"
  BY NewLines
<1>3. /\ LINK' = "logon" /\ OUT_SEQ' = OUT_SEQ + 1
      /\ IN_SEQ' = IN_SEQ /\ HEARD' = HEARD /\ COUNT' = COUNT
  BY DEF RequestLogon
<1>4. c \in {"Connecting", "ReconnectAttempt"}
  OBVIOUS
<1> HIDE DEF x, c
<1>5. /\ msgs' = msgs \o <<x>> /\ evts' = evts \o <<Event(c), Event("LogonSent")>>
      /\ log' = [l \in Logs |-> log'[l]] /\ kept_up' = (kept_up /\ CaughtUp)
      /\ now' = now /\ read' = read /\ snapshot' = snapshot /\ missing' = missing
  BY <1>1, WriteOutcome
<1>6. NextIn' = NextIn
  BY <1>3 DEF NextIn
<1>7. MessagesGrow(0)
  BY <1>2, <1>5, <1>6, PlainMessage
<1>8. EventsGrow(Is(Event(c), "SeqNumTooHigh"), 0, 0)
  BY <1>2, <1>4, <1>5, TwoEvents
<1>9. Is(Event(c), "SeqNumTooHigh") = 0
  BY <1>2, <1>4 DEF Is
<1>10. Books(0, 0, 0)
  BY <1>3, <1>7, <1>8, <1>9, CountKept
<1>11. Frame
  <2>1. HEARD \in 0 .. now /\ IN_SEQ \in Nat \ {0} /\ OUT_SEQ \in Nat \ {0}
    BY NewLines DEF TypeOK
  <2>2. QED
    BY <1>3, <1>5, <2>1 DEF Frame
<1>12. QED
  BY <1>10, <1>11

\* An accepted logon is no gap: it comes in sequence, or starts the numbers again.
LEMMA AcceptLogonBooks ==
  ASSUME TypeOK, LinesInv, SequenceInv, AcceptLogon
  PROVE  Frame /\ Books(0, 0, 0)
<1>1. PICK seq \in {IN_SEQ, 1} :
        IN_SEQ' = seq + 1 /\ Write(<<In("A", seq)>>, <<Event("LogonReceived")>>)
  BY DEF AcceptLogon
<1> DEFINE x == In("A", seq)  y == Event("LogonReceived")
<1>2. /\ seq \in Nat \ {0} /\ x \in MessageLines /\ Sequenced(x) /\ x.seq = seq
      /\ y \in EventLines /\ y.type = "LogonReceived"
  BY NewLines
<1>3. LINK' = "up" /\ OUT_SEQ' = OUT_SEQ /\ HEARD' = now /\ COUNT' = COUNT
  BY DEF AcceptLogon
<1>4. Write(<<x>>, <<y>>)
  BY <1>1
<1> HIDE DEF x, y
<1>5. /\ msgs' = msgs \o <<x>> /\ evts' = evts \o <<y>>
      /\ log' = [l \in Logs |-> log'[l]] /\ kept_up' = (kept_up /\ CaughtUp)
      /\ now' = now /\ read' = read /\ snapshot' = snapshot /\ missing' = missing
  BY <1>4, WriteOutcome
<1>6. MessagesGrow(0)
  <2>1. (x.seq = IN_SEQ \/ x.seq = 1) /\ IN_SEQ' = x.seq + 1
    BY <1>1, <1>2
  <2>2. QED
    BY <1>2, <1>5, <2>1, NextMessage
<1>7. EventsGrow(0, Is(y, "Disconnected"), Is(y, "LogonRejected"))
  BY <1>2, <1>5, OneEvent
<1>8. Is(y, "Disconnected") = 0 /\ Is(y, "LogonRejected") = 0
  BY <1>2 DEF Is
<1>9. Books(0, 0, 0)
  BY <1>3, <1>6, <1>7, <1>8, CountKept
<1>10. Frame
  <2>1. now \in 0 .. now /\ IN_SEQ' \in Nat \ {0} /\ OUT_SEQ \in Nat \ {0}
    BY <1>1, <1>2, NewLines, TypesOfLogs
  <2>2. QED
    BY <1>3, <1>5, <2>1 DEF Frame
<1>11. QED
  BY <1>9, <1>10

\* A refused logon is counted once.
LEMMA RefuseLogonBooks ==
  ASSUME TypeOK, LinesInv, SequenceInv, RefuseLogon
  PROVE  Frame /\ Books(0, 0, 1)
<1> DEFINE x == In("5", IN_SEQ)  y == Event("LogonRejected")
<1>1. Write(<<x>>, <<y>>)
  BY DEF RefuseLogon
<1>2. /\ IN_SEQ \in Nat \ {0} /\ x \in MessageLines /\ Sequenced(x) /\ x.seq = IN_SEQ
      /\ y \in EventLines /\ y.type = "LogonRejected"
  BY NewLines
<1>3. /\ LINK' = "down" /\ OUT_SEQ' = OUT_SEQ /\ HEARD' = now /\ IN_SEQ' = IN_SEQ + 1
      /\ COUNT' = [COUNT EXCEPT !["refused"] = @ + 1]
  BY DEF RefuseLogon, Happened
<1> HIDE DEF x, y
<1>4. /\ msgs' = msgs \o <<x>> /\ evts' = evts \o <<y>>
      /\ log' = [l \in Logs |-> log'[l]] /\ kept_up' = (kept_up /\ CaughtUp)
      /\ now' = now /\ read' = read /\ snapshot' = snapshot /\ missing' = missing
  BY <1>1, WriteOutcome
<1>5. MessagesGrow(0)
  <2>1. x.seq = IN_SEQ /\ IN_SEQ' = x.seq + 1
    BY <1>2, <1>3
  <2>2. QED
    BY <1>2, <1>4, <2>1, NextMessage
<1>6. EventsGrow(0, Is(y, "Disconnected"), Is(y, "LogonRejected"))
  BY <1>2, <1>4, OneEvent
<1>7. Is(y, "Disconnected") = 0 /\ Is(y, "LogonRejected") = 1
  BY <1>2 DEF Is
<1>8. Books(0, 0, 1)
  <2>1. /\ COUNT' \in [{"gaps", "missing", "disconnects", "refused"} -> Nat]
        /\ COUNT'["gaps"] = COUNT["gaps"] + 0 /\ COUNT'["missing"] = COUNT["missing"] + 2 * 0
        /\ COUNT'["disconnects"] = COUNT["disconnects"] + 0
        /\ COUNT'["refused"] = COUNT["refused"] + 1
    BY <1>3, CountType DEF TypeOK
  <2>2. QED
    BY <1>5, <1>6, <1>7, <2>1 DEF Books
<1>9. Frame
  <2>1. now \in 0 .. now /\ IN_SEQ' \in Nat \ {0} /\ OUT_SEQ \in Nat \ {0}
    BY <1>2, <1>3, NewLines, TypesOfLogs
  <2>2. QED
    BY <1>3, <1>4, <2>1 DEF Frame
<1>10. QED
  BY <1>8, <1>9

\* The next message in sequence is no gap.
LEMMA TrafficBooks ==
  ASSUME TypeOK, LinesInv, SequenceInv, Traffic
  PROVE  Frame /\ Books(0, 0, 0)
<1> DEFINE x == In("8", IN_SEQ)
<1>1. Write(<<x>>, << >>)
  BY DEF Traffic
<1>2. IN_SEQ \in Nat \ {0} /\ x \in MessageLines /\ Sequenced(x) /\ x.seq = IN_SEQ
  BY NewLines
<1>3. /\ LINK' = "up" /\ OUT_SEQ' = OUT_SEQ /\ HEARD' = now /\ IN_SEQ' = IN_SEQ + 1
      /\ COUNT' = COUNT
  BY DEF Traffic
<1> HIDE DEF x
<1>4. /\ msgs' = msgs \o <<x>> /\ evts' = evts \o << >>
      /\ log' = [l \in Logs |-> log'[l]] /\ kept_up' = (kept_up /\ CaughtUp)
      /\ now' = now /\ read' = read /\ snapshot' = snapshot /\ missing' = missing
  BY <1>1, WriteOutcome
<1>5. MessagesGrow(0)
  <2>1. x.seq = IN_SEQ /\ IN_SEQ' = x.seq + 1
    BY <1>2, <1>3
  <2>2. QED
    BY <1>2, <1>4, <2>1, NextMessage
<1>6. Books(0, 0, 0)
  BY <1>3, <1>4, <1>5, NoEvent, CountKept
<1>7. Frame
  <2>1. now \in 0 .. now /\ IN_SEQ' \in Nat \ {0} /\ OUT_SEQ \in Nat \ {0}
    BY <1>2, <1>3, NewLines, TypesOfLogs
  <2>2. QED
    BY <1>3, <1>4, <2>1 DEF Frame
<1>8. QED
  BY <1>6, <1>7

\* A gap is one line of each log that tells of it.
LEMMA GapBooks ==
  ASSUME TypeOK, LinesInv, SequenceInv, IN_SEQ # 1, Gap
  PROVE  Frame /\ Books(1, 0, 0)
<1> DEFINE x == In("8", IN_SEQ + 2)  y == Out("2", OUT_SEQ)
           g == SessionEvent("SeqNumTooHigh", IN_SEQ, IN_SEQ + 2, now)
           h == Event("ResendRequested")
<1>1. Write(<<x, y>>, <<g, h>>)
  BY DEF Gap
<1>2. /\ IN_SEQ \in Nat \ {0} /\ x \in MessageLines /\ Sequenced(x) /\ x.seq = IN_SEQ + 2
      /\ y \in MessageLines /\ ~Sequenced(y)
  BY NewLines
<1>3. /\ g \in EventLines /\ g.type = "SeqNumTooHigh"
      /\ g.expected # 0 /\ g.received = g.expected + 2
      /\ h \in EventLines /\ h.type = "ResendRequested"
  BY <1>2, NewLines
<1>4. /\ LINK' = LINK /\ OUT_SEQ' = OUT_SEQ + 1 /\ HEARD' = now /\ IN_SEQ' = IN_SEQ + 3
      /\ COUNT' = [COUNT EXCEPT !["gaps"] = @ + 1, !["missing"] = @ + 2]
  BY DEF Gap
<1> HIDE DEF x, y, g, h
<1>5. /\ msgs' = msgs \o <<x, y>> /\ evts' = evts \o <<g, h>>
      /\ log' = [l \in Logs |-> log'[l]] /\ kept_up' = (kept_up /\ CaughtUp)
      /\ now' = now /\ read' = read /\ snapshot' = snapshot /\ missing' = missing
  BY <1>1, WriteOutcome
<1>6. MessagesGrow(1)
  BY <1>2, <1>4, <1>5, GapMessage
<1>7. EventsGrow(1, 0, 0)
  <2>1. EventsGrow(Is(g, "SeqNumTooHigh"), 0, 0)
    BY <1>3, <1>5, TwoEvents
  <2>2. Is(g, "SeqNumTooHigh") = 1
    BY <1>3 DEF Is
  <2>3. QED
    BY <2>1, <2>2
<1>8. Books(1, 0, 0)
  <2>1. /\ COUNT' \in [{"gaps", "missing", "disconnects", "refused"} -> Nat]
        /\ COUNT'["gaps"] = COUNT["gaps"] + 1 /\ COUNT'["missing"] = COUNT["missing"] + 2 * 1
        /\ COUNT'["disconnects"] = COUNT["disconnects"] + 0
        /\ COUNT'["refused"] = COUNT["refused"] + 0
    BY <1>4, CountType DEF TypeOK
  <2>2. QED
    BY <1>6, <1>7, <2>1 DEF Books
<1>9. Frame
  <2>1. now \in 0 .. now /\ IN_SEQ' \in Nat \ {0} /\ OUT_SEQ' \in Nat \ {0}
    BY <1>2, <1>4, NewLines, TypesOfLogs
  <2>2. LINK \in {"down", "logon", "up"}
    BY DEF TypeOK
  <2>3. QED
    BY <1>4, <1>5, <2>1, <2>2 DEF Frame
<1>10. QED
  BY <1>8, <1>9

\* A message sent again is no gap.
LEMMA ResendBooks ==
  ASSUME TypeOK, LinesInv, SequenceInv, Resend
  PROVE  Frame /\ Books(0, 0, 0)
<1> DEFINE x == Resent(IN_SEQ - 2)
<1>1. Write(<<x>>, << >>)
  BY DEF Resend
<1>2. IN_SEQ \in Nat \ {0} /\ OUT_SEQ \in Nat \ {0} /\ x \in MessageLines /\ ~Sequenced(x)
  <2>1. IN_SEQ \in Nat \ {0} /\ IN_SEQ > 2
    BY NewLines DEF Resend
  <2>2. IN_SEQ - 2 \in Nat \ {0}
    BY <2>1
  <2>3. QED
    BY <2>1, <2>2, NewLines
<1>3. /\ LINK' = LINK /\ OUT_SEQ' = OUT_SEQ /\ HEARD' = now /\ IN_SEQ' = IN_SEQ
      /\ COUNT' = COUNT
  BY DEF Resend
<1> HIDE DEF x
<1>4. /\ msgs' = msgs \o <<x>> /\ evts' = evts \o << >>
      /\ log' = [l \in Logs |-> log'[l]] /\ kept_up' = (kept_up /\ CaughtUp)
      /\ now' = now /\ read' = read /\ snapshot' = snapshot /\ missing' = missing
  BY <1>1, WriteOutcome
<1>5. NextIn' = NextIn
  BY <1>3 DEF NextIn
<1>6. MessagesGrow(0)
  BY <1>2, <1>4, <1>5, PlainMessage
<1>7. Books(0, 0, 0)
  BY <1>3, <1>4, <1>6, NoEvent, CountKept
<1>8. Frame
  <2>1. now \in 0 .. now
    BY TypesOfLogs
  <2>2. LINK \in {"down", "logon", "up"}
    BY DEF TypeOK
  <2>3. QED
    BY <1>2, <1>3, <1>4, <2>1, <2>2 DEF Frame
<1>9. QED
  BY <1>7, <1>8

\* A broken connection is counted once, with or without a Logout.
LEMMA DisconnectBooks ==
  ASSUME TypeOK, LinesInv, SequenceInv, Disconnect
  PROVE  Frame /\ Books(0, 1, 0)
<1> DEFINE x == Out("5", OUT_SEQ)  y == Event("Disconnected")
<1>1. \/ Write(<< >>, <<y>>) /\ OUT_SEQ' = OUT_SEQ
      \/ Write(<<x>>, <<y>>) /\ OUT_SEQ' = OUT_SEQ + 1
  BY DEF Disconnect
<1>2. /\ IN_SEQ \in Nat \ {0} /\ OUT_SEQ \in Nat \ {0}
      /\ x \in MessageLines /\ ~Sequenced(x) /\ y \in EventLines /\ y.type = "Disconnected"
  BY NewLines
<1>3. /\ LINK' = "down" /\ HEARD' = HEARD /\ IN_SEQ' = IN_SEQ
      /\ COUNT' = [COUNT EXCEPT !["disconnects"] = @ + 1]
  BY DEF Disconnect, Happened
<1> HIDE DEF x, y
<1>4. /\ msgs' = msgs \o << >> \/ msgs' = msgs \o <<x>>
      /\ evts' = evts \o <<y>>
      /\ log' = [l \in Logs |-> log'[l]] /\ kept_up' = (kept_up /\ CaughtUp)
      /\ now' = now /\ read' = read /\ snapshot' = snapshot /\ missing' = missing
  BY <1>1, WriteOutcome
<1>5. NextIn' = NextIn
  BY <1>3 DEF NextIn
<1>6. MessagesGrow(0)
  <2>1. msgs \o << >> = msgs
    BY TypesOfLogs, OneOrTwo
  <2>2. CASE msgs' = msgs \o << >>
    BY <1>5, <2>1, <2>2, NoMessage
  <2>3. CASE msgs' = msgs \o <<x>>
    BY <1>2, <1>5, <2>3, PlainMessage
  <2>4. QED
    BY <1>4, <2>2, <2>3
<1>7. EventsGrow(0, Is(y, "Disconnected"), Is(y, "LogonRejected"))
  BY <1>2, <1>4, OneEvent
<1>8. Is(y, "Disconnected") = 1 /\ Is(y, "LogonRejected") = 0
  BY <1>2 DEF Is
<1>9. Books(0, 1, 0)
  <2>1. /\ COUNT' \in [{"gaps", "missing", "disconnects", "refused"} -> Nat]
        /\ COUNT'["gaps"] = COUNT["gaps"] + 0 /\ COUNT'["missing"] = COUNT["missing"] + 2 * 0
        /\ COUNT'["disconnects"] = COUNT["disconnects"] + 1
        /\ COUNT'["refused"] = COUNT["refused"] + 0
    BY <1>3, CountType DEF TypeOK
  <2>2. QED
    BY <1>6, <1>7, <1>8, <2>1 DEF Books
<1>10. Frame
  <2>1. HEARD \in 0 .. now
    BY DEF TypeOK
  <2>2. OUT_SEQ' \in Nat \ {0}
    BY <1>1, <1>2
  <2>3. QED
    BY <1>2, <1>3, <1>4, <2>1, <2>2 DEF Frame
<1>11. QED
  BY <1>9, <1>10

\* Every step of the engine keeps its books.
LEMMA EngineBooks ==
  ASSUME TypeOK, LinesInv, SequenceInv, EngineStep
  PROVE  /\ Frame /\ (LINK' = "up" => IN_SEQ' > 1)
         /\ \E d, b, r \in {0, 1} : Books(d, b, r)
<1>0. IN_SEQ \in Nat \ {0} /\ (LINK = "up" => IN_SEQ > 1)
  BY NewLines DEF SequenceInv
<1>1. CASE RequestLogon
  BY <1>1, RequestLogonBooks DEF RequestLogon
<1>2. CASE AcceptLogon
  <2>1. IN_SEQ' > 1
    BY <1>0, <1>2 DEF AcceptLogon
  <2>2. QED
    BY <1>2, <2>1, AcceptLogonBooks
<1>3. CASE RefuseLogon
  BY <1>3, RefuseLogonBooks DEF RefuseLogon
<1>4. CASE Traffic
  <2>1. IN_SEQ' > 1
    BY <1>0, <1>4 DEF Traffic
  <2>2. QED
    BY <1>4, <2>1, TrafficBooks
<1>5. CASE Gap
  <2>1. IN_SEQ' > 1 /\ IN_SEQ # 1
    BY <1>0, <1>5 DEF Gap
  <2>2. QED
    BY <1>5, <2>1, GapBooks
<1>6. CASE Resend
  <2>1. IN_SEQ' > 1
    BY <1>0, <1>6 DEF Resend
  <2>2. QED
    BY <1>6, <2>1, ResendBooks
<1>7. CASE Disconnect
  BY <1>7, DisconnectBooks DEF Disconnect
<1>8. QED
  BY <1>1, <1>2, <1>3, <1>4, <1>5, <1>6, <1>7 DEF EngineStep

\* What was read stays what it is while the logs grow.
LEMMA BooksKeep ==
  ASSUME TypeOK, LinesInv, SequenceInv, WrittenInv, CountedInv, EngineStep
  PROVE  TypeOK' /\ LinesInv' /\ SequenceInv' /\ WrittenInv' /\ CountedInv'
<1>1. Frame /\ (LINK' = "up" => IN_SEQ' > 1)
  BY EngineBooks
<1>2. PICK d \in {0, 1}, b \in {0, 1}, r \in {0, 1} : Books(d, b, r)
  BY EngineBooks
<1>3. /\ msgs \in Seq(MessageLines) /\ evts \in Seq(EventLines)
      /\ Len(msgs) \in Nat /\ Len(evts) \in Nat
      /\ read["message_log"] \in 0 .. Len(msgs) /\ read["event_log"] \in 0 .. Len(evts)
  BY TypesOfLogs
<1>4. /\ msgs' \in Seq(MessageLines) /\ evts' \in Seq(EventLines)
      /\ Len(msgs') \in Nat /\ Len(evts') \in Nat
      /\ Len(msgs) <= Len(msgs') /\ Len(evts) <= Len(evts')
      /\ \A i \in 1 .. Len(msgs) : msgs'[i] = msgs[i]
      /\ \A i \in 1 .. Len(evts) : evts'[i] = evts[i]
  BY <1>2, LenProperties DEF Books, MessagesGrow, EventsGrow
<1>5. /\ read' = read /\ snapshot' = snapshot /\ missing' = missing /\ now' = now
      /\ IN_SEQ' \in Nat /\ OUT_SEQ' \in Nat /\ IN_SEQ' >= 1 /\ OUT_SEQ' >= 1
  BY <1>1 DEF Frame
<1>6. TypeOK'
  <2>1. /\ LINK' \in {"down", "logon", "up"} /\ HEARD' \in 0 .. now'
        /\ now' \in 1 .. MaxNow /\ snapshot' \in Snapshots
        /\ missing' \in [Logs -> Nat] /\ kept_up' \in BOOLEAN
    BY <1>1 DEF Frame, TypeOK
  <2>2. COUNT' \in [{"gaps", "missing", "disconnects", "refused"} -> Nat]
    BY <1>2 DEF Books
  <2>3. read' \in [Logs -> Nat] /\ \A l \in Logs : read'[l] <= Len(log'[l])
    <3>1. read'["message_log"] <= Len(msgs') /\ read'["event_log"] <= Len(evts')
      BY <1>3, <1>4, <1>5
    <3>2. read' \in [Logs -> Nat]
      BY <1>5 DEF TypeOK
    <3>3. QED
      BY <3>1, <3>2 DEF Logs, msgs, evts
  <2>4. QED
    BY <1>5, <2>1, <2>2, <2>3 DEF TypeOK
<1>7. LinesInv'
  <2>1. ASSUME NEW i \in 1 .. Len(evts'), evts'[i].type = "SeqNumTooHigh"
        PROVE  evts'[i].expected # 0 /\ evts'[i].received = evts'[i].expected + 2
    <3>1. CASE i \in 1 .. Len(evts)
      BY <1>4, <2>1, <3>1 DEF LinesInv
    <3>2. CASE i \in Len(evts) + 1 .. Len(evts')
      BY <1>2, <2>1, <3>2 DEF Books, EventsGrow
    <3>3. QED
      BY <1>3, <1>4, <3>1, <3>2
  <2>2. log' = [l \in Logs |-> log'[l]]
    BY <1>1 DEF Frame
  <2>3. QED
    BY <1>4, <2>1, <2>2 DEF LinesInv
<1> DEFINE i == read["message_log"]  k == read["event_log"]
<1>8. /\ \A n : Expects(msgs, i, n) => Expects(msgs', i, n)
      /\ GapLines(msgs', i) = GapLines(msgs, i)
      /\ \A type : Told(evts', type, k) = Told(evts, type, k)
  <2>1. /\ i \in Nat /\ \A j \in 1 .. i : msgs'[j] = msgs[j]
        /\ k \in Nat /\ \A j \in 1 .. k : evts'[j] = evts[j]
    BY <1>3, <1>4
  <2> HIDE DEF i, k
  <2>2. (\A n : Expects(msgs, i, n) => Expects(msgs', i, n)) /\ GapLines(msgs', i) = GapLines(msgs, i)
    BY <2>1, PrefixKept
  <2>3. \A type : Told(evts', type, k) = Told(evts, type, k)
    BY <2>1, PrefixKept
  <2>4. QED
    BY <2>2, <2>3
<1>9. SequenceInv'
  <2>1. Expects(msgs', i, snapshot.next_expected_in)
    BY <1>8 DEF SequenceInv
  <2>2. Expects(msgs', Len(msgs'), NextIn') /\ TwoMissing(msgs')
    BY <1>2 DEF Books, MessagesGrow
  <2>3. QED
    BY <1>1, <1>5, <2>1, <2>2 DEF SequenceInv, NextIn
<1>10. WrittenInv'
  <2>1. /\ Cardinality(GapLines(msgs', Len(msgs'))) = Cardinality(GapLines(msgs, Len(msgs))) + d
        /\ Cardinality(Told(evts', "SeqNumTooHigh", Len(evts'))) =
             Cardinality(Told(evts, "SeqNumTooHigh", Len(evts))) + d
        /\ Cardinality(Told(evts', "Disconnected", Len(evts'))) =
             Cardinality(Told(evts, "Disconnected", Len(evts))) + b
        /\ Cardinality(Told(evts', "LogonRejected", Len(evts'))) =
             Cardinality(Told(evts, "LogonRejected", Len(evts))) + r
        /\ COUNT'["gaps"] = COUNT["gaps"] + d /\ COUNT'["missing"] = COUNT["missing"] + 2 * d
        /\ COUNT'["disconnects"] = COUNT["disconnects"] + b
        /\ COUNT'["refused"] = COUNT["refused"] + r
    BY <1>2 DEF Books, MessagesGrow, EventsGrow
  <2>2. COUNT'["missing"] = 2 * COUNT'["gaps"]
    BY <2>1, CountType DEF WrittenInv
  <2>3. QED
    BY <2>1, <2>2 DEF WrittenInv
<1>11. CountedInv'
  BY <1>5, <1>8 DEF CountedInv
<1>12. QED
  BY <1>6, <1>7, <1>9, <1>10, <1>11

-----------------------------------------------------------------------------
(* The collector's counters are those of what it has read. *)

\* Where there is a gap, two messages are missing.
LEMMA GapIsTwo ==
  ASSUME NEW s \in Seq(MessageLines), NEW i \in 0 .. Len(s) - 1, NEW n, Expects(s, i, n),
         TwoMissing(s), GapAt(s, i + 1)
  PROVE  s[i + 1].seq = n + 2
<1>1. i + 1 - 1 = i /\ i \in 0 .. Len(s) /\ i + 1 \in 1 .. Len(s)
  OBVIOUS
<1>2. PICK j \in 1 .. i : LastOf(s, i, j) /\ s[i + 1].seq > s[j].seq + 1
  BY <1>1 DEF GapAt
<1>3. s[i + 1].seq = s[j].seq + 3
  BY <1>1, <1>2 DEF GapAt, TwoMissing
<1>4. Expects(s, i, s[j].seq + 1)
  BY <1>2 DEF Expects
<1>5. n = s[j].seq + 1
  BY <1>1, <1>4, ExpectsOne
<1>6. s[j].seq \in Nat
  BY <1>1, <1>2, ElementOfSeq, MessageType
<1>7. QED
  BY <1>3, <1>5, <1>6

\* The next message is applied.
ReadMessage(ev) ==
  /\ read["message_log"] \in 0 .. Len(msgs) - 1
  /\ ev = msgs[read["message_log"] + 1] /\ ev \in MessageLines
  /\ snapshot' = Apply(snapshot, ev)
  /\ read' = [read EXCEPT !["message_log"] = @ + 1]
  /\ missing' = [missing EXCEPT !["message_log"] = @ + GapSize(snapshot, ev)]

ReadEvent(ev) ==
  /\ read["event_log"] \in 0 .. Len(evts) - 1
  /\ ev = evts[read["event_log"] + 1] /\ ev \in EventLines
  /\ snapshot' = Apply(snapshot, ev)
  /\ read' = [read EXCEPT !["event_log"] = @ + 1]
  /\ missing' = [missing EXCEPT !["event_log"] = @ + GapSize(snapshot, ev)]

\* ApplyNext reads the next message or the next event.
LEMMA ApplyOutcome ==
  ASSUME TypeOK, LinesInv, NEW l \in Logs, ApplyNext(l)
  PROVE  /\ UNCHANGED <<LINK, IN_SEQ, OUT_SEQ, HEARD, COUNT, log, now, kept_up>>
         /\ \/ \E ev : ReadMessage(ev)
            \/ \E ev : ReadEvent(ev)
<1>1. UNCHANGED <<LINK, IN_SEQ, OUT_SEQ, HEARD, COUNT, log, now, kept_up>>
  BY DEF ApplyNext, engineVars
<1>2. CASE l = "message_log"
  <2>1. read["message_log"] \in 0 .. Len(msgs) - 1
    BY <1>2, TypesOfLogs DEF ApplyNext, msgs
  <2>2. msgs[read["message_log"] + 1] \in MessageLines
    BY <2>1, TypesOfLogs, ElementOfSeq
  <2>3. ReadMessage(msgs[read["message_log"] + 1])
    BY <1>2, <2>1, <2>2 DEF ApplyNext, ReadMessage, msgs
  <2>4. QED
    BY <1>1, <2>3
<1>3. CASE l = "event_log"
  <2>1. read["event_log"] \in 0 .. Len(evts) - 1
    BY <1>3, TypesOfLogs DEF ApplyNext, evts
  <2>2. evts[read["event_log"] + 1] \in EventLines
    BY <2>1, TypesOfLogs, ElementOfSeq
  <2>3. ReadEvent(evts[read["event_log"] + 1])
    BY <1>3, <2>1, <2>2 DEF ApplyNext, ReadEvent, evts
  <2>4. QED
    BY <1>1, <2>3
<1>4. QED
  BY <1>2, <1>3 DEF Logs

\* Applying a message keeps the counters those of the lines read.
LEMMA ReadMessageCounted ==
  ASSUME TypeOK, LinesInv, SequenceInv, WrittenInv, CountedInv,
         UNCHANGED <<LINK, IN_SEQ, OUT_SEQ, HEARD, COUNT, log, now, kept_up>>,
         NEW ev, ReadMessage(ev)
  PROVE  TypeOK' /\ LinesInv' /\ SequenceInv' /\ WrittenInv' /\ CountedInv'
<1> DEFINE i == read["message_log"]  k == read["event_log"]
           n == snapshot.next_expected_in
<1>1. /\ msgs \in Seq(MessageLines) /\ Len(msgs) \in Nat /\ Len(evts) \in Nat
      /\ i \in 0 .. Len(msgs) - 1 /\ i \in Nat /\ k \in 0 .. Len(evts)
      /\ ev = msgs[i + 1] /\ ev \in MessageLines
  BY TypesOfLogs DEF ReadMessage
<1>2. msgs' = msgs /\ evts' = evts
  BY DEF msgs, evts
<1>3. /\ snapshot \in Snapshots /\ snapshot' = Apply(snapshot, ev)
      /\ missing \in [Logs -> Nat]
      /\ read'["message_log"] = i + 1 /\ read'["event_log"] = k /\ read' \in [Logs -> Nat]
  <2>1. read'["message_log"] = i + 1 /\ read'["event_log"] = k /\ read' \in [Logs -> Nat]
    <3>1. read' = [read EXCEPT !["message_log"] = @ + 1]
      BY DEF ReadMessage
    <3>2. QED
      BY <3>1 DEF TypeOK, Logs
  <2>2. QED
    BY <2>1 DEF TypeOK, ReadMessage
<1>0. ev \in MessageLines /\ snapshot \in Snapshots /\ snapshot' = Apply(snapshot, ev)
  BY <1>1, <1>3
<1> HIDE DEF i, k
<1>4. Expects(msgs, i, n) /\ n \in Nat
  BY <1>3, SnapshotType DEF SequenceInv, i
<1>5. GapAt(msgs, i + 1) <=> Derived(snapshot, ev)
  <2>1. GapAt(msgs, i + 1) <=> Sequenced(ev) /\ n # 0 /\ ev.seq > n
    BY <1>1, <1>4, GapIff
  <2>2. QED
    BY <2>1 DEF Derived
<1>6. GapSize(snapshot, ev) = IF Derived(snapshot, ev) THEN 2 ELSE 0
  <2>1. GapSize(snapshot, ev) = IF Derived(snapshot, ev) THEN ev.seq - n ELSE 0
    BY <1>0, ApplyMessage
  <2>2. CASE Derived(snapshot, ev)
    <3>1. ev.seq = n + 2
      BY <1>1, <1>4, <1>5, <2>2, GapIsTwo DEF SequenceInv
    <3>2. QED
      BY <1>4, <2>1, <2>2, <3>1
  <2>3. QED
    BY <2>1, <2>2
<1>7. /\ missing' \in [Logs -> Nat]
      /\ missing'["event_log"] = missing["event_log"]
      /\ missing'["message_log"] = missing["message_log"] + IF Derived(snapshot, ev) THEN 2 ELSE 0
  BY <1>3, <1>6 DEF ReadMessage, Logs
<1>8. TypeOK'
  <2>1. snapshot' \in Snapshots
    BY <1>0, ApplyMessage
  <2>2. read' \in [Logs -> Nat] /\ \A l \in Logs : read'[l] <= Len(log'[l])
    BY <1>1, <1>2, <1>3 DEF Logs, msgs, evts
  <2>3. QED
    BY <1>7, <2>1, <2>2 DEF TypeOK
<1>9. LinesInv'
  BY <1>2 DEF LinesInv
<1>10. WrittenInv'
  BY <1>2 DEF WrittenInv
<1>11. SequenceInv'
  <2>1. Expects(msgs, i + 1, IF Sequenced(ev) THEN ev.seq + 1 ELSE n)
    BY <1>1, <1>4, ExpectsNext
  <2>2. snapshot'.next_expected_in = IF Sequenced(ev) THEN ev.seq + 1 ELSE n
    BY <1>0, ApplyMessage
  <2>3. Expects(msgs', read'["message_log"], snapshot'.next_expected_in)
    BY <1>2, <1>3, <2>1, <2>2
  <2>4. QED
    BY <1>2, <2>3 DEF SequenceInv
<1>12. CountedInv'
  <2>1. Cardinality(GapLines(msgs, i + 1)) =
          Cardinality(GapLines(msgs, i)) + IF Derived(snapshot, ev) THEN 1 ELSE 0
    BY <1>1, <1>5, GapLinesNext
  <2>2. /\ snapshot'.count["seq_gaps"] =
             snapshot.count["seq_gaps"] + IF Derived(snapshot, ev) THEN 1 ELSE 0
        /\ snapshot'.count["seq_gaps_reported"] = snapshot.count["seq_gaps_reported"]
        /\ snapshot'.count["disconnects"] = snapshot.count["disconnects"]
        /\ snapshot'.count["logon_rejects"] = snapshot.count["logon_rejects"]
    BY <1>0, ApplyMessage
  <2>3. snapshot'.count["seq_gaps"] = Cardinality(GapLines(msgs, i + 1))
    BY <2>1, <2>2 DEF CountedInv, i
  <2>4. missing'["message_log"] = 2 * snapshot'.count["seq_gaps"]
    <3>1. missing["message_log"] = 2 * snapshot.count["seq_gaps"] /\ snapshot.count["seq_gaps"] \in Nat
      BY <1>3, SnapshotType DEF CountedInv
    <3>2. QED
      BY <1>7, <2>2, <3>1
  <2>5. /\ snapshot'.count["seq_gaps_reported"] = Cardinality(Told(evts, "SeqNumTooHigh", k))
        /\ missing'["event_log"] = 2 * snapshot'.count["seq_gaps_reported"]
        /\ snapshot'.count["disconnects"] = Cardinality(Told(evts, "Disconnected", k))
        /\ snapshot'.count["logon_rejects"] = Cardinality(Told(evts, "LogonRejected", k))
    BY <1>7, <2>2 DEF CountedInv, k
  <2>6. QED
    BY <1>2, <1>3, <2>3, <2>4, <2>5 DEF CountedInv
<1>13. QED
  BY <1>8, <1>9, <1>10, <1>11, <1>12

\* Applying an event keeps the counters those of the lines read.
LEMMA ReadEventCounted ==
  ASSUME TypeOK, LinesInv, SequenceInv, WrittenInv, CountedInv,
         UNCHANGED <<LINK, IN_SEQ, OUT_SEQ, HEARD, COUNT, log, now, kept_up>>,
         NEW ev, ReadEvent(ev)
  PROVE  TypeOK' /\ LinesInv' /\ SequenceInv' /\ WrittenInv' /\ CountedInv'
<1> DEFINE i == read["message_log"]  k == read["event_log"]
<1>1. /\ Len(msgs) \in Nat /\ Len(evts) \in Nat
      /\ i \in 0 .. Len(msgs) /\ k \in 0 .. Len(evts) - 1 /\ k \in Nat
      /\ ev = evts[k + 1] /\ ev \in EventLines
  BY TypesOfLogs DEF ReadEvent
<1>2. msgs' = msgs /\ evts' = evts
  BY DEF msgs, evts
<1>3. /\ snapshot \in Snapshots /\ snapshot' = Apply(snapshot, ev)
      /\ missing \in [Logs -> Nat]
      /\ read'["message_log"] = i /\ read'["event_log"] = k + 1 /\ read' \in [Logs -> Nat]
  <2>1. read'["message_log"] = i /\ read'["event_log"] = k + 1 /\ read' \in [Logs -> Nat]
    <3>1. read' = [read EXCEPT !["event_log"] = @ + 1]
      BY DEF ReadEvent
    <3>2. QED
      BY <3>1 DEF TypeOK, Logs
  <2>2. QED
    BY <2>1 DEF TypeOK, ReadEvent
<1> HIDE DEF i, k
<1>4. GapSize(snapshot, ev) = IF ev.type = "SeqNumTooHigh" THEN 2 ELSE 0
  <2>1. GapSize(snapshot, ev) =
          IF ev.type = "SeqNumTooHigh" /\ ev.expected # 0 /\ ev.received > ev.expected
          THEN ev.received - ev.expected ELSE 0
    BY <1>1, <1>3, ApplyEvent
  <2>2. ev.type = "SeqNumTooHigh" => ev.expected # 0 /\ ev.received = ev.expected + 2
    BY <1>1 DEF LinesInv
  <2>3. ev.expected \in Nat
    BY <1>1, EventType
  <2>4. QED
    BY <2>1, <2>2, <2>3
<1>5. /\ missing' \in [Logs -> Nat]
      /\ missing'["message_log"] = missing["message_log"]
      /\ missing'["event_log"] = missing["event_log"] + IF ev.type = "SeqNumTooHigh" THEN 2 ELSE 0
  BY <1>3, <1>4 DEF ReadEvent, Logs
<1>6. TypeOK'
  <2>1. snapshot' \in Snapshots
    BY <1>1, <1>3, ApplyEvent
  <2>2. read' \in [Logs -> Nat] /\ \A l \in Logs : read'[l] <= Len(log'[l])
    BY <1>1, <1>2, <1>3 DEF Logs, msgs, evts
  <2>3. QED
    BY <1>5, <2>1, <2>2 DEF TypeOK
<1>7. LinesInv'
  BY <1>2 DEF LinesInv
<1>8. WrittenInv'
  BY <1>2 DEF WrittenInv
<1>9. SequenceInv'
  <2>1. snapshot'.next_expected_in = snapshot.next_expected_in
    BY <1>1, <1>3, ApplyEvent
  <2>2. Expects(msgs', read'["message_log"], snapshot'.next_expected_in)
    BY <1>2, <1>3, <2>1 DEF SequenceInv, i
  <2>3. QED
    BY <1>2, <2>2 DEF SequenceInv
<1>10. CountedInv'
  <2>1. \A type : Cardinality(Told(evts, type, k + 1)) =
                    Cardinality(Told(evts, type, k)) + IF ev.type = type THEN 1 ELSE 0
    BY <1>1, ToldNext
  <2>2. /\ snapshot'.count["seq_gaps"] = snapshot.count["seq_gaps"]
        /\ snapshot'.count["seq_gaps_reported"] =
             snapshot.count["seq_gaps_reported"] + IF ev.type = "SeqNumTooHigh" THEN 1 ELSE 0
        /\ snapshot'.count["disconnects"] =
             snapshot.count["disconnects"] + IF ev.type = "Disconnected" THEN 1 ELSE 0
        /\ snapshot'.count["logon_rejects"] =
             snapshot.count["logon_rejects"] + IF ev.type = "LogonRejected" THEN 1 ELSE 0
    BY <1>1, <1>3, ApplyEvent
  <2>3. /\ snapshot'.count["seq_gaps_reported"] = Cardinality(Told(evts, "SeqNumTooHigh", k + 1))
        /\ snapshot'.count["disconnects"] = Cardinality(Told(evts, "Disconnected", k + 1))
        /\ snapshot'.count["logon_rejects"] = Cardinality(Told(evts, "LogonRejected", k + 1))
    BY <2>1, <2>2 DEF CountedInv, k
  <2>4. missing'["event_log"] = 2 * snapshot'.count["seq_gaps_reported"]
    <3>1. /\ missing["event_log"] = 2 * snapshot.count["seq_gaps_reported"]
          /\ snapshot.count["seq_gaps_reported"] \in Nat
      BY <1>3, SnapshotType DEF CountedInv
    <3>2. QED
      BY <1>5, <2>2, <3>1
  <2>5. /\ snapshot'.count["seq_gaps"] = Cardinality(GapLines(msgs, i))
        /\ missing'["message_log"] = 2 * snapshot'.count["seq_gaps"]
    BY <1>5, <2>2 DEF CountedInv, i
  <2>6. QED
    BY <1>2, <1>3, <2>3, <2>4, <2>5 DEF CountedInv
<1>11. QED
  BY <1>6, <1>7, <1>8, <1>9, <1>10


-----------------------------------------------------------------------------
(* The link state: the lines that are not read. *)

\* The lines not read, by their places.
LEMMA UnreadIs ==
  /\ \A ev : ev \in Unread("message_log") <=>
       \E i \in read["message_log"] + 1 .. Len(msgs) : ev = msgs[i]
  /\ \A ev : ev \in Unread("event_log") <=>
       \E i \in read["event_log"] + 1 .. Len(evts) : ev = evts[i]
BY Zenon DEF Unread, msgs, evts

\* The collector has caught up when it has read both logs to their ends.
LEMMA CaughtUpIs ==
  ASSUME Attached = Logs
  PROVE  CaughtUp <=> read["message_log"] = Len(msgs) /\ read["event_log"] = Len(evts)
BY DEF CaughtUp, Logs, msgs, evts

\* Then there is no line it has not read.
LEMMA NothingUnread ==
  ASSUME Attached = Logs, TypeOK, LinesInv, CaughtUp
  PROVE  (\A ev : ev \notin Unread("message_log")) /\ (\A ev : ev \notin Unread("event_log"))
<1>1. /\ read["message_log"] = Len(msgs) /\ read["event_log"] = Len(evts)
      /\ Len(msgs) \in Nat /\ Len(evts) \in Nat
  BY CaughtUpIs, TypesOfLogs
<1>2. /\ \A i : i \notin read["message_log"] + 1 .. Len(msgs)
      /\ \A i : i \notin read["event_log"] + 1 .. Len(evts)
  BY <1>1
<1>3. QED
  BY <1>2, UnreadIs

\* What is appended to a sequence that was read to its end is what is not read of it.
LEMMA AppendedUnread ==
  ASSUME NEW S, NEW s \in Seq(S), NEW x \in Seq(S), NEW i
  PROVE  /\ Len(s \o x) = Len(s) + Len(x)
         /\ i \in Len(s) + 1 .. Len(s \o x) => i - Len(s) \in 1 .. Len(x) /\ (s \o x)[i] = x[i - Len(s)]
         /\ i \in 1 .. Len(x) => Len(s) + i \in Len(s) + 1 .. Len(s \o x) /\ (s \o x)[Len(s) + i] = x[i]
<1>1. /\ Len(s \o x) = Len(s) + Len(x) /\ Len(s) \in Nat /\ Len(x) \in Nat
      /\ \A j \in 1 .. Len(s) + Len(x) :
           (s \o x)[j] = IF j <= Len(s) THEN s[j] ELSE x[j - Len(s)]
  BY ConcatProperties, LenProperties
<1>2. ASSUME i \in Len(s) + 1 .. Len(s \o x)
      PROVE  i - Len(s) \in 1 .. Len(x) /\ (s \o x)[i] = x[i - Len(s)]
  BY <1>1, <1>2
<1>3. ASSUME i \in 1 .. Len(x)
      PROVE  Len(s) + i \in Len(s) + 1 .. Len(s \o x) /\ (s \o x)[Len(s) + i] = x[i]
  <2> DEFINE j == Len(s) + i
  <2>1. /\ j \in Len(s) + 1 .. Len(s \o x) /\ j \in 1 .. Len(s) + Len(x)
        /\ j - Len(s) = i /\ ~(j <= Len(s))
    BY <1>1, <1>3
  <2> HIDE DEF j
  <2>2. (s \o x)[j] = x[i]
    BY <1>1, <2>1
  <2>3. QED
    BY <2>1, <2>2 DEF j
<1>4. QED
  BY <1>1, <1>2, <1>3

\* As long as the collector keeps up, the lines the engine writes are those it
\* has not read.
LEMMA FreshLines ==
  ASSUME Attached = Logs, TypeOK, LinesInv, NEW ms \in Seq(MessageLines),
         NEW es \in Seq(EventLines), Len(ms) > 0 \/ Len(es) > 0, Write(ms, es), kept_up'
  PROVE  /\ kept_up /\ CaughtUp /\ ~CaughtUp'
         /\ \A ev \in Unread("message_log")' : \E i \in 1 .. Len(ms) : ev = ms[i]
         /\ \A ev \in Unread("event_log")' : \E i \in 1 .. Len(es) : ev = es[i]
         /\ \A i \in 1 .. Len(ms) : ms[i] \in Unread("message_log")'
         /\ Len(es) > 0 => Len(evts') > 0 /\ evts'[Len(evts')] = es[Len(es)]
<1>1. /\ msgs' = msgs \o ms /\ evts' = evts \o es /\ kept_up /\ CaughtUp /\ read' = read
  BY WriteOutcome
<1>2. /\ msgs \in Seq(MessageLines) /\ evts \in Seq(EventLines)
      /\ Len(msgs) \in Nat /\ Len(evts) \in Nat /\ Len(ms) \in Nat /\ Len(es) \in Nat
  BY TypesOfLogs, LenProperties
<1>3. read'["message_log"] = Len(msgs) /\ read'["event_log"] = Len(evts)
  BY <1>1, CaughtUpIs
<1>4. Len(msgs') = Len(msgs) + Len(ms) /\ Len(evts') = Len(evts) + Len(es)
  BY <1>1, <1>2, AppendedUnread
<1>5. (CaughtUp <=> read["message_log"] = Len(msgs) /\ read["event_log"] = Len(evts))'
  BY CaughtUpIs, Zenon DEF CaughtUp, Logs, msgs, evts
<1>6. ~CaughtUp'
  BY <1>2, <1>3, <1>4, <1>5
<1>7. /\ \A ev : ev \in Unread("message_log")' <=>
           \E i \in read'["message_log"] + 1 .. Len(msgs') : ev = msgs'[i]
      /\ \A ev : ev \in Unread("event_log")' <=>
           \E i \in read'["event_log"] + 1 .. Len(evts') : ev = evts'[i]
  BY Zenon DEF Unread, msgs, evts
<1>8. ASSUME NEW ev \in Unread("message_log")'
      PROVE  \E i \in 1 .. Len(ms) : ev = ms[i]
  <2>1. PICK i \in Len(msgs) + 1 .. Len(msgs') : ev = msgs'[i]
    BY <1>3, <1>7
  <2>2. i - Len(msgs) \in 1 .. Len(ms) /\ ev = ms[i - Len(msgs)]
    BY <1>1, <1>2, <2>1, AppendedUnread
  <2>3. QED
    BY <2>2
<1>9. ASSUME NEW ev \in Unread("event_log")'
      PROVE  \E i \in 1 .. Len(es) : ev = es[i]
  <2>1. PICK i \in Len(evts) + 1 .. Len(evts') : ev = evts'[i]
    BY <1>3, <1>7
  <2>2. i - Len(evts) \in 1 .. Len(es) /\ ev = es[i - Len(evts)]
    BY <1>1, <1>2, <2>1, AppendedUnread
  <2>3. QED
    BY <2>2
<1>10. ASSUME NEW i \in 1 .. Len(ms)
       PROVE  ms[i] \in Unread("message_log")'
  <2>1. Len(msgs) + i \in Len(msgs) + 1 .. Len(msgs') /\ msgs'[Len(msgs) + i] = ms[i]
    BY <1>1, <1>2, AppendedUnread
  <2>2. QED
    BY <1>3, <1>7, <2>1
<1>11. ASSUME Len(es) > 0
       PROVE  Len(evts') > 0 /\ evts'[Len(evts')] = es[Len(es)]
  <2>1. Len(es) \in 1 .. Len(es) /\ Len(evts') > 0
    BY <1>2, <1>4, <1>11
  <2>2. evts'[Len(evts) + Len(es)] = es[Len(es)]
    BY <1>1, <1>2, <2>1, AppendedUnread
  <2>3. QED
    BY <1>4, <2>1, <2>2
<1>12. QED
  BY <1>1, <1>6, <1>8, <1>9, <1>10, <1>11

\* The sequences that the engine writes.
LEMMA ShortSequences ==
  /\ \A S : << >> \in Seq(S) /\ Len(<< >>) = 0
  /\ \A S : \A x \in S : <<x>> \in Seq(S) /\ Len(<<x>>) = 1 /\ <<x>>[1] = x
  /\ \A S : \A x, y \in S :
       <<x, y>> \in Seq(S) /\ Len(<<x, y>>) = 2 /\ <<x, y>>[1] = x /\ <<x, y>>[2] = y
<1>1. \A S : << >> \in Seq(S) /\ Len(<< >>) = 0
  BY EmptySeq
<1>2. ASSUME NEW S, NEW x \in S
      PROVE  <<x>> \in Seq(S) /\ Len(<<x>>) = 1 /\ <<x>>[1] = x
  OBVIOUS
<1>3. ASSUME NEW S, NEW x \in S, NEW y \in S
      PROVE  <<x, y>> \in Seq(S) /\ Len(<<x, y>>) = 2 /\ <<x, y>>[1] = x /\ <<x, y>>[2] = y
  OBVIOUS
<1>4. QED
  BY <1>1, <1>2, <1>3

\* A step of the engine that ends with ms and es as the lines not read, if the
\* collector keeps up.
Fresh(ms, es) ==
  kept_up' =>
    /\ kept_up /\ CaughtUp /\ ~CaughtUp' /\ snapshot' = snapshot
    /\ \A ev \in Unread("message_log")' : \E i \in 1 .. Len(ms) : ev = ms[i]
    /\ \A ev \in Unread("event_log")' : \E i \in 1 .. Len(es) : ev = es[i]
    /\ \A i \in 1 .. Len(ms) : ms[i] \in Unread("message_log")'
    /\ Len(es) > 0 => Len(evts') > 0 /\ evts'[Len(evts')] = es[Len(es)]

\* Every Write is such a step.
LEMMA WriteFresh ==
  ASSUME Attached = Logs, TypeOK, LinesInv, NEW ms \in Seq(MessageLines),
         NEW es \in Seq(EventLines), Len(ms) > 0 \/ Len(es) > 0, Write(ms, es)
  PROVE  Fresh(ms, es)
<1>1. ASSUME kept_up'
      PROVE  /\ kept_up /\ CaughtUp /\ ~CaughtUp'
             /\ \A ev \in Unread("message_log")' : \E i \in 1 .. Len(ms) : ev = ms[i]
             /\ \A ev \in Unread("event_log")' : \E i \in 1 .. Len(es) : ev = es[i]
             /\ \A i \in 1 .. Len(ms) : ms[i] \in Unread("message_log")'
             /\ Len(es) > 0 => Len(evts') > 0 /\ evts'[Len(evts')] = es[Len(es)]
  BY <1>1, FreshLines
<1>2. snapshot' = snapshot
  BY WriteOutcome
<1>3. QED
  BY <1>1, <1>2, Zenon DEF Fresh

\* The four statements about the link state after a step of the engine.
LinkInv == DownInv /\ LogonInv /\ UpInv /\ HeardInv

\* If the collector does not keep up, there is little to say.
LEMMA BehindLink ==
  ASSUME ~kept_up', LINK' = "up" => HEARD' # 0
  PROVE  LinkInv'
BY DEF LinkInv, DownInv, LogonInv, UpInv, HeardInv

\* The time of the last message stays known.
LEMMA HeardFresh ==
  ASSUME HeardInv, Attached = Logs, TypeOK, LinesInv, NEW ms \in Seq(MessageLines), NEW es,
         Fresh(ms, es), LINK' = "up" => HEARD' # 0,
         \/ HEARD' = HEARD /\ \A i \in 1 .. Len(ms) : ~Incoming(ms[i])
         \/ /\ \E i \in 1 .. Len(ms) : Incoming(ms[i])
            /\ \A i \in 1 .. Len(ms) : Incoming(ms[i]) => ms[i].ts = HEARD'
  PROVE  HeardInv'
<1> SUFFICES ASSUME kept_up'
             PROVE  /\ \A ev \in Unread("message_log")' : Incoming(ev) => ev.ts = HEARD'
                    /\ \/ snapshot'.last_incoming_ts = HEARD'
                       \/ \E ev \in Unread("message_log")' : Incoming(ev)
  BY DEF HeardInv, Incoming
<1>1. /\ kept_up /\ CaughtUp /\ snapshot' = snapshot
      /\ \A ev \in Unread("message_log")' : \E i \in 1 .. Len(ms) : ev = ms[i]
      /\ \A i \in 1 .. Len(ms) : ms[i] \in Unread("message_log")'
  BY DEF Fresh
<1>2. CASE HEARD' = HEARD /\ \A i \in 1 .. Len(ms) : ~Incoming(ms[i])
  <2>1. snapshot.last_incoming_ts = HEARD
    BY <1>1, NothingUnread DEF HeardInv
  <2>2. QED
    BY <1>1, <1>2, <2>1
<1>3. CASE /\ \E i \in 1 .. Len(ms) : Incoming(ms[i])
           /\ \A i \in 1 .. Len(ms) : Incoming(ms[i]) => ms[i].ts = HEARD'
  BY <1>1, <1>3
<1>4. QED
  BY <1>2, <1>3

\* A logon is requested: the session is down, and all of its past is read.
LEMMA RequestLogonLink ==
  ASSUME Attached = Logs, TypeOK, LinesInv, SequenceInv, LinkInv, RequestLogon
  PROVE  LinkInv'
<1> DEFINE x == Out("A", OUT_SEQ)
           c == IF OUT_SEQ = 1 THEN "Connecting" ELSE "ReconnectAttempt"
           y == Event(c)  z == Event("LogonSent")
<1>1. /\ Write(<<x>>, <<y, z>>) /\ LINK = "down" /\ LINK' = "logon" /\ HEARD' = HEARD
      /\ c \in {"Connecting", "ReconnectAttempt"}
  BY DEF RequestLogon
<1> HIDE DEF c
<1>2. /\ x \in MessageLines /\ x.type = "A" /\ x.direction = "out" /\ ~Incoming(x)
      /\ y \in EventLines /\ y.type = c /\ z \in EventLines /\ z.type = "LogonSent"
  BY <1>1, NewLines DEF Incoming
<1> HIDE DEF x, y, z
<1> DEFINE ms == <<x>>  es == <<y, z>>
<1>3. /\ ms \in Seq(MessageLines) /\ Len(ms) = 1 /\ ms[1] = x
      /\ es \in Seq(EventLines) /\ Len(es) = 2 /\ es[1] = y /\ es[2] = z
  BY <1>2, ShortSequences
<1>4. Write(ms, es)
  BY <1>1
<1> HIDE DEF ms, es
<1>5. Fresh(ms, es)
  BY <1>3, <1>4, WriteFresh
<1>6. HeardInv'
  BY <1>1, <1>2, <1>3, <1>5, HeardFresh DEF LinkInv
<1>7. CASE kept_up'
  <2>1. /\ kept_up /\ CaughtUp /\ ~CaughtUp' /\ snapshot' = snapshot
        /\ \A ev \in Unread("message_log")' : ev = x
        /\ \A ev \in Unread("event_log")' : ev = y \/ ev = z
        /\ Len(evts') > 0 /\ evts'[Len(evts')] = z
    BY <1>3, <1>5, <1>7 DEF Fresh
  <2>2. snapshot'.state \in {"unknown", "disconnected"}
    BY <1>1, <2>1 DEF LinkInv, DownInv
  <2>3. LogonInv'
    BY <1>1, <1>2, <2>1, <2>2 DEF LogonInv
  <2>4. QED
    BY <1>1, <1>6, <2>3 DEF LinkInv, DownInv, UpInv
<1>8. CASE ~kept_up'
  BY <1>1, <1>8, BehindLink
<1>9. QED
  BY <1>7, <1>8

\* A logon is accepted: the session is pending, and the answer is on both logs.
LEMMA AcceptLogonLink ==
  ASSUME Attached = Logs, TypeOK, LinesInv, SequenceInv, LinkInv, AcceptLogon
  PROVE  LinkInv'
<1>1. PICK seq \in {IN_SEQ, 1} : Write(<<In("A", seq)>>, <<Event("LogonReceived")>>)
  BY DEF AcceptLogon
<1> DEFINE x == In("A", seq)  y == Event("LogonReceived")
<1>2. LINK = "logon" /\ LINK' = "up" /\ HEARD' = now /\ now # 0
  BY TypesOfLogs DEF AcceptLogon
<1>3. /\ x \in MessageLines /\ x.type = "A" /\ x.direction = "in" /\ x.ts = now /\ Incoming(x)
      /\ y \in EventLines /\ y.type = "LogonReceived"
  BY NewLines DEF Sequenced
<1>4. Write(<<x>>, <<y>>)
  BY <1>1
<1> HIDE DEF x, y
<1> DEFINE ms == <<x>>  es == <<y>>
<1>5. /\ ms \in Seq(MessageLines) /\ Len(ms) = 1 /\ ms[1] = x
      /\ es \in Seq(EventLines) /\ Len(es) = 1 /\ es[1] = y
  BY <1>3, ShortSequences
<1>6. Write(ms, es)
  BY <1>4
<1> HIDE DEF ms, es
<1>7. Fresh(ms, es)
  BY <1>5, <1>6, WriteFresh
<1>8. HeardInv'
  BY <1>2, <1>3, <1>5, <1>7, HeardFresh DEF LinkInv
<1>9. CASE kept_up'
  <2>1. /\ kept_up /\ CaughtUp /\ ~CaughtUp' /\ snapshot' = snapshot
        /\ \A ev \in Unread("message_log")' : ev = x
        /\ \A ev \in Unread("event_log")' : ev = y
    BY <1>5, <1>7, <1>9 DEF Fresh
  <2>2. snapshot'.state = "logon_pending"
    BY <1>2, <2>1 DEF LinkInv, LogonInv
  <2>3. UpInv'
    BY <1>2, <1>3, <2>1, <2>2 DEF UpInv
  <2>4. QED
    BY <1>2, <1>8, <2>3 DEF LinkInv, DownInv, LogonInv
<1>10. CASE ~kept_up'
  BY <1>2, <1>10, BehindLink
<1>11. QED
  BY <1>9, <1>10

\* A logon is refused: whichever answer is read leads down.
LEMMA RefuseLogonLink ==
  ASSUME Attached = Logs, TypeOK, LinesInv, SequenceInv, LinkInv, RefuseLogon
  PROVE  LinkInv'
<1> DEFINE x == In("5", IN_SEQ)  y == Event("LogonRejected")
<1>1. Write(<<x>>, <<y>>) /\ LINK = "logon" /\ LINK' = "down" /\ HEARD' = now
  BY DEF RefuseLogon
<1>2. /\ x \in MessageLines /\ x.type = "5" /\ x.ts = now /\ Incoming(x)
      /\ y \in EventLines /\ y.type = "LogonRejected"
  BY NewLines DEF Sequenced
<1> HIDE DEF x, y
<1> DEFINE ms == <<x>>  es == <<y>>
<1>3. /\ ms \in Seq(MessageLines) /\ Len(ms) = 1 /\ ms[1] = x
      /\ es \in Seq(EventLines) /\ Len(es) = 1 /\ es[1] = y
  BY <1>2, ShortSequences
<1>4. Write(ms, es)
  BY <1>1
<1> HIDE DEF ms, es
<1>5. Fresh(ms, es)
  BY <1>3, <1>4, WriteFresh
<1>6. HeardInv'
  BY <1>1, <1>2, <1>3, <1>5, HeardFresh DEF LinkInv
<1>7. CASE kept_up'
  <2>1. /\ ~CaughtUp'
        /\ \A ev \in Unread("message_log")' : ev = x
        /\ \A ev \in Unread("event_log")' : ev = y
    BY <1>3, <1>5, <1>7 DEF Fresh
  <2>2. DownInv'
    BY <1>2, <2>1 DEF DownInv
  <2>3. QED
    BY <1>1, <1>6, <2>2 DEF LinkInv, LogonInv, UpInv
<1>8. CASE ~kept_up'
  BY <1>1, <1>8, BehindLink
<1>9. QED
  BY <1>7, <1>8

\* The connection breaks: whichever line is read leads down.
LEMMA DisconnectLink ==
  ASSUME Attached = Logs, TypeOK, LinesInv, SequenceInv, LinkInv, Disconnect
  PROVE  LinkInv'
<1> DEFINE x == Out("5", OUT_SEQ)  y == Event("Disconnected")
<1>1. /\ Write(<< >>, <<y>>) \/ Write(<<x>>, <<y>>)
      /\ LINK' = "down" /\ HEARD' = HEARD
  BY DEF Disconnect
<1>2. /\ x \in MessageLines /\ x.type = "5" /\ ~Incoming(x)
      /\ y \in EventLines /\ y.type = "Disconnected"
  BY NewLines DEF Incoming
<1> HIDE DEF x, y
<1> DEFINE es == <<y>>
<1>3. PICK ms \in {<< >>, <<x>>} : Write(ms, es)
  BY <1>1
<1>4. /\ ms \in Seq(MessageLines) /\ \A i \in 1 .. Len(ms) : ms[i] = x
      /\ es \in Seq(EventLines) /\ Len(es) = 1 /\ es[1] = y
  <2>1. es \in Seq(EventLines) /\ Len(es) = 1 /\ es[1] = y
    BY <1>2, ShortSequences
  <2>2. CASE ms = << >>
    BY <2>1, <2>2, ShortSequences
  <2>3. CASE ms = <<x>>
    <3>1. ms \in Seq(MessageLines) /\ Len(ms) = 1 /\ ms[1] = x
      BY <1>2, <2>3, ShortSequences
    <3>2. QED
      BY <2>1, <3>1
  <2>4. QED
    BY <1>3, <2>2, <2>3
<1> HIDE DEF es
<1>5. Fresh(ms, es)
  BY <1>3, <1>4, WriteFresh
<1>6. HeardInv'
  BY <1>1, <1>2, <1>4, <1>5, HeardFresh DEF LinkInv
<1>7. CASE kept_up'
  <2>1. /\ ~CaughtUp'
        /\ \A ev \in Unread("message_log")' : ev = x
        /\ \A ev \in Unread("event_log")' : ev = y
    BY <1>4, <1>5, <1>7 DEF Fresh
  <2>2. DownInv'
    BY <1>2, <2>1 DEF DownInv
  <2>3. QED
    BY <1>1, <1>6, <2>2 DEF LinkInv, LogonInv, UpInv
<1>8. CASE ~kept_up'
  BY <1>1, <1>8, BehindLink
<1>9. QED
  BY <1>7, <1>8

\* A step of a session that stays up: the lines have nothing to do with a logon.
LEMMA UpLink ==
  ASSUME Attached = Logs, TypeOK, LinesInv, SequenceInv, LinkInv,
         LINK = "up", LINK' = "up", HEARD' = now,
         NEW ms \in Seq(MessageLines), NEW es \in Seq(EventLines), Len(ms) > 0, Write(ms, es),
         \A i \in 1 .. Len(ms) :
           ms[i].type \in {"8", "2"} /\ (Incoming(ms[i]) => ms[i].ts = now),
         Incoming(ms[1]),
         \A i \in 1 .. Len(es) : es[i].type \in {"SeqNumTooHigh", "ResendRequested"}
  PROVE  LinkInv'
<1>1. Fresh(ms, es)
  BY WriteFresh
<1>2. now # 0 /\ 1 \in 1 .. Len(ms)
  BY TypesOfLogs, LenProperties
<1>3. HeardInv'
  BY <1>1, <1>2, HeardFresh DEF LinkInv
<1>4. CASE kept_up'
  <2>1. /\ kept_up /\ CaughtUp /\ snapshot' = snapshot
        /\ \A ev \in Unread("message_log")' : ev.type \in {"8", "2"}
        /\ \A ev \in Unread("event_log")' : ev.type \in {"SeqNumTooHigh", "ResendRequested"}
    BY <1>1, <1>4 DEF Fresh
  <2>2. snapshot'.state \in {"logged_on", "stale"}
    BY <2>1 DEF LinkInv, UpInv
  <2>3. UpInv'
    BY <2>1, <2>2 DEF UpInv
  <2>4. QED
    BY <1>3, <2>3 DEF LinkInv, DownInv, LogonInv
<1>5. CASE ~kept_up'
  BY <1>2, <1>5, BehindLink
<1>6. QED
  BY <1>4, <1>5

\* Traffic does not touch the link state.
LEMMA TrafficLink ==
  ASSUME Attached = Logs, TypeOK, LinesInv, SequenceInv, LinkInv, Traffic
  PROVE  LinkInv'
<1> DEFINE x == In("8", IN_SEQ)  ms == <<x>>  es == << >>
<1>1. Write(ms, es) /\ LINK = "up" /\ LINK' = "up" /\ HEARD' = now
  BY DEF Traffic
<1>2. x \in MessageLines /\ x.type = "8" /\ x.ts = now /\ Incoming(x)
  BY NewLines DEF Sequenced
<1> HIDE DEF x
<1>3. /\ ms \in Seq(MessageLines) /\ Len(ms) = 1 /\ ms[1] = x
      /\ es \in Seq(EventLines) /\ Len(es) = 0
  BY <1>2, ShortSequences
<1> HIDE DEF ms, es
<1>4. /\ \A i \in 1 .. Len(ms) :
           ms[i].type \in {"8", "2"} /\ (Incoming(ms[i]) => ms[i].ts = now)
      /\ \A i \in 1 .. Len(es) : es[i].type \in {"SeqNumTooHigh", "ResendRequested"}
      /\ Incoming(ms[1]) /\ Len(ms) > 0
  BY <1>2, <1>3
<1>5. QED
  BY <1>1, <1>3, <1>4, UpLink

\* Nor does a gap.
LEMMA GapLink ==
  ASSUME Attached = Logs, TypeOK, LinesInv, SequenceInv, LinkInv, Gap
  PROVE  LinkInv'
<1> DEFINE x == In("8", IN_SEQ + 2)  y == Out("2", OUT_SEQ)
           g == SessionEvent("SeqNumTooHigh", IN_SEQ, IN_SEQ + 2, now)
           h == Event("ResendRequested")
           ms == <<x, y>>  es == <<g, h>>
<1>1. Write(ms, es) /\ LINK = "up" /\ LINK' = "up" /\ HEARD' = now
  BY DEF Gap
<1>2. /\ x \in MessageLines /\ x.type = "8" /\ x.ts = now /\ Incoming(x)
      /\ y \in MessageLines /\ y.type = "2" /\ ~Incoming(y)
      /\ g \in EventLines /\ g.type = "SeqNumTooHigh"
      /\ h \in EventLines /\ h.type = "ResendRequested"
  <2>1. /\ IN_SEQ \in Nat \ {0} /\ OUT_SEQ \in Nat \ {0}
        /\ IN_SEQ + 2 \in Nat \ {0} /\ IN_SEQ \in Nat /\ IN_SEQ + 2 \in Nat
    BY NewLines
  <2>2. /\ x \in MessageLines /\ x.type = "8" /\ x.ts = now /\ Sequenced(x)
        /\ y \in MessageLines /\ y.type = "2" /\ y.direction = "out"
    BY <2>1, NewLines
  <2>3. /\ g \in EventLines /\ g.type = "SeqNumTooHigh"
        /\ h \in EventLines /\ h.type = "ResendRequested"
    BY <2>1, NewLines
  <2> HIDE DEF x, y, g, h
  <2>4. Incoming(x) /\ ~Incoming(y)
    BY <2>2, MessageType DEF Sequenced
  <2>5. QED
    BY <2>2, <2>3, <2>4
<1> HIDE DEF x, y, g, h
<1>3. /\ ms \in Seq(MessageLines) /\ Len(ms) = 2 /\ ms[1] = x /\ ms[2] = y
      /\ es \in Seq(EventLines) /\ Len(es) = 2 /\ es[1] = g /\ es[2] = h
  BY <1>2, ShortSequences
<1> HIDE DEF ms, es
<1>4. /\ \A i \in 1 .. Len(ms) :
           ms[i].type \in {"8", "2"} /\ (Incoming(ms[i]) => ms[i].ts = now)
      /\ \A i \in 1 .. Len(es) : es[i].type \in {"SeqNumTooHigh", "ResendRequested"}
      /\ Incoming(ms[1]) /\ Len(ms) > 0
  BY <1>2, <1>3
<1>5. QED
  BY <1>1, <1>3, <1>4, UpLink

\* Nor does a message sent again.
LEMMA ResendLink ==
  ASSUME Attached = Logs, TypeOK, LinesInv, SequenceInv, LinkInv, Resend
  PROVE  LinkInv'
<1> DEFINE x == Resent(IN_SEQ - 2)  ms == <<x>>  es == << >>
<1>1. /\ Write(ms, es) /\ LINK = "up" /\ LINK' = "up" /\ HEARD' = now
      /\ IN_SEQ - 2 \in Nat \ {0}
  BY NewLines DEF Resend
<1>2. x \in MessageLines /\ x.type = "8" /\ x.ts = now /\ Incoming(x)
  BY <1>1, NewLines, MessageType
<1> HIDE DEF x
<1>3. /\ ms \in Seq(MessageLines) /\ Len(ms) = 1 /\ ms[1] = x
      /\ es \in Seq(EventLines) /\ Len(es) = 0
  BY <1>2, ShortSequences
<1> HIDE DEF ms, es
<1>4. /\ \A i \in 1 .. Len(ms) :
           ms[i].type \in {"8", "2"} /\ (Incoming(ms[i]) => ms[i].ts = now)
      /\ \A i \in 1 .. Len(es) : es[i].type \in {"SeqNumTooHigh", "ResendRequested"}
      /\ Incoming(ms[1]) /\ Len(ms) > 0
  BY <1>2, <1>3
<1>5. QED
  BY <1>1, <1>3, <1>4, UpLink

\* Every step of the engine keeps the link state.
LEMMA EngineLink ==
  ASSUME Attached = Logs, TypeOK, LinesInv, SequenceInv, LinkInv, EngineStep
  PROVE  LinkInv'
BY RequestLogonLink, AcceptLogonLink, RefuseLogonLink, TrafficLink, GapLink, ResendLink,
   DisconnectLink DEF EngineStep

-----------------------------------------------------------------------------
(* The link state: the pipeline reads a line. *)

\* The lines not read after the next message or event was.
LEMMA MessageRead ==
  ASSUME TypeOK, LinesInv, NEW ev, ReadMessage(ev), log' = log
  PROVE  /\ ev \in Unread("message_log")
         /\ \A x \in Unread("message_log")' : x \in Unread("message_log")
         /\ \A x \in Unread("message_log") : x = ev \/ x \in Unread("message_log")'
         /\ \A x : x \in Unread("event_log")' <=> x \in Unread("event_log")
<1> DEFINE i == read["message_log"]  k == read["event_log"]
<1>1. /\ i \in 0 .. Len(msgs) - 1 /\ Len(msgs) \in Nat /\ ev = msgs[i + 1]
      /\ read'["message_log"] = i + 1 /\ read'["event_log"] = k
  BY TypesOfLogs DEF ReadMessage, TypeOK, Logs
<1>2. msgs' = msgs /\ evts' = evts
  BY DEF msgs, evts
<1>3. /\ \A x : x \in Unread("message_log")' <=>
           \E j \in read'["message_log"] + 1 .. Len(msgs') : x = msgs'[j]
      /\ \A x : x \in Unread("event_log")' <=>
           \E j \in read'["event_log"] + 1 .. Len(evts') : x = evts'[j]
  BY Zenon DEF Unread, msgs, evts
<1> HIDE DEF i, k
<1>4. \A x : x \in Unread("message_log") <=> \E j \in i + 1 .. Len(msgs) : x = msgs[j]
  BY UnreadIs DEF i
<1>5. \A x : x \in Unread("message_log")' <=> \E j \in i + 2 .. Len(msgs) : x = msgs[j]
  BY <1>1, <1>2, <1>3
<1>6. \A j : j \in i + 1 .. Len(msgs) <=> j = i + 1 \/ j \in i + 2 .. Len(msgs)
  BY <1>1
<1>7. \A x : x \in Unread("event_log")' <=> x \in Unread("event_log")
  BY <1>1, <1>2, <1>3, UnreadIs DEF k
<1>8. QED
  BY <1>1, <1>4, <1>5, <1>6, <1>7

\* The same, for the next event.
LEMMA EventRead ==
  ASSUME TypeOK, LinesInv, NEW ev, ReadEvent(ev), log' = log
  PROVE  /\ ev \in Unread("event_log")
         /\ \A x \in Unread("event_log")' : x \in Unread("event_log")
         /\ \A x : x \in Unread("message_log")' <=> x \in Unread("message_log")
<1> DEFINE i == read["message_log"]  k == read["event_log"]
<1>1. /\ k \in 0 .. Len(evts) - 1 /\ Len(evts) \in Nat /\ ev = evts[k + 1]
      /\ read'["message_log"] = i /\ read'["event_log"] = k + 1
  BY TypesOfLogs DEF ReadEvent, TypeOK, Logs
<1>2. msgs' = msgs /\ evts' = evts
  BY DEF msgs, evts
<1>3. /\ \A x : x \in Unread("message_log")' <=>
           \E j \in read'["message_log"] + 1 .. Len(msgs') : x = msgs'[j]
      /\ \A x : x \in Unread("event_log")' <=>
           \E j \in read'["event_log"] + 1 .. Len(evts') : x = evts'[j]
  BY Zenon DEF Unread, msgs, evts
<1> HIDE DEF i, k
<1>4. \A x : x \in Unread("event_log") <=> \E j \in k + 1 .. Len(evts) : x = evts[j]
  BY UnreadIs DEF k
<1>5. \A x : x \in Unread("event_log")' <=> \E j \in k + 2 .. Len(evts) : x = evts[j]
  BY <1>1, <1>2, <1>3
<1>6. \A j : j \in k + 1 .. Len(evts) <=> j = k + 1 \/ j \in k + 2 .. Len(evts)
  BY <1>1
<1>7. \A x : x \in Unread("message_log")' <=> x \in Unread("message_log")
  BY <1>1, <1>2, <1>3, UnreadIs DEF i
<1>8. QED
  BY <1>1, <1>4, <1>5, <1>6, <1>7

\* Applying a message keeps what is known of the link state.
LEMMA ReadMessageLink ==
  ASSUME Attached = Logs, TypeOK, LinesInv, LinkInv,
         UNCHANGED <<LINK, IN_SEQ, OUT_SEQ, HEARD, COUNT, log, now, kept_up>>,
         NEW ev, ReadMessage(ev)
  PROVE  LinkInv'
<1>1. ev \in MessageLines /\ snapshot \in Snapshots /\ snapshot' = Apply(snapshot, ev)
  BY DEF ReadMessage, TypeOK
<1>2. /\ snapshot'.last_incoming_ts = IF Incoming(ev) THEN ev.ts ELSE snapshot.last_incoming_ts
      /\ ev.type = "5" => snapshot'.state = "disconnected"
      /\ ev.type = "A" /\ ev.direction = "in" => snapshot'.state = "logged_on"
      /\ ev.type = "A" /\ ev.direction = "out" /\ snapshot.state # "logged_on" =>
           snapshot'.state = "logon_pending"
      /\ ev.type \in {"8", "2"} => snapshot'.state = snapshot.state
  BY <1>1, ApplyMessage
<1>3. /\ ev \in Unread("message_log")
      /\ \A x \in Unread("message_log")' : x \in Unread("message_log")
      /\ \A x \in Unread("message_log") : x = ev \/ x \in Unread("message_log")'
      /\ \A x : x \in Unread("event_log")' <=> x \in Unread("event_log")
  BY MessageRead
<1>4. LINK' = LINK /\ HEARD' = HEARD /\ kept_up' = kept_up /\ evts' = evts
  BY DEF evts
<1>5. DownInv'
  <2> SUFFICES ASSUME kept_up, LINK = "down"
               PROVE  /\ \A x \in Unread("message_log")' : x.type = "5"
                      /\ \A x \in Unread("event_log")' : x.type \in {"LogonRejected", "Disconnected"}
                      /\ snapshot'.state \in {"unknown", "disconnected"}
    BY <1>4 DEF DownInv
  <2>1. QED
    BY <1>2, <1>3 DEF LinkInv, DownInv
<1>6. LogonInv'
  <2> SUFFICES ASSUME kept_up, LINK = "logon"
               PROVE  /\ snapshot'.state = "logon_pending"
                      /\ \A x \in Unread("message_log")' : x.type = "A" /\ x.direction = "out"
                      /\ \A x \in Unread("event_log")' :
                           x.type \in {"Connecting", "ReconnectAttempt", "LogonSent"}
                      /\ Len(evts) > 0 /\ evts[Len(evts)].type = "LogonSent"
    BY <1>4 DEF LogonInv
  <2>1. QED
    BY <1>2, <1>3 DEF LinkInv, LogonInv
<1>7. UpInv'
  <2> SUFFICES ASSUME kept_up, LINK = "up"
               PROVE  /\ snapshot'.state \in {"logged_on", "stale"}
                      /\ \A x \in Unread("message_log")' :
                           x.type \in {"A", "8", "2"} /\ (x.type = "A" => x.direction = "in")
                      /\ \A x \in Unread("event_log")' :
                           x.type \in {"LogonReceived", "SeqNumTooHigh", "ResendRequested"}
    BY <1>4 DEF UpInv
  <2>1. QED
    BY <1>2, <1>3 DEF LinkInv, UpInv
<1>8. HeardInv'
  <2> SUFFICES ASSUME kept_up
               PROVE  /\ \A x \in Unread("message_log")' : Incoming(x) => x.ts = HEARD
                      /\ \/ snapshot'.last_incoming_ts = HEARD
                         \/ \E x \in Unread("message_log")' : Incoming(x)
    BY <1>4 DEF LinkInv, HeardInv, Incoming
  <2>1. CASE Incoming(ev)
    BY <1>2, <1>3, <2>1 DEF LinkInv, HeardInv
  <2>2. CASE ~Incoming(ev)
    BY <1>2, <1>3, <2>2 DEF LinkInv, HeardInv
  <2>3. QED
    BY <2>1, <2>2
<1>9. QED
  BY <1>5, <1>6, <1>7, <1>8 DEF LinkInv

\* Applying an event keeps what is known of the link state.
LEMMA ReadEventLink ==
  ASSUME Attached = Logs, TypeOK, LinesInv, LinkInv,
         UNCHANGED <<LINK, IN_SEQ, OUT_SEQ, HEARD, COUNT, log, now, kept_up>>,
         NEW ev, ReadEvent(ev)
  PROVE  LinkInv'
<1>1. ev \in EventLines /\ snapshot \in Snapshots /\ snapshot' = Apply(snapshot, ev)
  BY DEF ReadEvent, TypeOK
<1>2. /\ snapshot'.last_incoming_ts = snapshot.last_incoming_ts
      /\ snapshot'.state = StateAfter(snapshot, ev)
  BY <1>1, ApplyEvent
<1>3. /\ ev.type \in {"Connecting", "ReconnectAttempt"} => snapshot'.state = "connecting"
      /\ ev.type = "LogonSent" => snapshot'.state = "logon_pending"
      /\ ev.type = "LogonReceived" => snapshot'.state = "logged_on"
      /\ ev.type \in {"LogonRejected", "Disconnected"} => snapshot'.state = "disconnected"
      /\ ev.type \in {"SeqNumTooHigh", "ResendRequested"} => snapshot'.state = snapshot.state
  BY <1>1, <1>2, StateOfLine
<1>4. /\ ev \in Unread("event_log")
      /\ \A x \in Unread("event_log")' : x \in Unread("event_log")
      /\ \A x : x \in Unread("message_log")' <=> x \in Unread("message_log")
  BY EventRead
<1>5. LINK' = LINK /\ HEARD' = HEARD /\ kept_up' = kept_up /\ evts' = evts
  BY DEF evts
<1>6. DownInv'
  <2> SUFFICES ASSUME kept_up, LINK = "down"
               PROVE  /\ \A x \in Unread("message_log")' : x.type = "5"
                      /\ \A x \in Unread("event_log")' : x.type \in {"LogonRejected", "Disconnected"}
                      /\ snapshot'.state \in {"unknown", "disconnected"}
    BY <1>5 DEF DownInv
  <2>1. QED
    BY <1>3, <1>4 DEF LinkInv, DownInv
<1>7. LogonInv'
  <2> SUFFICES ASSUME kept_up, LINK = "logon"
               PROVE  /\ snapshot'.state \in {"connecting", "logon_pending"}
                      /\ \A x \in Unread("message_log")' : x.type = "A" /\ x.direction = "out"
                      /\ \A x \in Unread("event_log")' :
                           x.type \in {"Connecting", "ReconnectAttempt", "LogonSent"}
                      /\ Len(evts) > 0 /\ evts[Len(evts)].type = "LogonSent"
                      /\ CaughtUp' => snapshot'.state = "logon_pending"
    BY <1>5 DEF LogonInv
  <2>1. ASSUME CaughtUp'
        PROVE  ev = evts[Len(evts)]
    <3>1. read'["event_log"] = Len(evts')
      BY <2>1 DEF CaughtUp, Logs, evts
    <3>2. read'["event_log"] = read["event_log"] + 1
      BY DEF ReadEvent, TypeOK, Logs
    <3>3. QED
      BY <1>5, <3>1, <3>2 DEF ReadEvent
  <2>2. QED
    BY <1>3, <1>4, <2>1 DEF LinkInv, LogonInv
<1>8. UpInv'
  <2> SUFFICES ASSUME kept_up, LINK = "up"
               PROVE  /\ snapshot'.state \in {"logged_on", "stale"}
                      /\ \A x \in Unread("message_log")' :
                           x.type \in {"A", "8", "2"} /\ (x.type = "A" => x.direction = "in")
                      /\ \A x \in Unread("event_log")' :
                           x.type \in {"LogonReceived", "SeqNumTooHigh", "ResendRequested"}
    BY <1>5 DEF UpInv
  <2>1. QED
    BY <1>3, <1>4 DEF LinkInv, UpInv
<1>9. HeardInv'
  <2> SUFFICES ASSUME kept_up
               PROVE  /\ \A x \in Unread("message_log")' : Incoming(x) => x.ts = HEARD
                      /\ \/ snapshot'.last_incoming_ts = HEARD
                         \/ \E x \in Unread("message_log")' : Incoming(x)
    BY <1>5 DEF LinkInv, HeardInv, Incoming
  <2>1. QED
    BY <1>2, <1>4 DEF LinkInv, HeardInv
<1>10. QED
  BY <1>6, <1>7, <1>8, <1>9 DEF LinkInv

-----------------------------------------------------------------------------
(* The inductive invariant. *)

\* It holds before the first line is written.
LEMMA InvInit == Init => IInv
<1> SUFFICES ASSUME Init
             PROVE  IInv
  OBVIOUS
<1>1. /\ LINK = "down" /\ IN_SEQ = 1 /\ OUT_SEQ = 1 /\ HEARD = 0 /\ now = 1
      /\ log = [l \in Logs |-> << >>] /\ read = [l \in Logs |-> 0]
      /\ COUNT = [c \in {"gaps", "missing", "disconnects", "refused"} |-> 0]
      /\ snapshot = Registered(HeartBtInt) /\ missing = [l \in Logs |-> 0]
      /\ kept_up = TRUE
  BY DEF Init
<1>2. /\ msgs = << >> /\ evts = << >>
      /\ read["message_log"] = 0 /\ read["event_log"] = 0
      /\ missing["message_log"] = 0 /\ missing["event_log"] = 0
  BY <1>1 DEF msgs, evts, Logs
<1>3. /\ snapshot \in Snapshots /\ snapshot.state = "unknown"
      /\ snapshot.next_expected_in = 0 /\ snapshot.last_incoming_ts = 0
      /\ snapshot.count["seq_gaps"] = 0 /\ snapshot.count["seq_gaps_reported"] = 0
      /\ snapshot.count["disconnects"] = 0 /\ snapshot.count["logon_rejects"] = 0
  <2>1. HeartBtInt \in Nat
    BY TrackingAssumption
  <2>2. QED
    BY <1>1, <2>1 DEF Registered, Snapshots, LinkStates, Counters
<1>4. Len(msgs) = 0 /\ Len(evts) = 0
  BY <1>2, EmptySeq
<1>5. TypeOK
  <2>1. \A l \in Logs : read[l] <= Len(log[l])
    BY <1>1
  <2>2. read \in [Logs -> Nat] /\ missing \in [Logs -> Nat]
    BY <1>1
  <2>3. COUNT \in [{"gaps", "missing", "disconnects", "refused"} -> Nat]
    BY <1>1
  <2>4. now \in 1 .. MaxNow /\ HEARD \in 0 .. now
    BY <1>1, TrackingAssumption
  <2>5. QED
    BY <1>1, <1>3, <2>1, <2>2, <2>3, <2>4 DEF TypeOK
<1>6. LinesInv
  <2>1. msgs \in Seq(MessageLines) /\ evts \in Seq(EventLines)
    BY <1>2, EmptySeq
  <2>2. log = [l \in Logs |-> log[l]]
    BY <1>1
  <2>3. QED
    BY <1>4, <2>1, <2>2 DEF LinesInv
<1>7. \A i : i \notin 1 .. 0
  OBVIOUS
<1>8. SequenceInv
  BY <1>1, <1>2, <1>3, <1>4, <1>7 DEF SequenceInv, Expects, TwoMissing
<1>9. GapLines(msgs, 0) = {} /\ \A type : Told(evts, type, 0) = {}
  BY <1>7 DEF GapLines, Told
<1>10. Cardinality({}) = 0
  BY FS_EmptySet
<1>11. WrittenInv
  <2>1. /\ COUNT["gaps"] = 0 /\ COUNT["missing"] = 0
        /\ COUNT["disconnects"] = 0 /\ COUNT["refused"] = 0 /\ 2 * 0 = 0
    BY <1>1
  <2>2. /\ Cardinality(GapLines(msgs, 0)) = 0
        /\ \A type : Cardinality(Told(evts, type, 0)) = 0
    BY <1>9, <1>10
  <2>3. QED
    BY <1>4, <2>1, <2>2 DEF WrittenInv
<1>12. CountedInv
  <2>1. /\ Cardinality(GapLines(msgs, 0)) = 0
        /\ \A type : Cardinality(Told(evts, type, 0)) = 0
    BY <1>9, <1>10
  <2>2. QED
    BY <1>2, <1>3, <2>1 DEF CountedInv
<1>13. \A ev : ev \notin Unread("message_log") /\ ev \notin Unread("event_log")
  BY <1>2, <1>4, <1>7, UnreadIs
<1>14. DownInv /\ LogonInv /\ UpInv /\ HeardInv
  BY <1>1, <1>3, <1>13 DEF DownInv, LogonInv, UpInv, HeardInv
<1>15. QED
  BY <1>5, <1>6, <1>8, <1>11, <1>12, <1>14 DEF IInv

\* Time goes by, or nothing happens.
LEMMA InvTick ==
  ASSUME IInv, UNCHANGED <<engineVars, collectorVars, kept_up>>,
         now' = now \/ (now < MaxNow /\ now' = now + 1)
  PROVE  IInv'
<1>1. /\ LINK' = LINK /\ IN_SEQ' = IN_SEQ /\ OUT_SEQ' = OUT_SEQ /\ HEARD' = HEARD
      /\ COUNT' = COUNT /\ log' = log /\ read' = read /\ snapshot' = snapshot
      /\ missing' = missing /\ kept_up' = kept_up
  BY DEF engineVars, collectorVars
<1>2. HEARD \in 0 .. now' /\ now' \in 1 .. MaxNow
  BY TrackingAssumption DEF IInv, TypeOK
<1>3. TypeOK'
  BY <1>1, <1>2 DEF IInv, TypeOK
<1>4. /\ msgs' = msgs /\ evts' = evts /\ CaughtUp' = CaughtUp
      /\ Unread("message_log")' = Unread("message_log")
      /\ Unread("event_log")' = Unread("event_log")
  BY <1>1 DEF msgs, evts, CaughtUp, Unread
<1>5. LinesInv' /\ SequenceInv' /\ WrittenInv' /\ CountedInv'
  BY <1>1, <1>4 DEF IInv, LinesInv, SequenceInv, WrittenInv, CountedInv
<1>6. DownInv' /\ LogonInv' /\ UpInv' /\ HeardInv'
  BY <1>1, <1>4 DEF IInv, DownInv, LogonInv, UpInv, HeardInv
<1>7. QED
  BY <1>3, <1>5, <1>6 DEF IInv

\* The staleness check.
LEMMA InvEvaluate ==
  ASSUME IInv, EvaluateStaleness
  PROVE  IInv'
<1>1. /\ LINK' = LINK /\ IN_SEQ' = IN_SEQ /\ OUT_SEQ' = OUT_SEQ /\ HEARD' = HEARD
      /\ COUNT' = COUNT /\ log' = log /\ read' = read /\ now' = now
      /\ missing' = missing /\ kept_up' = kept_up
      /\ snapshot \in Snapshots /\ snapshot' = Evaluated(snapshot, now)
  BY DEF EvaluateStaleness, engineVars, IInv, TypeOK
<1>2. /\ snapshot' \in Snapshots
      /\ snapshot.state \in {"logged_on", "stale"} => snapshot'.state \in {"logged_on", "stale"}
      /\ snapshot.state \notin {"logged_on", "stale"} => snapshot' = snapshot
      /\ snapshot'.last_incoming_ts = snapshot.last_incoming_ts
      /\ snapshot'.next_expected_in = snapshot.next_expected_in
      /\ snapshot'.count = snapshot.count
  BY <1>1, EvaluatedOutcome
<1>3. TypeOK'
  BY <1>1, <1>2 DEF IInv, TypeOK
<1>4. /\ msgs' = msgs /\ evts' = evts /\ CaughtUp' = CaughtUp
      /\ Unread("message_log")' = Unread("message_log")
      /\ Unread("event_log")' = Unread("event_log")
  BY <1>1 DEF msgs, evts, CaughtUp, Unread
<1>5. LinesInv' /\ SequenceInv' /\ WrittenInv' /\ CountedInv'
  BY <1>1, <1>2, <1>4 DEF IInv, LinesInv, SequenceInv, WrittenInv, CountedInv
<1>6. DownInv' /\ LogonInv' /\ UpInv' /\ HeardInv'
  BY <1>1, <1>2, <1>4 DEF IInv, DownInv, LogonInv, UpInv, HeardInv
<1>7. QED
  BY <1>3, <1>5, <1>6 DEF IInv

\* Every step keeps it, if both logs are read.
LEMMA InvStep ==
  ASSUME Attached = Logs, IInv, [Next]_vars
  PROVE  IInv'
<1>1. /\ TypeOK /\ LinesInv /\ SequenceInv /\ WrittenInv /\ CountedInv /\ LinkInv
  BY DEF IInv, LinkInv
<1>2. TypeOK' /\ LinesInv' /\ SequenceInv' /\ WrittenInv' /\ CountedInv' /\ LinkInv' => IInv'
  BY DEF IInv, LinkInv
<1>3. CASE EngineStep
  BY <1>1, <1>2, <1>3, BooksKeep, EngineLink
<1>4. CASE Tick
  BY <1>4, InvTick DEF Tick
<1>5. CASE \E l \in Logs : ApplyNext(l)
  <2>1. /\ UNCHANGED <<LINK, IN_SEQ, OUT_SEQ, HEARD, COUNT, log, now, kept_up>>
        /\ \/ \E ev : ReadMessage(ev)
           \/ \E ev : ReadEvent(ev)
    BY <1>1, <1>5, ApplyOutcome
  <2>2. ASSUME NEW ev, ReadMessage(ev)
        PROVE  IInv'
    BY <1>1, <1>2, <2>1, <2>2, ReadMessageCounted, ReadMessageLink
  <2>3. ASSUME NEW ev, ReadEvent(ev)
        PROVE  IInv'
    BY <1>1, <1>2, <2>1, <2>3, ReadEventCounted, ReadEventLink
  <2>4. QED
    BY <2>1, <2>2, <2>3
<1>6. CASE EvaluateStaleness
  BY <1>6, InvEvaluate
<1>7. CASE UNCHANGED vars
  <2>1. UNCHANGED <<engineVars, collectorVars, kept_up>> /\ now' = now
    BY <1>7 DEF vars
  <2>2. QED
    BY <2>1, InvTick
<1>8. QED
  BY <1>3, <1>4, <1>5, <1>6, <1>7 DEF Next

(***************************************************************************)
(* With both logs read, whatever the engine does and in whatever order the *)
(* lines of the two logs are applied, the record is what the invariant     *)
(* says.  An adapter for one log alone is not enough: the counters of the  *)
(* other one stay behind, and so would the link state.                     *)
(***************************************************************************)
THEOREM Invariance ==
  ASSUME Attached = Logs
  PROVE  Spec => []IInv
<1>1. Init => IInv
  BY InvInit
<1>2. IInv /\ [Next]_vars => IInv'
  BY InvStep
<1>3. QED
  BY <1>1, <1>2, PTL DEF Spec

-----------------------------------------------------------------------------
(* What follows from it. *)

(***************************************************************************)
(* Once all that was written has been applied, the link state in the       *)
(* registry is the engine's, provided the collector had read both logs     *)
(* whenever the engine wrote (session_state.cpp, SessionRegistry::apply).  *)
(***************************************************************************)
THEOREM StateInStep ==
  ASSUME Attached = Logs
  PROVE  Spec => []InStepStateFollows
<1>1. IInv => InStepStateFollows
  <2> SUFFICES ASSUME IInv, kept_up, CaughtUp
               PROVE  CASE LINK = "down"  -> snapshot.state \in {"unknown", "disconnected"}
                        [] LINK = "logon" -> snapshot.state = "logon_pending"
                        [] LINK = "up"    -> snapshot.state \in {"logged_on", "stale"}
    BY DEF InStepStateFollows, StateFollowsEngine
  <2>1. LINK \in {"down", "logon", "up"}
    BY DEF IInv, TypeOK
  <2>2. LINK = "down" => snapshot.state \in {"unknown", "disconnected"}
    BY DEF IInv, DownInv
  <2>3. LINK = "logon" => snapshot.state = "logon_pending"
    BY DEF IInv, LogonInv
  <2>4. LINK = "up" => snapshot.state \in {"logged_on", "stale"}
    BY DEF IInv, UpInv
  <2>5. QED
    BY <2>1, <2>2, <2>3, <2>4
<1>2. QED
  BY <1>1, Invariance, PTL

(***************************************************************************)
(* Once all that was written has been applied, the gaps derived from the   *)
(* messages, the gaps the engine narrates and the gaps that happened are   *)
(* as many, both gap counters hold all missing messages, and no disconnect *)
(* or refused logon is counted twice or not at all: in whatever order the  *)
(* two logs were read, and whether or not the collector kept up.           *)
(***************************************************************************)
THEOREM CountersMeet ==
  ASSUME Attached = Logs
  PROVE  Spec => []CountersAgree
<1>1. IInv => CountersAgree
  <2> SUFFICES ASSUME IInv, CaughtUp
               PROVE  /\ snapshot.count["seq_gaps"] = COUNT["gaps"]
                      /\ snapshot.count["seq_gaps_reported"] = COUNT["gaps"]
                      /\ missing = [l \in Logs |-> COUNT["missing"]]
                      /\ snapshot.count["disconnects"] = COUNT["disconnects"]
                      /\ snapshot.count["logon_rejects"] = COUNT["refused"]
    BY DEF CountersAgree
  <2>1. read["message_log"] = Len(msgs) /\ read["event_log"] = Len(evts)
    BY CaughtUpIs
  <2>2. /\ snapshot.count["seq_gaps"] = COUNT["gaps"]
        /\ snapshot.count["seq_gaps_reported"] = COUNT["gaps"]
        /\ snapshot.count["disconnects"] = COUNT["disconnects"]
        /\ snapshot.count["logon_rejects"] = COUNT["refused"]
        /\ missing["message_log"] = COUNT["missing"] /\ missing["event_log"] = COUNT["missing"]
    BY <2>1 DEF IInv, CountedInv, WrittenInv
  <2>3. missing = [l \in Logs |-> COUNT["missing"]]
    BY <2>2 DEF IInv, TypeOK, Logs
  <2>4. QED
    BY <2>2, <2>3
<1>2. QED
  BY <1>1, Invariance, PTL

(***************************************************************************)
(* The staleness check calls a session that is up stale exactly when the   *)
(* engine has heard nothing for longer than the tolerance                  *)
(* (SessionRegistry::evaluate_staleness).                                  *)
(***************************************************************************)
THEOREM StaleIsSilent ==
  ASSUME Attached = Logs
  PROVE  Spec => []StaleMeansSilent
<1>1. IInv => StaleMeansSilent
  <2> SUFFICES ASSUME IInv, kept_up, CaughtUp, LINK = "up"
               PROVE  Evaluated(snapshot, now).state = "stale" <=>
                        now - HEARD > Tolerance(snapshot)
    BY DEF StaleMeansSilent
  <2>1. snapshot.last_incoming_ts = HEARD /\ HEARD # 0
    BY NothingUnread DEF IInv, HeardInv
  <2>2. snapshot \in Snapshots /\ snapshot.state \in {"logged_on", "stale"}
    BY DEF IInv, TypeOK, UpInv
  <2>3. LastHeard(snapshot) = HEARD
    BY <2>1 DEF LastHeard
  <2>4. Evaluated(snapshot, now) =
          [snapshot EXCEPT !.state =
             IF now - HEARD > Tolerance(snapshot) THEN "stale" ELSE "logged_on"]
    BY <2>1, <2>2, <2>3 DEF Evaluated
  <2>5. Evaluated(snapshot, now).state =
          IF now - HEARD > Tolerance(snapshot) THEN "stale" ELSE "logged_on"
    BY <2>2, <2>4 DEF Snapshots
  <2>6. QED
    BY <2>5
<1>2. QED
  BY <1>1, Invariance, PTL

=============================================================================
