-------------------------- MODULE SessionTrackingInv --------------------------
(***************************************************************************)
(* The inductive invariant of SessionTracking: what the lines that were    *)
(* applied have left in the record, and what those not read yet will do to *)
(* it.  SessionTrackingProofs proves it for any bounds, given that both    *)
(* logs are read.                                                          *)
(***************************************************************************)
EXTENDS SessionTracking, FiniteSets

msgs == log["message_log"]
evts == log["event_log"]

Unread(l) == {log[l][i] : i \in read[l] + 1 .. Len(log[l])}

\* The lines the engine writes.  A gap it tells of misses two messages.
MessageLines ==
  [class : {"message"}, type : {"A", "5", "8", "2"}, direction : {"in", "out"},
   seq : Nat \ {0}, dup : BOOLEAN, ts : Nat \ {0}]

EventLines ==
  [class : {"event"},
   type : {"Connecting", "ReconnectAttempt", "LogonSent", "LogonReceived", "LogonRejected",
           "Disconnected", "SeqNumTooHigh", "ResendRequested"},
   expected : Nat, received : Nat, ts : Nat \ {0}]

LinesInv ==
  /\ log = [l \in Logs |-> log[l]]
  /\ msgs \in Seq(MessageLines) /\ evts \in Seq(EventLines)
  /\ \A i \in 1 .. Len(evts) :
       evts[i].type = "SeqNumTooHigh" => evts[i].expected # 0 /\ evts[i].received = evts[i].expected + 2

-----------------------------------------------------------------------------
(* Gaps.  s is a log of messages. *)

\* The j-th message is the last of the first i that has a number to go by.
LastOf(s, i, j) ==
  /\ Sequenced(s[j])
  /\ \A k \in j + 1 .. i : ~Sequenced(s[k])

\* n is the sequence number expected after the first i messages, 0 as long as
\* there was none to go by.
Expects(s, i, n) ==
  \/ n = 0 /\ \A j \in 1 .. i : ~Sequenced(s[j])
  \/ \E j \in 1 .. i : LastOf(s, i, j) /\ n = s[j].seq + 1

\* The i-th message comes later than the one expected.
GapAt(s, i) ==
  /\ Sequenced(s[i])
  /\ \E j \in 1 .. i - 1 : LastOf(s, i - 1, j) /\ s[i].seq > s[j].seq + 1

\* Where there is a gap, two messages are missing.
TwoMissing(s) ==
  \A i \in 1 .. Len(s) : \A j \in 1 .. i - 1 :
    Sequenced(s[i]) /\ LastOf(s, i - 1, j) /\ s[i].seq > s[j].seq + 1 =>
      s[i].seq = s[j].seq + 3

GapLines(s, n) == {i \in 1 .. n : GapAt(s, i)}
Told(s, type, n) == {i \in 1 .. n : s[i].type = type}

\* What is expected after every line, and after those read.
SequenceInv ==
  /\ IN_SEQ >= 1 /\ OUT_SEQ >= 1 /\ (LINK = "up" => IN_SEQ > 1)
  /\ Expects(msgs, Len(msgs), IF IN_SEQ = 1 THEN 0 ELSE IN_SEQ)
  /\ Expects(msgs, read["message_log"], snapshot.next_expected_in)
  /\ TwoMissing(msgs)

\* The engine counts what is in its logs,
WrittenInv ==
  /\ COUNT["gaps"] = Cardinality(GapLines(msgs, Len(msgs)))
  /\ COUNT["gaps"] = Cardinality(Told(evts, "SeqNumTooHigh", Len(evts)))
  /\ COUNT["missing"] = 2 * COUNT["gaps"]
  /\ COUNT["disconnects"] = Cardinality(Told(evts, "Disconnected", Len(evts)))
  /\ COUNT["refused"] = Cardinality(Told(evts, "LogonRejected", Len(evts)))

\* the collector what it has read of them.
CountedInv ==
  LET i == read["message_log"]  k == read["event_log"] IN
  /\ snapshot.count["seq_gaps"] = Cardinality(GapLines(msgs, i))
  /\ snapshot.count["seq_gaps_reported"] = Cardinality(Told(evts, "SeqNumTooHigh", k))
  /\ missing["message_log"] = 2 * snapshot.count["seq_gaps"]
  /\ missing["event_log"] = 2 * snapshot.count["seq_gaps_reported"]
  /\ snapshot.count["disconnects"] = Cardinality(Told(evts, "Disconnected", k))
  /\ snapshot.count["logon_rejects"] = Cardinality(Told(evts, "LogonRejected", k))

-----------------------------------------------------------------------------
(* The link state.  As long as the collector keeps up, the lines not read    *)
(* are those of the engine's last action, in whatever order it reads them.   *)

DownInv ==
  kept_up /\ LINK = "down" =>
    /\ \A ev \in Unread("message_log") : ev.type = "5"
    /\ \A ev \in Unread("event_log") : ev.type \in {"LogonRejected", "Disconnected"}
    /\ CaughtUp => snapshot.state \in {"unknown", "disconnected"}

LogonInv ==
  kept_up /\ LINK = "logon" =>
    /\ snapshot.state \in {"unknown", "disconnected", "connecting", "logon_pending"}
    /\ \A ev \in Unread("message_log") : ev.type = "A" /\ ev.direction = "out"
    /\ \A ev \in Unread("event_log") : ev.type \in {"Connecting", "ReconnectAttempt", "LogonSent"}
    /\ Len(evts) > 0 /\ evts[Len(evts)].type = "LogonSent"
    /\ CaughtUp => snapshot.state = "logon_pending"

\* The logon is answered on both logs: while the session is still pending,
\* neither answer has been read.
UpInv ==
  kept_up /\ LINK = "up" =>
    /\ snapshot.state \in {"logged_on", "stale", "logon_pending"}
    /\ \A ev \in Unread("message_log") :
         ev.type \in {"A", "8", "2"} /\ (ev.type = "A" => ev.direction = "in")
    /\ \A ev \in Unread("event_log") :
         ev.type \in {"LogonReceived", "SeqNumTooHigh", "ResendRequested"}
    /\ snapshot.state = "logon_pending" =>
         /\ ~CaughtUp
         /\ \A ev \in Unread("message_log") : ev.type = "A"
         /\ \A ev \in Unread("event_log") : ev.type = "LogonReceived"

\* The time of the last inbound message is known, or that message is not read.
HeardInv ==
  /\ LINK = "up" => HEARD # 0
  /\ kept_up =>
       /\ \A ev \in Unread("message_log") : Incoming(ev) => ev.ts = HEARD
       /\ \/ snapshot.last_incoming_ts = HEARD
          \/ \E ev \in Unread("message_log") : Incoming(ev)

(***************************************************************************)
(* The parts together: the counters need the expected sequence number to   *)
(* be that of the lines read, not of the lines written; the link state     *)
(* needs to know which lines may still come from the other log.            *)
(***************************************************************************)
IInv ==
  /\ TypeOK
  /\ LinesInv
  /\ SequenceInv
  /\ WrittenInv
  /\ CountedInv
  /\ DownInv
  /\ LogonInv
  /\ UpInv
  /\ HeardInv

=============================================================================
