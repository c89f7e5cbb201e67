--------------------------- MODULE SessionRegistry ---------------------------
(***************************************************************************)
(* SessionRegistry (session_state.cpp): what one event does to the record  *)
(* of its session, and what the staleness check does to it.  The registry  *)
(* keeps one record per session id, no call touches a record of another    *)
(* session, and all calls that write come from the pipeline thread, so the *)
(* operators are about one record.                                         *)
(*                                                                         *)
(* The counters of a record are one function from their names; reasons and *)
(* reject texts are left out.  `type' of a message is tag 35, with "8r"    *)
(* for an ExecutionReport whose status is rejected; times are in seconds.  *)
(***************************************************************************)
EXTENDS Integers

CONSTANT stale_multiple  \* cfg.stale_after_multiple

ASSUME StaleMultipleAssumption == stale_multiple \in Nat \ {0}

LinkStates == {"unknown", "disconnected", "connecting", "logon_pending",
               "logged_on", "stale"}

Counters == {"msgs_in", "msgs_out", "seq_gaps", "seq_gaps_reported", "seq_too_low",
             "resend_requests", "heartbeat_timeouts", "disconnects",
             "reconnect_attempts", "logon_rejects", "session_rejects",
             "business_rejects", "exec_rejects"}

Snapshots ==
  [state : LinkStates, heartbeat_interval : Nat, next_expected_in : Nat,
   last_outgoing_seq : Nat, last_event_ts : Nat, last_incoming_ts : Nat,
   logon_ts : Nat, count : [Counters -> Nat]]

\* register_session: a heartbeat interval that is not positive becomes 30.
Registered(hb) ==
  [state |-> "unknown", heartbeat_interval |-> IF hb > 0 THEN hb ELSE 30,
   next_expected_in |-> 0, last_outgoing_seq |-> 0,
   last_event_ts |-> 0, last_incoming_ts |-> 0, logon_ts |-> 0,
   count |-> [c \in Counters |-> 0]]

-----------------------------------------------------------------------------
(* The two classes of events. *)

FixMessage(type, direction, seq, dup, ts) ==
  [class |-> "message", type |-> type, direction |-> direction,
   seq |-> seq, dup |-> dup, ts |-> ts]

SessionEvent(type, expected, received, ts) ==
  [class |-> "event", type |-> type,
   expected |-> expected, received |-> received, ts |-> ts]

Incoming(ev) == ev.class = "message" /\ ev.direction = "in"
Outgoing(ev) == ev.class = "message" /\ ev.direction = "out"

\* A message that takes part in gap detection.
Sequenced(ev) == Incoming(ev) /\ ~ev.dup /\ ev.seq > 0

\* Mutant of Derived: a message behind the expected number reveals a gap too.
Derived_AnyMismatch(s, ev) ==
  /\ Sequenced(ev)
  /\ s.next_expected_in # 0
  /\ ev.seq # s.next_expected_in

\* The message stream itself reveals a gap.
Derived(s, ev) ==
  /\ Sequenced(ev)
  /\ s.next_expected_in # 0
  /\ ev.seq > s.next_expected_in

\* What apply returns: the number of messages missing, as far as this event
\* tells.
GapSize(s, ev) ==
  CASE ev.class = "message" /\ Derived(s, ev) -> ev.seq - s.next_expected_in
    [] /\ ev.class = "event" /\ ev.type = "SeqNumTooHigh"
       /\ ev.expected # 0 /\ ev.received > ev.expected -> ev.received - ev.expected
    [] OTHER -> 0

-----------------------------------------------------------------------------
(* apply *)

\* The link state an engine event leads to; the other types leave it alone.
StateOfEvent ==
  [Connecting       |-> "connecting",
   ReconnectAttempt |-> "connecting",
   LogonSent        |-> "logon_pending",
   LogonReceived    |-> "logged_on",
   ConnectFailed    |-> "disconnected",
   LogonRejected    |-> "disconnected",
   LogoutSent       |-> "disconnected",
   LogoutReceived   |-> "disconnected",
   Disconnected     |-> "disconnected"]

CounterOfEvent ==
  [LogonRejected    |-> "logon_rejects",
   LogoutSent       |-> "disconnects",
   LogoutReceived   |-> "disconnects",
   Disconnected     |-> "disconnects",
   SeqNumTooLow     |-> "seq_too_low",
   SeqNumTooHigh    |-> "seq_gaps_reported",
   ResendRequested  |-> "resend_requests",
   HeartbeatTimeout |-> "heartbeat_timeouts",
   ReconnectAttempt |-> "reconnect_attempts"]

\* Mutant of StateAfter: an outgoing Logon takes a session down to pending
\* whatever its state, and an incoming one is not told apart from it.
StateAfter_AnyLogonPends(s, ev) ==
  IF ev.class = "event"
  THEN IF ev.type \in DOMAIN StateOfEvent THEN StateOfEvent[ev.type] ELSE s.state
  ELSE IF ev.type = "A" THEN "logon_pending"
  ELSE IF ev.type = "5" THEN "disconnected"
  ELSE s.state

StateAfter(s, ev) ==
  IF ev.class = "event"
  THEN IF ev.type \in DOMAIN StateOfEvent THEN StateOfEvent[ev.type] ELSE s.state
  ELSE CASE ev.type = "A" /\ Incoming(ev) -> "logged_on"
         [] ev.type = "A" /\ ~Incoming(ev) /\ s.state # "logged_on" -> "logon_pending"
         [] ev.type = "5" -> "disconnected"
         [] OTHER -> s.state

\* The counters an event adds one to.
Counted(s, ev) ==
  IF ev.class = "event"
  THEN {CounterOfEvent[t] : t \in {ev.type} \cap DOMAIN CounterOfEvent}
  ELSE {c \in Counters :
          \/ c = "msgs_in" /\ Incoming(ev)
          \/ c = "msgs_out" /\ Outgoing(ev)
          \/ c = "seq_gaps" /\ Derived(s, ev)
          \/ c = "session_rejects" /\ ev.type = "3"
          \/ c = "business_rejects" /\ ev.type = "j"
          \/ c = "resend_requests" /\ ev.type = "2" /\ Outgoing(ev)
          \/ c = "exec_rejects" /\ ev.type \in {"8r", "9"}}

LoggedOnBy(ev) ==
  \/ Incoming(ev) /\ ev.type = "A"
  \/ ev.class = "event" /\ ev.type = "LogonReceived"

Apply(s, ev) ==
  [s EXCEPT
     !.state = StateAfter(s, ev),
     !.last_event_ts = IF ev.ts > @ THEN ev.ts ELSE @,
     !.last_incoming_ts = IF Incoming(ev) THEN ev.ts ELSE @,
     !.logon_ts = IF LoggedOnBy(ev) THEN ev.ts ELSE @,
     !.next_expected_in = IF Sequenced(ev) THEN ev.seq + 1 ELSE @,
     !.last_outgoing_seq = IF Outgoing(ev) /\ ev.seq > @ THEN ev.seq ELSE @,
     !.count = [c \in Counters |-> @[c] + IF c \in Counted(s, ev) THEN 1 ELSE 0]]

-----------------------------------------------------------------------------
(* evaluate_staleness *)

Tolerance(s) == s.heartbeat_interval * stale_multiple

\* The time the session was last heard of: inbound traffic, or, if there never
\* was any, whatever line came last.
LastHeard(s) ==
  IF s.last_incoming_ts # 0 THEN s.last_incoming_ts ELSE s.last_event_ts

\* Mutant of Evaluated: a stale session never comes back.
Evaluated_NoRecovery(s, now) ==
  IF s.state \notin {"logged_on", "stale"} \/ LastHeard(s) = 0 THEN s
  ELSE IF now - LastHeard(s) > Tolerance(s) THEN [s EXCEPT !.state = "stale"] ELSE s

Evaluated(s, now) ==
  IF s.state \notin {"logged_on", "stale"} \/ LastHeard(s) = 0 THEN s
  ELSE [s EXCEPT !.state =
          IF now - LastHeard(s) > Tolerance(s) THEN "stale" ELSE "logged_on"]

=============================================================================
