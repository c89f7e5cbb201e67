--------------------------- MODULE SessionTracking ---------------------------
(***************************************************************************)
(* One FIX session, its two logs, and what the collector makes of them.    *)
(* The engine writes what tools/gen_logs.py writes: every action of it     *)
(* appends lines to one or to both logs.  Each log is read in its order    *)
(* (Collector!LogOrder), but nothing orders the lines of one log against   *)
(* those of the other: the two adapters poll on their own.                 *)
(*                                                                         *)
(* Variables with a name in capitals belong to the engine: the truth the   *)
(* collector has to reconstruct.                                           *)
(***************************************************************************)
EXTENDS SessionRegistry, Sequences

CONSTANTS
  Attached,     \* the logs that have an adapter: {"message_log", "event_log"}
  HeartBtInt,   \* the session's heartbeat interval
  MaxLines,     \* bound: lines in one log
  MaxNow        \* bound: the clock

Logs == {"message_log", "event_log"}

ASSUME TrackingAssumption ==
  /\ Attached \subseteq Logs
  /\ HeartBtInt \in Nat \ {0} /\ MaxLines \in Nat /\ MaxNow \in Nat \ {0}

VARIABLES
  LINK,       \* the engine's session: "down", "logon" or "up"
  IN_SEQ,     \* the next inbound sequence number of the counterparty
  OUT_SEQ,    \* the next outbound one
  HEARD,      \* when the engine last received a message, 0 if never
  COUNT,      \* what happened: gaps, missing messages, disconnects, refused logons
  log,        \* the lines of each log, as the events they parse to
  now,        \* the clock of the engine's host and of the collector's
  read,       \* how many lines of each log have been applied
  snapshot,   \* the session's record in the registry
  missing,    \* fixmon_seq_gap_messages_total, by source
  kept_up     \* history: the collector had applied every line before the next

engineVars    == <<LINK, IN_SEQ, OUT_SEQ, HEARD, COUNT, log>>
collectorVars == <<read, snapshot, missing>>
vars == <<engineVars, now, collectorVars, kept_up>>

CaughtUp == \A l \in Attached : read[l] = Len(log[l])

TypeOK ==
  /\ LINK \in {"down", "logon", "up"}
  /\ IN_SEQ \in Nat /\ OUT_SEQ \in Nat
  /\ HEARD \in 0 .. now
  /\ COUNT \in [{"gaps", "missing", "disconnects", "refused"} -> Nat]
  /\ read \in [Logs -> Nat] /\ \A l \in Logs : read[l] <= Len(log[l])
  /\ now \in 1 .. MaxNow
  /\ snapshot \in Snapshots
  /\ missing \in [Logs -> Nat]
  /\ kept_up \in BOOLEAN

Init ==
  /\ LINK = "down"
  /\ IN_SEQ = 1 /\ OUT_SEQ = 1
  /\ HEARD = 0
  /\ COUNT = [c \in {"gaps", "missing", "disconnects", "refused"} |-> 0]
  /\ log = [l \in Logs |-> << >>]
  /\ now = 1
  /\ read = [l \in Logs |-> 0]
  /\ snapshot = Registered(HeartBtInt)
  /\ missing = [l \in Logs |-> 0]
  /\ kept_up = TRUE

-----------------------------------------------------------------------------
(* The engine. *)

In(type, seq)  == FixMessage(type, "in", seq, FALSE, now)
Resent(seq)    == FixMessage("8", "in", seq, TRUE, now)
Out(type, seq) == FixMessage(type, "out", seq, FALSE, now)
Event(type)    == SessionEvent(type, 0, 0, now)

Write(messages, events) ==
  /\ log' = [log EXCEPT !["message_log"] = @ \o messages, !["event_log"] = @ \o events]
  /\ \A l \in Logs : Len(log'[l]) <= MaxLines
  /\ kept_up' = (kept_up /\ CaughtUp)
  /\ UNCHANGED <<now, collectorVars>>

Happened(what, n) == COUNT' = [COUNT EXCEPT ![what] = @ + n]

\* (Re)connect and request a logon.
RequestLogon ==
  /\ LINK = "down"
  /\ LINK' = "logon"
  /\ OUT_SEQ' = OUT_SEQ + 1
  /\ Write(<<Out("A", OUT_SEQ)>>,
           IF OUT_SEQ = 1 THEN <<Event("Connecting"), Event("LogonSent")>>
           ELSE <<Event("ReconnectAttempt"), Event("LogonSent")>>)
  /\ UNCHANGED <<IN_SEQ, HEARD, COUNT>>

\* The counterparty answers; some reset their sequence numbers at every logon.
AcceptLogon ==
  /\ LINK = "logon"
  /\ LINK' = "up"
  /\ HEARD' = now
  /\ \E seq \in {IN_SEQ, 1} :
       /\ IN_SEQ' = seq + 1
       /\ Write(<<In("A", seq)>>, <<Event("LogonReceived")>>)
  /\ UNCHANGED <<OUT_SEQ, COUNT>>

RefuseLogon ==
  /\ LINK = "logon"
  /\ LINK' = "down"
  /\ HEARD' = now
  /\ IN_SEQ' = IN_SEQ + 1
  /\ Happened("refused", 1)
  /\ Write(<<In("5", IN_SEQ)>>, <<Event("LogonRejected")>>)
  /\ UNCHANGED OUT_SEQ

\* Order flow or a heartbeat from the counterparty.
Traffic ==
  /\ LINK = "up"
  /\ HEARD' = now
  /\ IN_SEQ' = IN_SEQ + 1
  /\ Write(<<In("8", IN_SEQ)>>, << >>)
  /\ UNCHANGED <<LINK, OUT_SEQ, COUNT>>

\* Messages vanish; the engine notices at the next one and asks for them.
Gap ==
  /\ LINK = "up"
  /\ HEARD' = now
  /\ IN_SEQ' = IN_SEQ + 3
  /\ OUT_SEQ' = OUT_SEQ + 1
  /\ COUNT' = [COUNT EXCEPT !["gaps"] = @ + 1, !["missing"] = @ + 2]
  /\ Write(<<In("8", IN_SEQ + 2), Out("2", OUT_SEQ)>>,
           <<SessionEvent("SeqNumTooHigh", IN_SEQ, IN_SEQ + 2, now),
             Event("ResendRequested")>>)
  /\ UNCHANGED LINK

\* A message is sent again, marked as a possible duplicate.
Resend ==
  /\ LINK = "up"
  /\ IN_SEQ > 2
  /\ HEARD' = now
  /\ Write(<<Resent(IN_SEQ - 2)>>, << >>)
  /\ UNCHANGED <<LINK, IN_SEQ, OUT_SEQ, COUNT>>

\* The connection breaks; the engine may still write a Logout to its log.
Disconnect ==
  /\ LINK = "up"
  /\ LINK' = "down"
  /\ Happened("disconnects", 1)
  /\ \/ Write(<< >>, <<Event("Disconnected")>>) /\ UNCHANGED OUT_SEQ
     \/ Write(<<Out("5", OUT_SEQ)>>, <<Event("Disconnected")>>) /\ OUT_SEQ' = OUT_SEQ + 1
  /\ UNCHANGED <<IN_SEQ, HEARD>>

EngineStep ==
  RequestLogon \/ AcceptLogon \/ RefuseLogon \/ Traffic \/ Gap \/ Resend \/ Disconnect

Tick ==
  /\ now < MaxNow
  /\ now' = now + 1
  /\ UNCHANGED <<engineVars, collectorVars, kept_up>>

-----------------------------------------------------------------------------
(* The pipeline thread. *)

\* sessions.apply and the gap counters of update_metrics, for the next event of
\* one of the logs.
ApplyNext(l) ==
  /\ l \in Attached
  /\ read[l] < Len(log[l])
  /\ LET ev == log[l][read[l] + 1] IN
     /\ snapshot' = Apply(snapshot, ev)
     /\ missing' = [missing EXCEPT ![l] = @ + GapSize(snapshot, ev)]
  /\ read' = [read EXCEPT ![l] = @ + 1]
  /\ UNCHANGED <<engineVars, now, kept_up>>

EvaluateStaleness ==
  /\ snapshot' = Evaluated(snapshot, now)
  /\ UNCHANGED <<engineVars, now, read, missing, kept_up>>

Next ==
  \/ EngineStep
  \/ Tick
  \/ \E l \in Logs : ApplyNext(l)
  \/ EvaluateStaleness

Spec == Init /\ [][Next]_vars

-----------------------------------------------------------------------------
(* Properties *)

(***************************************************************************)
(* When everything that was written has been applied, the link state is    *)
(* that of the engine ("1 when the session is logged on, 0 otherwise";     *)
(* "this class is where those two streams meet on session_id + time").     *)
(***************************************************************************)
StateFollowsEngine ==
  CaughtUp =>
    CASE LINK = "down"  -> snapshot.state \in {"unknown", "disconnected"}
      [] LINK = "logon" -> snapshot.state = "logon_pending"
      [] LINK = "up"    -> snapshot.state \in {"logged_on", "stale"}

(***************************************************************************)
(* It is, if the collector had read both logs whenever the engine wrote.   *)
(***************************************************************************)
InStepStateFollows == kept_up => StateFollowsEngine

(***************************************************************************)
(* However the two logs interleave, what each of them counts is complete   *)
(* in the end: the gaps derived from the messages are the gaps the engine  *)
(* narrates, resent messages and sequence resets are none, and both sum up *)
(* to the messages that are missing ("if the two ever disagree, that       *)
(* disagreement is itself a finding"); every disconnect and every refused  *)
(* logon is counted once.                                                  *)
(***************************************************************************)
CountersAgree ==
  CaughtUp =>
    /\ snapshot.count["seq_gaps"] = COUNT["gaps"]
    /\ snapshot.count["seq_gaps_reported"] = COUNT["gaps"]
    /\ missing = [l \in Logs |-> COUNT["missing"]]
    /\ snapshot.count["disconnects"] = COUNT["disconnects"]
    /\ snapshot.count["logon_rejects"] = COUNT["refused"]

(***************************************************************************)
(* Whenever the check runs, it calls a session that is up stale exactly    *)
(* when the engine has not received a message within the tolerance         *)
(* ("logged on but silent past heartbeat tolerance"), the link state being *)
(* right: also when the session was stale before and is heard again.       *)
(***************************************************************************)
StaleMeansSilent ==
  kept_up /\ CaughtUp /\ LINK = "up" =>
    (Evaluated(snapshot, now).state = "stale" <=> now - HEARD > Tolerance(snapshot))

=============================================================================
