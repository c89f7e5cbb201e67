--------------------------- MODULE CollectorConfig ---------------------------
(***************************************************************************)
(* The collector's configuration (config.cpp): the sessions of its own     *)
(* file, the sessions imported from the engine's files, and how the two    *)
(* become one list.  An exception is an error that nothing recovers from:  *)
(* the collector does not start.                                           *)
(***************************************************************************)
EXTENDS EngineSettings

-----------------------------------------------------------------------------
(* next_pow2, for a size_t of w bits.  The loop ends with the first power  *)
(* that is not below v; shifted past the width p is 0 for ever, and where  *)
(* no power reaches v the loop does not end.                               *)

Never == -1

Pow2[k \in Nat] == IF k = 0 THEN 1 ELSE 2 * Pow2[k - 1]

\* Mutant of next_pow2: it starts with 1.
next_pow2_FromOne(v, w) ==
  LET p[k \in 0 .. w] == IF k = 0 THEN 1 ELSE (2 * p[k - 1]) % Pow2[w]
      reached == {k \in 0 .. w : p[k] >= v}
  IN  IF reached = {} THEN Never ELSE p[Min(reached)]

\* p[k] is p after k rounds.
next_pow2(v, w) ==
  LET p[k \in 0 .. w] == IF k = 0 THEN 2 ELSE (2 * p[k - 1]) % Pow2[w]
      reached == {k \in 0 .. w : p[k] >= v}
  IN  IF reached = {} THEN Never ELSE p[Min(reached)]

-----------------------------------------------------------------------------
(* load_config: the collector's own file *)

NewSession ==
  [begin_string |-> "", sender_comp_id |-> "", target_comp_id |-> "",
   session_qualifier |-> "", sender_sub_id |-> "", target_sub_id |-> "",
   heartbeat_interval |-> "30", heartbeat_explicit |-> FALSE,
   connection_type |-> "", file_log_path |-> "",
   reset_on_logon |-> "unknown", persist_messages |-> "unknown",
   message_log_path |-> NoLog, event_log_path |-> NoLog,
   from_quickfix |-> FALSE, redacted_settings |-> {}]

NoConfig == [sessions |-> << >>, current |-> NewSession, in_session |-> FALSE, failed |-> FALSE]

CommitSession(c) ==
  IF ~c.in_session THEN c
  ELSE IF c.current.sender_comp_id = "" \/ c.current.target_comp_id = ""
  THEN [c EXCEPT !.failed = TRUE]
  ELSE [c EXCEPT
          !.sessions = Append(@,
             IF c.current.begin_string = ""
             THEN [c.current EXCEPT !.begin_string = "FIX.4.4"] ELSE c.current),
          !.current = NewSession]

\* The keys of a [session] block that are stored as they stand.
PlainKeys == {"begin_string", "sender_comp_id", "target_comp_id", "session_qualifier",
              "sender_sub_id", "target_sub_id", "message_log_path", "event_log_path"}

\* A setting nobody can read: a heartbeat that is no number throws.
Throws(l) == l.key = "heartbeat_interval" /\ l.val = "bad"

\* A key nobody knows is ignored.
Assign(sc, key, val) ==
  CASE key \in PlainKeys -> [sc EXCEPT ![key] = val]
    [] key \in {"reset_on_logon", "persist_messages"} -> [sc EXCEPT ![key] = TriState(val)]
    [] key = "heartbeat_interval" ->
         [sc EXCEPT !.heartbeat_interval = val, !.heartbeat_explicit = TRUE]
    [] OTHER -> sc

\* The settings of the collector itself, outside of the blocks, are left out.
ReadLine(c, l) ==
  CASE c.failed -> c
    [] ~c.failed /\ l.kind = "section" ->
         LET d == CommitSession(c) IN [d EXCEPT !.in_session = l.key = "session"]
    [] ~c.failed /\ l.kind = "setting" /\ c.in_session /\ ~Throws(l) ->
         [c EXCEPT !.current = Assign(@, l.key, l.val)]
    [] ~c.failed /\ (l.kind = "junk" \/ (l.kind = "setting" /\ c.in_session /\ Throws(l))) ->
         [c EXCEPT !.failed = TRUE]
    [] OTHER -> c

ReadIni(lines) ==
  LET c == FoldLeft(ReadLine, NoConfig, lines) IN IF c.failed THEN c ELSE CommitSession(c)

-----------------------------------------------------------------------------
(* import_quickfix_configs and finalize *)

\* Mutant of session_id: without the qualifier.
session_id_NoQualifier(sc) == <<sc.begin_string, sc.sender_comp_id, sc.target_comp_id>>

session_id(sc) ==
  <<sc.begin_string, sc.sender_comp_id, sc.target_comp_id, sc.session_qualifier>>

\* What a session record says when nobody has said anything.
Blank(f) == NewSession[f]

\* The texts, the logs and the flags.
Fillable == {"session_qualifier", "sender_sub_id", "target_sub_id", "connection_type",
             "file_log_path", "reset_on_logon", "persist_messages",
             "message_log_path", "event_log_path"}

fill_from_quickfix(dst, src) ==
  [f \in DOMAIN dst |->
     CASE f \in Fillable -> IF dst[f] = Blank(f) THEN src[f] ELSE dst[f]
       [] f = "heartbeat_interval" -> IF dst.heartbeat_explicit THEN dst[f] ELSE src[f]
       [] f = "redacted_settings" -> dst[f] \cup src[f]
       [] f = "from_quickfix" -> TRUE
       [] OTHER -> dst[f]]

\* Into the first session of its name, or as one more.
Import(sessions, d) ==
  LET same == {i \in 1 .. Len(sessions) : session_id(sessions[i]) = session_id(d)}
  IN  IF same = {} THEN Append(sessions, d)
      ELSE [sessions EXCEPT ![Min(same)] = fill_from_quickfix(@, d)]

\* The sessions all the engine's files describe, in their order.
EngineSessions(files, dir) ==
  FlattenSeq([i \in 1 .. Len(files) |->
                sessions_from_quickfix(parse_quickfix_settings(files[i]), dir)])

\* own: what ReadIni returns; eng: what the engine's files describe.
load_config(own, eng) ==
  LET all == FoldLeft(Import, own.sessions, eng)
  IN  [failed |-> own.failed \/ all = << >>, sessions |-> all]

-----------------------------------------------------------------------------
(* What the two must do, said without the loops. *)

(***************************************************************************)
(* The capacity of the queue is the least power of two that is at least 2  *)
(* and at least what was asked for.  For what no power of its width        *)
(* reaches the loop never ends: the collector hangs before it starts.      *)
(***************************************************************************)
RoundsUp(v, w) ==
  IF v > Pow2[w - 1] THEN next_pow2(v, w) = Never
  ELSE /\ \E k \in 1 .. w - 1 : next_pow2(v, w) = Pow2[k]
       /\ next_pow2(v, w) >= v
       /\ next_pow2(v, w) = 2 \/ next_pow2(v, w) < 2 * v

SameSession(a, b) ==
  \A f \in {"begin_string", "sender_comp_id", "target_comp_id", "session_qualifier"} : a[f] = b[f]

\* Where eng describes a session that own does not have, for the first time.
News(own, eng) ==
  {i \in 1 .. Len(eng) :
     \A s \in Range(own) \cup {eng[j] : j \in 1 .. i - 1} : ~SameSession(s, eng[i])}

\* Where eng describes the session of b.
Descriptions(eng, b) == {i \in 1 .. Len(eng) : SameSession(eng[i], b)}

\* g is b, with what b does not say from the descriptions in is.
Completes(g, b, eng, is) ==
  /\ SameSession(g, b)
  /\ \A f \in Fillable :
       LET saying == {i \in is : eng[i][f] # Blank(f)}
       IN  g[f] = IF b[f] # Blank(f) \/ saying = {} THEN b[f] ELSE eng[Min(saying)][f]
  /\ g.heartbeat_interval =
       (IF b.heartbeat_explicit \/ is = {} THEN b ELSE eng[Max(is)]).heartbeat_interval
  /\ g.redacted_settings = b.redacted_settings \cup UNION {eng[i].redacted_settings : i \in is}

(***************************************************************************)
(* Every block of the operator's file is a session, with all that it says; *)
(* every other session the engine describes is there once, described by    *)
(* two files or not.  What a session does not say is what the engine's     *)
(* first description of it to say so says, but for a heartbeat not stated  *)
(* by the operator, which is the last one's.  Of two blocks of the         *)
(* operator for one session only the first is completed.                   *)
(***************************************************************************)
Merges(own, eng, got) ==
  LET new == News(own, eng)
  IN  /\ Len(got) = Len(own) + Cardinality(new)
      /\ \A i \in 1 .. Len(own) :
           Completes(got[i], own[i], eng,
             IF \E j \in 1 .. i - 1 : SameSession(own[j], own[i]) THEN {}
             ELSE Descriptions(eng, own[i]))
      /\ \A i \in new :
           Completes(got[Len(own) + Cardinality({j \in new : j <= i})], eng[i], eng,
                     Descriptions(eng, eng[i]))
=============================================================================
