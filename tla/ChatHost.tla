------------------------------ MODULE ChatHost ------------------------------
(***************************************************************************)
(* The chat host (fixmon-chat/app): requests served by threads, one stored *)
(* conversation they may share, its history, and the audit trail.          *)
(*                                                                         *)
(* A conversation is an object with an attribute that refers to a list;    *)
(* store.py's save replaces the list, main.py appends to the one it finds. *)
(* Objects and lists are numbered in the order of their creation.  An      *)
(* append first fetches the list, then appends: a thread may be suspended  *)
(* between the two.  All requests name the same conversation id; one that  *)
(* names none gets an id of its own and shares nothing.                    *)
(***************************************************************************)
EXTENDS Integers, Sequences, FiniteSets

CONSTANTS
  Requests,       \* the requests to /api/chat, a thread each
  UserOf,         \* who sent a request
  max_tool_rounds,\* cfg.limits.max_tool_rounds
  max_messages,   \* ConversationStore(max_messages)
  CallCounts,     \* bound: how many tool calls a completion may have
  MaxResets,      \* bound: calls of /reset
  MaxFailures     \* bound: requests that end with an exception

ASSUME ChatAssumption ==
  /\ IsFiniteSet(Requests)
  /\ max_tool_rounds \in Nat /\ max_messages \in Nat
  /\ CallCounts \subseteq Nat /\ 0 \in CallCounts
  /\ MaxResets \in Nat /\ MaxFailures \in Nat

VARIABLES
  stored,    \* ConversationStore._data[id]: an object, 0 if there is none
  lock,      \* the request in the critical section of save, or the empty set
  owner,     \* per object: conv.user_id
  messages,  \* per object: conv.messages, a list
  lists,     \* the content of each list
  audit,     \* the lines of the audit log
  pc,        \* where each request is
  conv,      \* the object each request works on, 0 before it has one
  fetched,   \* the list an append or a save in progress has fetched or built
  rounds,    \* rounds of the loop
  asked,     \* tool calls in the last completion
  done,      \* how many of them have been executed and appended
  resets,    \* history: the number of resets so far
  since,     \* history: the number of resets when a request arrived
  shared,    \* history: objects that two requests used at the same time
  crossed    \* history: a reset came while a request was being served

store   == <<stored, lock, owner, messages, lists>>
local   == <<conv, fetched, rounds, asked, done>>
history == <<resets, since, shared, crossed>>
vars    == <<store, audit, pc, local, history>>

Finished == {"answered", "refused", "failed", "torn"}

\* The audit log is written at "denied", "question", "complete" and "tool"; a
\* message is appended at "ask", "reply", "calls" and "result".
RequestPc ==
  {"idle", "denied", "question", "ask", "connect", "loop", "complete",
   "reply", "calls", "tool", "result", "save", "assign"} \cup Finished

Kinds == {"user", "reply", "calls", "result"}

\* n is the number of calls a message asks for, or which of them it answers.
Messages == [kind : Kinds, by : Requests, round : Nat, n : Nat]
Message(kind, r, n) == [kind |-> kind, by |-> r, round |-> rounds[r], n |-> n]

Entries ==
  ({"access_denied", "question", "model_round", "tool_call"} \X Requests \X Nat \X Nat)
    \cup ({"reset"} \X (1 .. MaxResets))

Objects == 1 .. Len(owner)

TypeOK ==
  /\ stored \in 0 .. Len(owner)
  /\ lock \in SUBSET Requests /\ Cardinality(lock) <= 1
  /\ owner \in Seq({UserOf[r] : r \in Requests})
  /\ messages \in Seq(1 .. Len(lists)) /\ Len(messages) = Len(owner)
  /\ lists \in Seq(Seq(Messages))
  /\ audit \subseteq Entries
  /\ pc \in [Requests -> RequestPc]
  /\ conv \in [Requests -> 0 .. Len(owner)]
  /\ fetched \in [Requests -> 0 .. Len(lists)]
  /\ rounds \in [Requests -> 0 .. max_tool_rounds]
  /\ asked \in [Requests -> CallCounts]
  /\ done \in [Requests -> Nat]
  /\ resets \in 0 .. MaxResets
  /\ since \in [Requests -> 0 .. MaxResets]
  /\ shared \subseteq Objects
  /\ crossed \in BOOLEAN

Init ==
  /\ stored = 0 /\ lock = {}
  /\ owner = << >> /\ messages = << >> /\ lists = << >>
  /\ audit = {}
  /\ pc = [r \in Requests |-> "idle"]
  /\ conv = [r \in Requests |-> 0]
  /\ fetched = [r \in Requests |-> 0]
  /\ rounds = [r \in Requests |-> 0]
  /\ asked = [r \in Requests |-> 0]
  /\ done = [r \in Requests |-> 0]
  /\ resets = 0
  /\ since = [r \in Requests |-> 0]
  /\ shared = {}
  /\ crossed = FALSE

Goto(r, label) == pc' = [pc EXCEPT ![r] = label]

Serving == {r \in Requests : pc[r] \notin Finished \cup {"idle"}}
History(r) == lists[messages[conv[r]]]

-----------------------------------------------------------------------------
(* Arrival: get_or_create, under the lock. *)

Arrive(r) ==
  /\ pc[r] = "idle" /\ lock = {}
  /\ since' = [since EXCEPT ![r] = resets]
  /\ UNCHANGED <<lock, audit, fetched, rounds, asked, done, resets, crossed>>

GetsNew(r) ==
  /\ Arrive(r)
  /\ stored = 0
  /\ stored' = Len(owner) + 1
  /\ owner' = Append(owner, UserOf[r])
  /\ lists' = Append(lists, << >>)
  /\ messages' = Append(messages, Len(lists) + 1)
  /\ conv' = [conv EXCEPT ![r] = stored']
  /\ Goto(r, "question")
  /\ UNCHANGED shared

\* Mutant of GetsStored: the owner of the conversation is not compared.
GetsStored_AnyUser(r) ==
  /\ Arrive(r)
  /\ stored # 0
  /\ conv' = [conv EXCEPT ![r] = stored]
  /\ shared' = shared \cup ({conv[q] : q \in Serving} \cap {stored})
  /\ Goto(r, "question")
  /\ UNCHANGED <<stored, owner, messages, lists>>

GetsStored(r) ==
  /\ Arrive(r)
  /\ stored # 0 /\ owner[stored] = UserOf[r]
  /\ conv' = [conv EXCEPT ![r] = stored]
  /\ shared' = shared \cup ({conv[q] : q \in Serving} \cap {stored})
  /\ Goto(r, "question")
  /\ UNCHANGED <<stored, owner, messages, lists>>

IsDenied(r) ==
  /\ Arrive(r)
  /\ stored # 0 /\ owner[stored] # UserOf[r]
  /\ Goto(r, "denied")
  /\ UNCHANGED <<stored, owner, messages, lists, conv, shared>>

-----------------------------------------------------------------------------
(* The audit trail, and what can raise an exception. *)

Writes(r, kind, n) ==
  /\ audit' = audit \cup {<<kind, r, rounds[r], n>>}
  /\ UNCHANGED <<store, conv, fetched, rounds, history>>

\* The refusal follows its audit line.
Refuse(r) ==
  /\ pc[r] = "denied"
  /\ Writes(r, "access_denied", 0)
  /\ Goto(r, "refused")
  /\ UNCHANGED <<asked, done>>

\* Mutant of AuditQuestion: the question leaves no line.
AuditQuestion_Missing(r) ==
  /\ pc[r] = "question"
  /\ Goto(r, "ask")
  /\ UNCHANGED <<store, audit, local, history>>

AuditQuestion(r) ==
  /\ pc[r] = "question"
  /\ Writes(r, "question", 0)
  /\ Goto(r, "ask")
  /\ UNCHANGED <<asked, done>>

\* registry.execute never raises; the result is appended after the audit line.
RunTool(r) ==
  /\ pc[r] = "tool"
  /\ Writes(r, "tool_call", done[r] + 1)
  /\ Goto(r, "result")
  /\ UNCHANGED <<asked, done>>

\* The audit file, the database or the provider fails: the exception leaves the
\* handler, and what has been appended stays.  Between a call and its last
\* result this tears the turn apart.
Fails(r) ==
  /\ Cardinality({q \in Requests : pc[q] \in {"failed", "torn"}}) < MaxFailures
  /\ \/ pc[r] \in {"denied", "question", "connect", "complete"}
        /\ Goto(r, "failed")
     \/ pc[r] = "tool" /\ Goto(r, "torn")
  /\ UNCHANGED <<store, audit, local, history>>

-----------------------------------------------------------------------------
(* The loop. *)

\* The first round follows fixmon.connect.
NextRound(r) ==
  /\ pc[r] \in {"connect", "loop"}
  /\ rounds[r] < max_tool_rounds
  /\ rounds' = [rounds EXCEPT ![r] = @ + 1]
  /\ Goto(r, "complete")
  /\ UNCHANGED <<store, audit, conv, fetched, asked, done, history>>

OutOfRounds(r) ==
  /\ pc[r] \in {"connect", "loop"}
  /\ rounds[r] = max_tool_rounds
  /\ Goto(r, "save")
  /\ UNCHANGED <<store, audit, local, history>>

\* The provider gets the whole history, and answers or asks for tools; the round
\* has its line in the audit log.
Complete(r) ==
  /\ pc[r] = "complete"
  /\ Writes(r, "model_round", 0)
  /\ \E n \in CallCounts :
       /\ asked' = [asked EXCEPT ![r] = n]
       /\ Goto(r, IF n = 0 THEN "reply" ELSE "calls")
  /\ done' = [done EXCEPT ![r] = 0]

-----------------------------------------------------------------------------
(* conv.messages.append *)

Fetch(r) ==
  /\ pc[r] \in {"ask", "reply", "calls", "result"} /\ fetched[r] = 0
  /\ fetched' = [fetched EXCEPT ![r] = messages[conv[r]]]
  /\ UNCHANGED <<store, audit, pc, conv, rounds, asked, done, history>>

Appends(r, m) ==
  /\ fetched[r] # 0
  /\ lists' = [lists EXCEPT ![fetched[r]] = Append(@, m)]
  /\ fetched' = [fetched EXCEPT ![r] = 0]
  /\ UNCHANGED <<stored, lock, owner, messages, audit, conv, rounds, asked, history>>

AppendQuestion(r) ==
  /\ pc[r] = "ask"
  /\ Appends(r, Message("user", r, 0))
  /\ Goto(r, "connect")
  /\ UNCHANGED done

AppendReply(r) ==
  /\ pc[r] = "reply"
  /\ Appends(r, Message("reply", r, 0))
  /\ Goto(r, "save")
  /\ UNCHANGED done

\* The assistant turn that carries the tool calls.
AppendCalls(r) ==
  /\ pc[r] = "calls"
  /\ Appends(r, Message("calls", r, asked[r]))
  /\ Goto(r, "tool")
  /\ UNCHANGED done

AppendResult(r) ==
  /\ pc[r] = "result"
  /\ Appends(r, Message("result", r, done[r] + 1))
  /\ done' = [done EXCEPT ![r] = @ + 1]
  /\ Goto(r, IF done'[r] < asked[r] THEN "tool" ELSE "loop")

-----------------------------------------------------------------------------
(* ConversationStore.save and reset *)

\* Mutant of Trimmed: the cut is not moved past the results.
Trimmed_AnyCut(h) ==
  IF Len(h) <= max_messages THEN h
  ELSE SubSeq(h, Len(h) - max_messages + 1, Len(h))

\* What is left of a long history: its end, from a message on that is no result.
Trimmed(h) ==
  IF Len(h) <= max_messages THEN h
  ELSE LET over  == Len(h) - max_messages
           first == CHOOSE i \in over + 1 .. Len(h) + 1 :
                      /\ i <= Len(h) => h[i].kind # "result"
                      /\ \A j \in over + 1 .. i - 1 : h[j].kind = "result"
       IN  SubSeq(h, first, Len(h))

\* The lock is taken.  A short history stays; of a long one a new list is made.
SaveBegin(r) ==
  /\ pc[r] = "save" /\ lock = {}
  /\ lock' = {r}
  /\ \/ /\ Len(History(r)) <= max_messages
        /\ UNCHANGED <<lists, fetched>>
     \/ /\ Len(History(r)) > max_messages
        /\ lists' = Append(lists, Trimmed(History(r)))
        /\ fetched' = [fetched EXCEPT ![r] = Len(lists')]
  /\ Goto(r, "assign")
  /\ UNCHANGED <<stored, owner, messages, audit, conv, rounds, asked, done, history>>

\* The attribute is assigned, the object stored again, the lock released.
SaveEnd(r) ==
  /\ pc[r] = "assign"
  /\ messages' = IF fetched[r] = 0 THEN messages
                 ELSE [messages EXCEPT ![conv[r]] = fetched[r]]
  /\ stored' = conv[r]
  /\ lock' = {}
  /\ fetched' = [fetched EXCEPT ![r] = 0]
  /\ Goto(r, "answered")
  /\ UNCHANGED <<owner, lists, audit, conv, rounds, asked, done, history>>

\* Mutant of Reset: the conversation stays stored.
Reset_KeepsIt ==
  /\ lock = {} /\ resets < MaxResets
  /\ resets' = resets + 1
  /\ crossed' = (crossed \/ Serving # {})
  /\ UNCHANGED <<store, audit, pc, local, since, shared>>

\* Its own audit line, which may fail, comes after it.
Reset ==
  /\ lock = {} /\ resets < MaxResets
  /\ stored' = 0
  /\ resets' = resets + 1
  /\ crossed' = (crossed \/ Serving # {})
  /\ audit' = audit \/ audit' = audit \cup {<<"reset", resets'>>}
  /\ UNCHANGED <<lock, owner, messages, lists, pc, local, since, shared>>

-----------------------------------------------------------------------------

RequestStep(r) ==
  \/ GetsNew(r) \/ GetsStored(r) \/ IsDenied(r) \/ Refuse(r)
  \/ AuditQuestion(r) \/ RunTool(r) \/ Fails(r)
  \/ NextRound(r) \/ OutOfRounds(r) \/ Complete(r)
  \/ Fetch(r) \/ AppendQuestion(r) \/ AppendReply(r) \/ AppendCalls(r) \/ AppendResult(r)
  \/ SaveBegin(r) \/ SaveEnd(r)

AllServed == (\A r \in Requests : pc[r] \in Finished) /\ UNCHANGED vars

Next == (\E r \in Requests : RequestStep(r)) \/ Reset \/ AllServed

Spec == Init /\ [][Next]_vars

-----------------------------------------------------------------------------
(* Properties *)

\* Every tool call of h is followed by its results, and every result belongs to
\* a call.
WholeTurns(h) ==
  \A i \in 1 .. Len(h) :
    /\ h[i].kind = "calls" =>
         /\ i + h[i].n <= Len(h)
         /\ \A k \in 1 .. h[i].n :
              h[i + k] = [kind |-> "result", by |-> h[i].by, round |-> h[i].round, n |-> k]
    /\ h[i].kind = "result" =>
         /\ i > h[i].n
         /\ LET c == h[i - h[i].n]
            IN  c.kind = "calls" /\ c.by = h[i].by /\ c.round = h[i].round

(***************************************************************************)
(* What is sent to the provider never has a tool call apart from its       *)
(* results ("must never be separated from the tool results that answer it, *)
(* or the next request is rejected by the provider").                      *)
(***************************************************************************)
NeverSeparated == \A r \in Requests : pc[r] = "complete" => WholeTurns(History(r))

Torn(c) == \E r \in Requests : pc[r] = "torn" /\ conv[r] = c

(***************************************************************************)
(* That is so for a conversation that is used by one request at a time and *)
(* lost no turn to a failure of the audit log: over any number of rounds,  *)
(* calls, failures of the provider and trims of the history.               *)
(***************************************************************************)
TurnsStayWhole ==
  \A r \in Requests :
    pc[r] = "complete" /\ conv[r] \notin shared /\ ~Torn(conv[r]) => WholeTurns(History(r))

(***************************************************************************)
(* The history a user's request sends holds messages of that user's        *)
(* requests only, whatever was reset, created again and saved in between   *)
(* ("one operator's question appear in another's context").                *)
(***************************************************************************)
OwnMessagesOnly ==
  \A r \in Requests :
    pc[r] = "complete" =>
      \A i \in 1 .. Len(History(r)) : UserOf[History(r)[i].by] = UserOf[r]

(***************************************************************************)
(* Nothing is in a history that the audit log does not tell of: every      *)
(* question, every round of the model and every tool call has its line     *)
(* before its message, and every refusal has one, although each write of   *)
(* the log may fail.                                                       *)
(***************************************************************************)
AuditComplete ==
  /\ \A l \in 1 .. Len(lists) : \A i \in 1 .. Len(lists[l]) :
       LET m == lists[l][i] IN
         CASE m.kind = "user"              -> <<"question", m.by, 0, 0>> \in audit
           [] m.kind \in {"reply", "calls"} -> <<"model_round", m.by, m.round, 0>> \in audit
           [] m.kind = "result"            -> <<"tool_call", m.by, m.round, m.n>> \in audit
  /\ \A r \in Requests : pc[r] = "refused" => <<"access_denied", r, 0, 0>> \in audit

(***************************************************************************)
(* After a reset a conversation starts anew: a request that arrives later  *)
(* sends no message of an earlier one, if no request was being served when *)
(* the reset came (one that was stores its conversation again).            *)
(***************************************************************************)
ResetForgets ==
  ~crossed =>
    \A r \in Requests :
      pc[r] = "complete" =>
        \A i \in 1 .. Len(History(r)) : since[History(r)[i].by] = since[r]

=============================================================================
