----------------------------- MODULE ChatHostInv -----------------------------
(***************************************************************************)
(* The inductive invariant of ChatHost: which lists a request may append   *)
(* to, what is in them, and which lines of the audit log have been written *)
(* by then.  ChatHostProofs proves it for any requests and bounds.         *)
(***************************************************************************)
EXTENDS ChatHost

\* What a request has at its place in the handler.
PlaceInv ==
  \A r \in Requests :
    /\ pc[r] \in {"idle", "denied"} => conv[r] = 0
    /\ conv[r] = 0 => pc[r] \in {"idle", "denied", "refused", "failed"}
    /\ pc[r] \in {"idle", "denied", "question", "ask"} => rounds[r] = 0
    /\ fetched[r] # 0 => pc[r] \in {"ask", "reply", "calls", "result", "assign"}
    /\ pc[r] = "calls" => done[r] = 0 /\ asked[r] > 0
    /\ pc[r] \in {"tool", "result"} => done[r] < asked[r]

-----------------------------------------------------------------------------
(* Lists belong to one conversation.  A list that was fetched need not be the *)
(* conversation's any more, but it is no other one's.                         *)

ApartInv ==
  /\ \A c, d \in Objects : messages[c] = messages[d] => c = d
  /\ \A r \in Requests, c \in Objects : messages[c] = fetched[r] => c = conv[r]
  /\ \A q, r \in Requests : fetched[q] = fetched[r] /\ fetched[r] # 0 => conv[q] = conv[r]

\* The messages of a list are those of one user,
OnlyBy(l, u) == \A i \in 1 .. Len(lists[l]) : UserOf[lists[l][i].by] = u

\* the one the conversation was made for.
UsersInv ==
  /\ \A r \in Requests : conv[r] # 0 => owner[conv[r]] = UserOf[r]
  /\ \A c \in Objects : OnlyBy(messages[c], owner[c])
  /\ \A r \in Requests : fetched[r] # 0 => OnlyBy(fetched[r], UserOf[r])

-----------------------------------------------------------------------------
(* The line in the audit log comes before the message it tells of. *)

Told(m) ==
  CASE m.kind = "user"               -> <<"question", m.by, 0, 0>> \in audit
    [] m.kind \in {"reply", "calls"} -> <<"model_round", m.by, m.round, 0>> \in audit
    [] m.kind = "result"             -> <<"tool_call", m.by, m.round, m.n>> \in audit

AuditInv ==
  /\ \A l \in 1 .. Len(lists) : \A i \in 1 .. Len(lists[l]) : Told(lists[l][i])
  /\ \A r \in Requests :
       /\ pc[r] = "refused" => <<"access_denied", r, 0, 0>> \in audit
       /\ pc[r] = "ask" => <<"question", r, 0, 0>> \in audit
       /\ pc[r] \in {"reply", "calls"} => <<"model_round", r, rounds[r], 0>> \in audit
       /\ pc[r] = "result" => <<"tool_call", r, rounds[r], done[r] + 1>> \in audit

-----------------------------------------------------------------------------
(* Resets.  As long as none came while a request was served, all requests in  *)
(* progress use the stored conversation, and its messages are no older than   *)
(* the last reset.                                                            *)

Recent(l) == \A i \in 1 .. Len(lists[l]) : since[lists[l][i].by] = resets

ResetInv ==
  /\ \A l \in 1 .. Len(lists) : \A i \in 1 .. Len(lists[l]) : pc[lists[l][i].by] # "idle"
  /\ ~crossed =>
       /\ \A r \in Serving : since[r] = resets /\ conv[r] \in {0, stored}
       /\ stored # 0 => Recent(messages[stored])
       /\ \A r \in Requests : fetched[r] # 0 => Recent(fetched[r])

-----------------------------------------------------------------------------
(* Tool calls and their results. *)

\* Two requests that are served at the same time share their conversation.
SharedInv ==
  \A q, r \in Serving : q # r /\ conv[q] = conv[r] /\ conv[r] # 0 => conv[r] \in shared

\* The call at i has all of its results.
Answered(h, i) ==
  /\ i + h[i].n <= Len(h)
  /\ \A k \in 1 .. h[i].n :
       h[i + k] = [kind |-> "result", by |-> h[i].by, round |-> h[i].round, n |-> k]

\* The result at i follows its call.
Belongs(h, i) ==
  /\ h[i].n \in 1 .. i - 1
  /\ LET c == h[i - h[i].n]
     IN  c.kind = "calls" /\ c.by = h[i].by /\ c.round = h[i].round /\ h[i].n <= c.n

\* The calls have all of their results, but for the one at p.
TurnsBut(h, p) ==
  \A i \in 1 .. Len(h) :
    /\ h[i].kind = "calls" /\ i # p => Answered(h, i)
    /\ h[i].kind = "result" => Belongs(h, i)

\* The last call has the first k of its results.
OpenTurn(h, k, m) ==
  /\ Len(h) > k
  /\ h[Len(h) - k] = m
  /\ \A j \in 1 .. k :
       h[Len(h) - k + j] = [kind |-> "result", by |-> m.by, round |-> m.round, n |-> j]
  /\ TurnsBut(h, Len(h) - k)

Alone(c) == c \notin shared /\ ~Torn(c)

InTurn(r) == pc[r] \in {"tool", "result"}

\* The history at c has all calls answered but for the one r is at; what a save of
\* r is about to assign has all of them answered.
TurnOf(c, r) ==
  /\ InTurn(r) => OpenTurn(lists[messages[c]], done[r], Message("calls", r, asked[r]))
  /\ fetched[r] # 0 => IF pc[r] = "assign" THEN TurnsBut(lists[fetched[r]], 0)
                       ELSE fetched[r] = messages[c]

TurnsAt(c) ==
  /\ \/ \E r \in Requests : conv[r] = c /\ InTurn(r)
     \/ TurnsBut(lists[messages[c]], 0)
  /\ \A r \in Requests : conv[r] = c => TurnOf(c, r)

\* A conversation that one request at a time uses is whole, but for the turn that
\* request is in.
TurnsInv == \A c \in Objects : Alone(c) => TurnsAt(c)

(***************************************************************************)
(* The parts together: that a list is of one conversation carries what is  *)
(* said of its messages over every append, and the history of a call lives *)
(* on in the trimmed list.                                                 *)
(***************************************************************************)
IInv ==
  /\ TypeOK
  /\ PlaceInv
  /\ ApartInv
  /\ UsersInv
  /\ AuditInv
  /\ ResetInv
  /\ SharedInv
  /\ TurnsInv

=============================================================================
