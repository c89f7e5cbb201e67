----------------------------- MODULE HttpServer -----------------------------
(***************************************************************************)
(* The HTTP server of http_server.cpp: one thread that accepts a client,   *)
(* reads its request, answers and closes it before it accepts the next,    *)
(* and the owner (the main thread) that starts and stops it.               *)
(*                                                                         *)
(* The operating system's part: close() of a listening socket resets the   *)
(* clients in its backlog.  If the server's thread sleeps in accept() at   *)
(* that moment, then on Windows accept() fails, and on Linux the socket    *)
(* lives on, and takes clients, until that accept() has returned           *)
(* (CloseWakes tells the two apart).  A send() to a client that has reset  *)
(* its connection raises SIGPIPE on POSIX, and nothing here ignores it.    *)
(***************************************************************************)
EXTENDS Integers, FiniteSets

CONSTANTS
  Clients,      \* whoever connects: scrapers, browsers, probes
  NoClient,
  CloseWakes,   \* closing the listening socket wakes accept()
  MaxLeavers    \* bound: clients that leave before they have their answer

ASSUME HttpAssumption ==
  /\ NoClient \notin Clients /\ CloseWakes \in BOOLEAN /\ MaxLeavers \in Nat

VARIABLES
  running,    \* running_
  listening,  \* the socket behind listen_fd_ takes connections
  closed,     \* the owner has closed listen_fd_
  hpc,        \* where the server's thread is
  cur,        \* fd: the client it handles
  conn,       \* what each client is doing
  backlog,    \* the clients connected and not accepted
  opc,        \* where the owner is
  leavers     \* bound: clients that have left early

httpVars == <<running, listening, closed, hpc, cur, conn, backlog, opc, leavers>>

HttpInit ==
  /\ running = FALSE /\ listening = FALSE /\ closed = FALSE
  /\ hpc = "none" /\ cur = NoClient
  /\ conn = [c \in Clients |-> "away"] /\ backlog = {}
  /\ opc = "start" /\ leavers = 0

Alive == hpc # "killed"

ServerTypeOK ==
  /\ hpc \in {"none", "check", "enter", "accept", "recv", "metrics", "reply", "exited", "killed"}
  /\ opc \in {"start", "failed", "up", "closing", "join", "stopped"}
  /\ conn \in [Clients -> {"away", "silent", "asking", "gone"}]
  /\ backlog \subseteq Clients \ {cur} /\ cur \in Clients \cup {NoClient}
  /\ opc = "stopped" => hpc \in {"none", "exited", "killed"}

-----------------------------------------------------------------------------
(* The owner: start() and stop() *)

Start ==
  /\ opc = "start"
  /\ running' = TRUE /\ listening' = TRUE
  /\ hpc' = "check"
  /\ opc' = "up"
  /\ UNCHANGED <<closed, cur, conn, backlog, leavers>>

\* socket(), bind() or listen() fails: no thread, and main gives up.
StartFails ==
  /\ opc = "start"
  /\ opc' = "failed"
  /\ UNCHANGED <<running, listening, closed, hpc, cur, conn, backlog, leavers>>

\* running_.exchange(false); nothing to do where it was false already.
Stop ==
  /\ Alive /\ opc \in {"up", "failed"}
  /\ running' = FALSE
  /\ opc' = IF running THEN "closing" ELSE "stopped"
  /\ UNCHANGED <<listening, closed, hpc, cur, conn, backlog, leavers>>

\* A client's connection ends from the server's side.
Hangup(cs) == [c \in Clients |-> IF c \in cs THEN "away" ELSE conn[c]]

\* The last reference to the listening socket goes, and its backlog with it.
ReleaseSocket(rest) == listening' = FALSE /\ backlog' = {} /\ conn' = Hangup(rest)

\* Mutant of Close: the socket is left open.
Close_LeavesOpen ==
  /\ Alive /\ opc = "closing"
  /\ closed' = TRUE /\ opc' = "join"
  /\ UNCHANGED <<running, listening, backlog, conn, hpc, cur, leavers>>

Close ==
  /\ Alive /\ opc = "closing"
  /\ closed' = TRUE
  /\ opc' = "join"
  /\ IF hpc = "accept" /\ ~CloseWakes
       THEN UNCHANGED <<listening, backlog, conn>>
       ELSE ReleaseSocket(backlog)
  /\ UNCHANGED <<running, hpc, cur, leavers>>

Join ==
  /\ Alive /\ opc = "join" /\ hpc = "exited"
  /\ opc' = "stopped"
  /\ UNCHANGED <<running, listening, closed, hpc, cur, conn, backlog, leavers>>

-----------------------------------------------------------------------------
(* The server's thread: run() and handle_client() *)

\* Mutant of Check: the loop does not look at running_.
Check_NoFlag ==
  /\ hpc = "check"
  /\ hpc' = "enter"
  /\ UNCHANGED <<running, listening, closed, cur, conn, backlog, opc, leavers>>

\* The loop's test, and the call of accept(); a closed descriptor fails at once.
Check ==
  /\ hpc = "check"
  /\ \/ ~running /\ hpc' = "exited"
     \/ running /\ hpc' = "enter"
  /\ UNCHANGED <<running, listening, closed, cur, conn, backlog, opc, leavers>>

Enter ==
  /\ hpc = "enter"
  /\ hpc' = IF closed THEN "check" ELSE "accept"
  /\ UNCHANGED <<running, listening, closed, cur, conn, backlog, opc, leavers>>

\* accept() returns a client.  Where the owner closed the socket meanwhile,
\* this was its last use.
Accept(c) ==
  /\ hpc = "accept" /\ c \in backlog
  /\ hpc' = "recv" /\ cur' = c
  /\ IF closed
       THEN ReleaseSocket(backlog \ {c})
       ELSE backlog' = backlog \ {c} /\ UNCHANGED <<listening, conn>>
  /\ UNCHANGED <<running, closed, opc, leavers>>

\* accept() fails: the socket was closed under it, or for a passing reason.
AcceptFails ==
  /\ hpc = "accept"
  /\ hpc' = "check"
  /\ IF closed THEN ReleaseSocket(backlog) ELSE UNCHANGED <<listening, backlog, conn>>
  /\ UNCHANGED <<running, closed, cur, opc, leavers>>

\* CLOSESOCK(fd)
Finish(next) ==
  /\ hpc' = next
  /\ cur' = NoClient
  /\ conn' = [conn EXCEPT ![cur] = "away"]

\* recv() blocks until the client has sent its request or has left; the
\* request of a client that has left may still be there to read.
Recv ==
  /\ hpc = "recv"
  /\ \/ conn[cur] \in {"asking", "gone"} /\ hpc' \in {"metrics", "reply"} /\ UNCHANGED <<cur, conn>>
     \/ conn[cur] = "gone" /\ Finish("check")
  /\ UNCHANGED <<running, listening, closed, backlog, opc, leavers>>

\* The body is ready: send_all, and close the client.
Reply ==
  /\ hpc = "reply"
  /\ \/ Finish("check")
     \/ conn[cur] = "gone" /\ hpc' = "killed" /\ UNCHANGED <<cur, conn>>
  /\ UNCHANGED <<running, listening, closed, backlog, opc, leavers>>

-----------------------------------------------------------------------------
(* The clients *)

Connect(c) ==
  /\ Alive /\ listening /\ conn[c] = "away"
  /\ conn' = [conn EXCEPT ![c] = "silent"]
  /\ backlog' = backlog \cup {c}
  /\ UNCHANGED <<running, listening, closed, hpc, cur, opc, leavers>>

Request(c) ==
  /\ conn[c] = "silent"
  /\ conn' = [conn EXCEPT ![c] = "asking"]
  /\ UNCHANGED <<running, listening, closed, hpc, cur, backlog, opc, leavers>>

\* The client closes its end, before or after it has sent its request.
Leave(c) ==
  /\ conn[c] \in {"silent", "asking"} /\ leavers < MaxLeavers
  /\ conn' = [conn EXCEPT ![c] = "gone"]
  /\ leavers' = leavers + 1
  /\ UNCHANGED <<running, listening, closed, hpc, cur, backlog, opc>>
=============================================================================
