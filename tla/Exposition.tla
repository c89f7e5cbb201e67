----------------------------- MODULE Exposition -----------------------------
(***************************************************************************)
(* What a Prometheus server sees of the collector: the registry, which the *)
(* main thread writes, behind the HTTP server, whose thread renders it for *)
(* GET /metrics.  The other paths are answered from a body at hand (the    *)
(* one of /sessions is a snapshot taken under the lock of the sessions).   *)
(***************************************************************************)
EXTENDS MetricRegistry, HttpServer

vars == <<registryVars, httpVars>>

Init == RegistryInit /\ HttpInit

-----------------------------------------------------------------------------
(* The main thread publishes before the server starts and while it runs;   *)
(* it starts and stops the server between two updates.                     *)

AskUp(w, s) ==
  /\ w = Main => opc \in {"start", "up"}
  /\ Ask(w, s)

Registry ==
  /\ \/ \E w \in Writers : WriterStep(w) \/ \E s \in Series : AskUp(w, s)
     \/ \E s \in Mirrored : SourceGrows(s)
  /\ Alive
  /\ UNCHANGED httpVars

Owner ==
  /\ \/ wpc[Main] = "idle" /\ (Start \/ StartFails \/ Stop)
     \/ Close \/ Join
  /\ UNCHANGED registryVars

-----------------------------------------------------------------------------
(* The handler of /metrics *)

Scrape ==
  /\ hpc = "metrics"
  /\ BeginExpose \/ \E s \in Series : Render(s)
  /\ UNCHANGED httpVars

ScrapeDone ==
  /\ hpc = "metrics" /\ EndExpose
  /\ hpc' = "reply"
  /\ UNCHANGED <<running, listening, closed, cur, conn, backlog, opc, leavers>>

ServerStep ==
  \/ (Check \/ Enter \/ Recv \/ Reply) /\ UNCHANGED registryVars
  \/ Scrape \/ ScrapeDone

Serve ==
  \/ ServerStep
  \/ (AcceptFails \/ \E c \in Clients : Accept(c)) /\ UNCHANGED registryVars

ClientStep(c) ==
  /\ Connect(c) \/ Request(c) \/ Leave(c)
  /\ UNCHANGED registryVars

\* The process has ended.
Ended ==
  /\ opc = "stopped" \/ ~Alive
  /\ UNCHANGED vars

Next == Registry \/ Owner \/ Serve \/ (\E c \in Clients : ClientStep(c)) \/ Ended

Spec == Init /\ [][Next]_vars

(***************************************************************************)
(* Both threads are scheduled, the backlog is first in first out, and      *)
(* accept() fails once the socket it sleeps on is closed, where it does at *)
(* all.  Of the clients: a scraper calls again and again, and whoever has  *)
(* connected sends its request.                                            *)
(***************************************************************************)
Fairness ==
  /\ WF_vars(Owner /\ (Close \/ Join))
  /\ WF_vars(ServerStep)
  /\ WF_vars(AcceptFails /\ closed /\ CloseWakes /\ UNCHANGED registryVars)
  /\ \A c \in Clients :
       /\ SF_vars(Accept(c) /\ UNCHANGED registryVars)
       /\ WF_vars(ClientStep(c) /\ Connect(c))
       /\ WF_vars(ClientStep(c) /\ Request(c))

FairSpec == Spec /\ Fairness

-----------------------------------------------------------------------------
(* Properties *)

(***************************************************************************)
(* The states of the registry (its cap included), of the server and of its *)
(* clients have their types; the client at hand is not in the backlog, and *)
(* the handlers do not run once stop() has returned, when main destroys    *)
(* what they read.                                                         *)
(***************************************************************************)
TypeOK == RegistryTypeOK /\ ServerTypeOK

(***************************************************************************)
(* No series disappears and no counter falls, mirrored ones included.  As  *)
(* pages are current, no later page is behind an earlier one: a rate over  *)
(* a counter is never negative.                                            *)
(***************************************************************************)
CountersNeverFall ==
  [][\A s \in DOMAIN cells \ Gauges : s \in DOMAIN cells' /\ cells[s] <= cells'[s]]_vars

(***************************************************************************)
(* stop() returns: the thread finishes the client at hand and leaves.      *)
(* Where close() does not wake accept() it takes one more client to.       *)
(***************************************************************************)
StopReturns == opc = "closing" ~> (opc = "stopped" \/ ~Alive)

(***************************************************************************)
(* One client at a time is enough: each that asks is answered or hung up   *)
(* on, whether the server goes on or stops, or its process is killed.      *)
(***************************************************************************)
ClientsServed ==
  \A c \in Clients : conn[c] = "asking" ~> (conn[c] # "asking" \/ ~Alive)
=============================================================================
