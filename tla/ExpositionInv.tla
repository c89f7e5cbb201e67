---------------------------- MODULE ExpositionInv ----------------------------
(***************************************************************************)
(* The inductive invariant of Exposition: what the writers hold between    *)
(* the lookup of a cell and its use, what a scrape has seen, and whom the  *)
(* server handles.  ExpositionProofs proves it for any writers, series and *)
(* clients.                                                                *)
(***************************************************************************)
EXTENDS Exposition

\* A writer at work has a series that is not refused, and when it uses the cell
\* the cell is there: none is ever removed.  Only the main thread mirrors.
WritersInv ==
  /\ want \in [Writers -> Series \cup {NoWant}]
  /\ arg \in [Writers -> Nat]
  /\ \A w \in Writers :
       /\ wpc[w] # "idle" => want[w] \in Series \ Secret
       /\ wpc[w] = "use" => want[w] \in DOMAIN cells
       /\ wpc[w] # "idle" /\ want[w] \in Mirrored => w = Main
       /\ wpc[w] # "idle" /\ want[w] \in Counting => arg[w] = 1

\* A mirrored counter is never ahead of its source, nor of the value that the
\* main thread is about to store.
MirrorsInv ==
  /\ source \in [Mirrored -> Nat]
  /\ \A s \in Mirrored \cap DOMAIN cells : cells[s] <= source[s]
  /\ wpc[Main] # "idle" /\ want[Main] \in Mirrored =>
       /\ arg[Main] <= source[want[Main]]
       /\ want[Main] \in DOMAIN cells => cells[want[Main]] <= arg[Main]

\* A cell that is yet to be made has had no updates.
CellsInv ==
  /\ cells = [s \in DOMAIN cells |-> cells[s]]
  /\ asked \in Nat /\ used \in [Series -> Nat]
  /\ \A s \in Series \ DOMAIN cells : used[s] = 0

\* Each series there was when the scrape began is rendered or to be rendered, and
\* no counter has fallen since.
ScrapeInv ==
  scraping =>
    /\ DOMAIN page \cap todo = {}
    /\ \A s \in DOMAIN floor \ Gauges : floor[s] \in Nat /\ floor[s] <= cells[s]
    /\ \A s \in DOMAIN page \ Gauges : page[s] \in Nat

\* The server handles a client while it has one accepted, and that client's
\* connection is open on the server's side, as are those of the backlog.
ServerInv ==
  /\ running \in BOOLEAN
  /\ opc \in {"start", "failed"} => hpc = "none" /\ ~running
  /\ opc = "up" => running
  /\ hpc \in {"none", "check", "enter", "accept", "exited"} => cur = NoClient
  /\ \A c \in (backlog \cup {cur}) \ {NoClient} : conn[c] # "away"

(***************************************************************************)
(* The parts together: that no update is lost and no page behind hangs on  *)
(* cells that stay for good, on one mirroring thread, and on the lock that *)
(* keeps new series out of a scrape.                                       *)
(***************************************************************************)
IInv ==
  /\ TypeOK
  /\ WritersInv
  /\ MirrorsInv
  /\ CellsInv
  /\ ScrapeInv
  /\ ServerInv
  /\ UpdatesAccounted
  /\ PageIsCurrent

=============================================================================
