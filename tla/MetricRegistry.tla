--------------------------- MODULE MetricRegistry ---------------------------
(***************************************************************************)
(* The metric registry (metrics.cpp): a set of series that grows up to a   *)
(* cap, each an atomic cell.  Writers look a series up or create it, then  *)
(* use the cell without the lock; a scrape holds the lock shared while it  *)
(* reads the cells one by one.                                             *)
(*                                                                         *)
(* A section under the unique lock is one step.  A series stands for its   *)
(* family and its encoded labels; the empty family that a refused series   *)
(* leaves behind is not rendered and is left out.                          *)
(***************************************************************************)
EXTENDS Integers, FiniteSets

CONSTANTS
  Writers,     \* threads that update metrics
  Main,        \* the main thread, which alone mirrors counters owned elsewhere
  Series,      \* every series anyone asks for
  Gauges,      \* those that are gauges; the others are counters
  Secret,      \* those with a label named like a credential
  Mirrored,    \* counters that follow a counter owned elsewhere
  MaxSeries,   \* max_series_
  MaxUpdates,  \* bound: updates asked for
  MaxSource    \* bound: how far the counters owned elsewhere go

ASSUME RegistryAssumption ==
  /\ IsFiniteSet(Writers) /\ IsFiniteSet(Series) /\ Gauges \subseteq Series /\ Secret \subseteq Series
  /\ Mirrored \subseteq Series \ (Gauges \cup Secret)
  /\ Main \in Writers /\ MaxSeries \in Nat /\ MaxUpdates \in Nat /\ MaxSource \in Nat

VARIABLES
  cells,      \* the series that exist, with their values
  rejected,   \* rejected_: refused because of the cap
  redacted,   \* redacted_: refused because of a label
  wpc,        \* where each writer is
  want,       \* the series it asked for
  arg,        \* the value it passes on
  source,     \* the counters owned elsewhere (adapters, store, sink)
  scraping,   \* expose() holds the shared lock
  todo,       \* the series it has not rendered
  page,       \* the text it has rendered: a value for each series
  asked,      \* history: updates asked for
  used,       \* history: updates that got a cell, by series
  floor       \* history: the cells when the scrape took the lock

writerVars == <<cells, rejected, redacted, wpc, want, arg, source, asked, used>>
scrapeVars == <<scraping, todo, page, floor>>
registryVars == <<writerVars, scrapeVars>>

NoCells == [s \in {} |-> 0]
With(f, s, v) == [x \in DOMAIN f \cup {s} |-> IF x = s THEN v ELSE f[x]]
NoWant == CHOOSE s \in Series : TRUE
Counting == Series \ (Gauges \cup Mirrored)

RegistryInit ==
  /\ cells = NoCells
  /\ rejected = 0 /\ redacted = 0 /\ asked = 0
  /\ wpc = [w \in Writers |-> "idle"]
  /\ want = [w \in Writers |-> NoWant]
  /\ arg = [w \in Writers |-> 0]
  /\ source = [s \in Mirrored |-> 0]
  /\ used = [s \in Series |-> 0]
  /\ scraping = FALSE /\ todo = {} /\ page = NoCells /\ floor = NoCells

Goto(w, l) == wpc' = [wpc EXCEPT ![w] = l] /\ UNCHANGED <<want, arg>>

Return(w) ==
  /\ wpc' = [wpc EXCEPT ![w] = "idle"]
  /\ want' = [want EXCEPT ![w] = NoWant] /\ arg' = [arg EXCEPT ![w] = 0]

-----------------------------------------------------------------------------
(* inc, set and mirror of main.cpp, over counter() and gauge() *)

\* What the caller passes: a count, a level, or what the owner's counter reads.
Args(w, s) ==
  IF s \in Gauges THEN {2} ELSE IF s \in Mirrored THEN {source[s]} ELSE {1}

\* Mutant of Ask: any thread mirrors a counter.
Ask_AnyMirror(w, s) ==
  /\ wpc[w] = "idle" /\ asked < MaxUpdates
  /\ s \notin Secret
  /\ asked' = asked + 1
  /\ wpc' = [wpc EXCEPT ![w] = "lookup"]
  /\ want' = [want EXCEPT ![w] = s]
  /\ \E v \in Args(w, s) : arg' = [arg EXCEPT ![w] = v]
  /\ UNCHANGED <<cells, rejected, redacted, source, used, scrapeVars>>

\* refuse_sensitive comes first: a refused series is counted and never made.
Ask(w, s) ==
  /\ wpc[w] = "idle" /\ asked < MaxUpdates
  /\ s \in Mirrored => w = Main
  /\ asked' = asked + 1
  /\ \/ /\ s \in Secret
        /\ redacted' = redacted + 1
        /\ UNCHANGED <<wpc, want, arg>>
     \/ /\ s \notin Secret
        /\ wpc' = [wpc EXCEPT ![w] = "lookup"]
        /\ want' = [want EXCEPT ![w] = s]
        /\ \E v \in Args(w, s) : arg' = [arg EXCEPT ![w] = v]
        /\ UNCHANGED redacted
  /\ UNCHANGED <<cells, rejected, source, used, scrapeVars>>

\* Under the shared lock.
Lookup(w) ==
  /\ wpc[w] = "lookup"
  /\ Goto(w, IF want[w] \in DOMAIN cells THEN "use" ELSE "create")
  /\ UNCHANGED <<cells, rejected, redacted, source, asked, used, scrapeVars>>

\* Mutant of Create: no second look, the cell is made anew.
Create_NoRecheck(w) ==
  /\ wpc[w] = "create" /\ ~scraping
  /\ Cardinality(DOMAIN cells \cup {want[w]}) <= MaxSeries
  /\ cells' = With(cells, want[w], 0)
  /\ Goto(w, "use")
  /\ UNCHANGED <<rejected, redacted, source, asked, used, scrapeVars>>

\* Mutant of Create: the cap is off by one.
Create_OneTooMany(w) ==
  /\ wpc[w] = "create" /\ ~scraping
  /\ \/ /\ want[w] \in DOMAIN cells
        /\ Goto(w, "use") /\ UNCHANGED <<cells, rejected>>
     \/ /\ want[w] \notin DOMAIN cells /\ Cardinality(DOMAIN cells) > MaxSeries
        /\ rejected' = rejected + 1
        /\ Return(w) /\ UNCHANGED cells
     \/ /\ want[w] \notin DOMAIN cells /\ Cardinality(DOMAIN cells) <= MaxSeries
        /\ cells' = With(cells, want[w], 0)
        /\ Goto(w, "use") /\ UNCHANGED rejected
  /\ UNCHANGED <<redacted, source, asked, used, scrapeVars>>

\* Mutant of Create: it does not wait for a scrape to let go of the lock.
Create_NoLock(w) ==
  /\ wpc[w] = "create"
  /\ cells' = IF want[w] \in DOMAIN cells THEN cells ELSE With(cells, want[w], 0)
  /\ Goto(w, "use")
  /\ UNCHANGED <<rejected, redacted, source, asked, used, scrapeVars>>

\* Under the unique lock: look again, then the cap, then make the cell.
Create(w) ==
  /\ wpc[w] = "create" /\ ~scraping
  /\ \/ /\ want[w] \in DOMAIN cells
        /\ Goto(w, "use") /\ UNCHANGED <<cells, rejected>>
     \/ /\ want[w] \notin DOMAIN cells /\ Cardinality(DOMAIN cells) >= MaxSeries
        /\ rejected' = rejected + 1
        /\ Return(w) /\ UNCHANGED cells
     \/ /\ want[w] \notin DOMAIN cells /\ Cardinality(DOMAIN cells) < MaxSeries
        /\ cells' = With(cells, want[w], 0)
        /\ Goto(w, "use") /\ UNCHANGED rejected
  /\ UNCHANGED <<redacted, source, asked, used, scrapeVars>>

\* Through the pointer, without the lock: fetch_add for inc, a store for the others.
Use(w) ==
  /\ wpc[w] = "use"
  /\ cells' = [cells EXCEPT ![want[w]] = IF want[w] \in Counting THEN @ + arg[w] ELSE arg[w]]
  /\ used' = [used EXCEPT ![want[w]] = @ + 1]
  /\ Return(w)
  /\ UNCHANGED <<rejected, redacted, source, asked, scrapeVars>>

\* The owner of a mirrored counter goes on counting.
SourceGrows(s) ==
  /\ source[s] < MaxSource
  /\ source' = [source EXCEPT ![s] = @ + 1]
  /\ UNCHANGED <<cells, rejected, redacted, wpc, want, arg, asked, used, scrapeVars>>

WriterStep(w) == Lookup(w) \/ Create(w) \/ Use(w)

-----------------------------------------------------------------------------
(* expose() *)

BeginExpose ==
  /\ ~scraping
  /\ scraping' = TRUE
  /\ todo' = DOMAIN cells /\ page' = NoCells /\ floor' = cells
  /\ UNCHANGED writerVars

\* The order is that of the maps; no property depends on it.
Render(s) ==
  /\ scraping /\ s \in todo
  /\ page' = With(page, s, cells[s])
  /\ todo' = todo \ {s}
  /\ UNCHANGED <<writerVars, floor, scraping>>

EndExpose ==
  /\ scraping /\ todo = {}
  /\ scraping' = FALSE /\ page' = NoCells /\ floor' = NoCells
  /\ UNCHANGED <<writerVars, todo>>

-----------------------------------------------------------------------------
(* Properties *)

(***************************************************************************)
(* The cells and the counters of refusals have their types, and the cap on *)
(* series holds although every writer decides on it by itself.             *)
(***************************************************************************)
RegistryTypeOK ==
  /\ DOMAIN cells \subseteq Series \ Secret /\ \A s \in DOMAIN cells : cells[s] \in Nat
  /\ Cardinality(DOMAIN cells) <= MaxSeries
  /\ rejected \in Nat /\ redacted \in Nat
  /\ wpc \in [Writers -> {"idle", "lookup", "create", "use"}]
  /\ DOMAIN page \subseteq Series /\ todo \subseteq Series /\ scraping \in BOOLEAN

\* The updates that got a cell, those of each series numbered.
Updates == UNION {{s} \X (1 .. used[s]) : s \in Series}

(***************************************************************************)
(* No update disappears: one that got a cell is in its value, however many *)
(* writers created the series at once, and every other one that returned   *)
(* is in the counter of its refusal.                                       *)
(***************************************************************************)
UpdatesAccounted ==
  /\ \A s \in DOMAIN cells \cap Counting : cells[s] = used[s]
  /\ asked = Cardinality(Updates) + rejected + redacted
             + Cardinality({w \in Writers : wpc[w] # "idle"})

(***************************************************************************)
(* A page is no snapshot, but it is as good as one reading of each series  *)
(* some time during the scrape: it names exactly the series there were     *)
(* when it began, and no counter in it is older than that or ahead of now. *)
(***************************************************************************)
PageIsCurrent ==
  scraping =>
    /\ DOMAIN page \cup todo = DOMAIN cells /\ DOMAIN floor = DOMAIN cells
    /\ \A s \in DOMAIN page \ Gauges : floor[s] <= page[s] /\ page[s] <= cells[s]
=============================================================================
