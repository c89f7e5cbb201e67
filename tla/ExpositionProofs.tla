--------------------------- MODULE ExpositionProofs ---------------------------
(***************************************************************************)
(* Proofs about Exposition: the registry of metrics and the HTTP server    *)
(* that renders it, for any writers, series and clients.                   *)
(*                                                                         *)
(* The two parts share no variable.  Every step of the system is a step of *)
(* the registry or leaves it alone, and the same holds of the server, so   *)
(* that the invariant of each is proved by itself.                         *)
(***************************************************************************)
EXTENDS ExpositionInv, FiniteSetTheorems, TLAPS

\* A step of the registry, on either side of its lock.
RegistryNext ==
  \/ \E w \in Writers : \E s \in Series : Ask(w, s)
  \/ \E w \in Writers : WriterStep(w)
  \/ \E s \in Mirrored : SourceGrows(s)
  \/ BeginExpose
  \/ \E s \in Series : Render(s)
  \/ EndExpose

\* The handler of /metrics has rendered the page.
Answered ==
  /\ hpc = "metrics" /\ hpc' = "reply"
  /\ UNCHANGED <<running, listening, closed, cur, conn, backlog, opc, leavers>>

\* A step of the owner, the server or a client.
ServerNext ==
  \/ Start \/ StartFails \/ Stop \/ Close \/ Join
  \/ Check \/ Enter \/ Recv \/ Reply \/ AcceptFails \/ Answered
  \/ \E c \in Clients : Accept(c)
  \/ \E c \in Clients : Connect(c)
  \/ \E c \in Clients : Request(c)
  \/ \E c \in Clients : Leave(c)

\* A step of the system is a step or a stutter of each part.
LEMMA Parts ==
  ASSUME [Next]_vars
  PROVE  [RegistryNext]_registryVars /\ [ServerNext]_httpVars
<1>1. CASE Registry
  <2>1. RegistryNext
    BY <1>1 DEF Registry, AskUp, RegistryNext
  <2>2. UNCHANGED httpVars
    BY <1>1 DEF Registry
  <2>3. QED
    BY <2>1, <2>2
<1>2. CASE Owner
  BY <1>2 DEF Owner, ServerNext
<1>3. CASE Serve
  <2>1. CASE Scrape
    <3>1. UNCHANGED httpVars
      BY <2>1 DEF Scrape
    <3>2. BeginExpose \/ \E s \in Series : Render(s)
      BY <2>1 DEF Scrape
    <3>3. QED
      BY <3>1, <3>2 DEF RegistryNext
  <2>2. CASE ScrapeDone
    <3>1. Answered
      BY <2>2 DEF ScrapeDone, Answered
    <3>2. EndExpose
      BY <2>2 DEF ScrapeDone
    <3>3. QED
      BY <3>1, <3>2 DEF RegistryNext, ServerNext
  <2>3. CASE (Check \/ Enter \/ Recv \/ Reply) /\ UNCHANGED registryVars
    BY <2>3 DEF ServerNext
  <2>4. CASE (AcceptFails \/ \E c \in Clients : Accept(c)) /\ UNCHANGED registryVars
    BY <2>4 DEF ServerNext
  <2>5. QED
    BY <1>3, <2>1, <2>2, <2>3, <2>4 DEF Serve, ServerStep
<1>4. CASE \E c \in Clients : ClientStep(c)
  BY <1>4 DEF ClientStep, ServerNext
<1>5. CASE UNCHANGED vars
  BY <1>5 DEF vars
<1>6. QED
  BY <1>1, <1>2, <1>3, <1>4, <1>5 DEF Next, Ended

-----------------------------------------------------------------------------
(* What the steps do to the cells, the page and the writers at work. *)

\* The writer w makes the cell it wants.
Makes(w) ==
  /\ want[w] \notin DOMAIN cells /\ Cardinality(DOMAIN cells) < MaxSeries
  /\ DOMAIN cells' = DOMAIN cells \cup {want[w]}
  /\ cells' = [s \in DOMAIN cells' |-> cells'[s]]
  /\ \A s \in DOMAIN cells : cells'[s] = cells[s]
  /\ cells'[want[w]] = 0
  /\ wpc' = [wpc EXCEPT ![w] = "use"]
  /\ UNCHANGED <<want, arg, rejected>>

\* It finds the cell made by another.
Finds(w) ==
  /\ want[w] \in DOMAIN cells
  /\ wpc' = [wpc EXCEPT ![w] = "use"]
  /\ UNCHANGED <<want, arg, cells, rejected>>

\* It is refused, the registry being full.
IsRejected(w) ==
  /\ rejected' = rejected + 1
  /\ wpc' = [wpc EXCEPT ![w] = "idle"]
  /\ want' = [want EXCEPT ![w] = NoWant] /\ arg' = [arg EXCEPT ![w] = 0]
  /\ UNCHANGED cells

\* A section under the unique lock ends in one of the three ways.
LEMMA CreateOutcome ==
  ASSUME NEW w \in Writers, Create(w)
  PROVE  /\ wpc[w] = "create" /\ ~scraping
         /\ UNCHANGED <<redacted, source, asked, used, scrapeVars>>
         /\ Makes(w) \/ Finds(w) \/ IsRejected(w)
<1>1. wpc[w] = "create" /\ ~scraping /\ UNCHANGED <<redacted, source, asked, used, scrapeVars>>
  BY DEF Create
<1>2. CASE want[w] \in DOMAIN cells /\ Goto(w, "use") /\ UNCHANGED <<cells, rejected>>
  BY <1>1, <1>2 DEF Goto, Finds
<1>3. CASE rejected' = rejected + 1 /\ Return(w) /\ UNCHANGED cells
  BY <1>1, <1>3 DEF Return, IsRejected
<1>4. CASE /\ want[w] \notin DOMAIN cells /\ Cardinality(DOMAIN cells) < MaxSeries
           /\ cells' = With(cells, want[w], 0)
           /\ Goto(w, "use") /\ UNCHANGED rejected
  <2>1. Makes(w)
    BY <1>4 DEF Goto, Makes, With
  <2>2. QED
    BY <1>1, <2>1
<1>5. QED
  BY <1>2, <1>3, <1>4 DEF Create

\* Rendering a series puts its value on the page.
LEMMA RenderOutcome ==
  ASSUME NEW s \in Series, Render(s)
  PROVE  /\ scraping /\ s \in todo /\ todo' = todo \ {s}
         /\ UNCHANGED writerVars /\ UNCHANGED <<floor, scraping>>
         /\ DOMAIN page' = DOMAIN page \cup {s}
         /\ \A x \in DOMAIN page \ {s} : page'[x] = page[x]
         /\ page'[s] = cells[s]
BY DEF Render, With, writerVars

\* The cap is decided on under the unique lock, so that no two writers share the last place.
LEMMA RegistryTypeStep ==
  ASSUME RegistryTypeOK, WritersInv, [RegistryNext]_registryVars
  PROVE  RegistryTypeOK'
<1> USE RegistryAssumption DEF RegistryTypeOK, WritersInv, Counting
<1>1. ASSUME NEW w \in Writers, NEW s \in Series, Ask(w, s)
      PROVE  RegistryTypeOK'
  BY <1>1 DEF Ask, scrapeVars, Args
<1>2. ASSUME NEW w \in Writers, Lookup(w)
      PROVE  RegistryTypeOK'
  BY <1>2 DEF Lookup, Goto, scrapeVars
<1>3. ASSUME NEW w \in Writers, Create(w)
      PROVE  RegistryTypeOK'
  <2>1. /\ wpc[w] = "create" /\ ~scraping
        /\ UNCHANGED <<redacted, source, asked, used, scrapeVars>>
        /\ Makes(w) \/ Finds(w) \/ IsRejected(w)
    BY <1>3, CreateOutcome
  <2>2. CASE Makes(w)
    <3>1. want[w] \in Series \ Secret /\ wpc' \in [Writers -> {"idle", "lookup", "create", "use"}]
      BY <2>1, <2>2 DEF Makes
    <3>2. IsFiniteSet(DOMAIN cells)
      BY FS_Subset
    <3>3. Cardinality(DOMAIN cells') = Cardinality(DOMAIN cells) + 1 /\ Cardinality(DOMAIN cells) \in Nat
      BY SMTT(30), <2>2, <3>2, FS_AddElement, FS_CardinalityType DEF Makes
    <3>4. Cardinality(DOMAIN cells') <= MaxSeries
      BY <2>2, <3>3 DEF Makes
    <3>5. DOMAIN cells' \subseteq Series \ Secret /\ \A s \in DOMAIN cells' : cells'[s] \in Nat
      BY <2>2, <3>1 DEF Makes
    <3>6. QED
      BY <2>1, <2>2, <3>1, <3>4, <3>5 DEF Makes, scrapeVars
  <2>3. CASE Finds(w)
    BY <2>1, <2>3 DEF RegistryTypeOK, Finds, scrapeVars
  <2>4. CASE IsRejected(w)
    BY <2>1, <2>4 DEF RegistryTypeOK, IsRejected, scrapeVars
  <2>5. QED
    BY <2>1, <2>2, <2>3, <2>4
<1>4. ASSUME NEW w \in Writers, Use(w)
      PROVE  RegistryTypeOK'
  <2>1. DOMAIN cells' = DOMAIN cells
    BY <1>4 DEF Use
  <2>2. \A s \in DOMAIN cells : cells'[s] \in Nat
    BY <1>4 DEF Use
  <2>3. QED
    BY <1>4, <2>1, <2>2 DEF Use, Return, scrapeVars
<1>5. ASSUME NEW s \in Mirrored, SourceGrows(s)
      PROVE  RegistryTypeOK'
  BY <1>5 DEF SourceGrows, scrapeVars
<1>6. CASE BeginExpose
  BY <1>6 DEF BeginExpose, writerVars, NoCells
<1>7. ASSUME NEW s \in Series, Render(s)
      PROVE  RegistryTypeOK'
  <2>1. /\ scraping /\ s \in todo /\ todo' = todo \ {s}
        /\ UNCHANGED <<cells, rejected, redacted, wpc, want, arg, source, asked, used>>
        /\ UNCHANGED <<floor, scraping>>
        /\ DOMAIN page' = DOMAIN page \cup {s}
        /\ \A x \in DOMAIN page \ {s} : page'[x] = page[x]
        /\ page'[s] = cells[s]
    BY <1>7, RenderOutcome DEF writerVars
  <2>2. QED
    BY <2>1
<1>8. CASE EndExpose
  BY <1>8 DEF EndExpose, writerVars, NoCells
<1>9. CASE UNCHANGED registryVars
  BY <1>9 DEF registryVars, writerVars, scrapeVars
<1>10. QED
  BY <1>1, <1>2, <1>3, <1>4, <1>5, <1>6, <1>7, <1>8, <1>9
     DEF RegistryNext, WriterStep

\* A cell that was found or made is there when it is used.
LEMMA WritersStep ==
  ASSUME RegistryTypeOK, WritersInv, MirrorsInv, [RegistryNext]_registryVars
  PROVE  WritersInv'
<1> USE RegistryAssumption DEF RegistryTypeOK, WritersInv, Counting
<1>1. ASSUME NEW w \in Writers, NEW s \in Series, Ask(w, s)
      PROVE  WritersInv'
  BY <1>1 DEF Ask, scrapeVars, Args, MirrorsInv
<1>2. ASSUME NEW w \in Writers, Lookup(w)
      PROVE  WritersInv'
  BY <1>2 DEF Lookup, Goto, scrapeVars
<1>3. ASSUME NEW w \in Writers, Create(w)
      PROVE  WritersInv'
  <2>1. /\ wpc[w] = "create" /\ ~scraping
        /\ UNCHANGED <<redacted, source, asked, used, scrapeVars>>
        /\ Makes(w) \/ Finds(w) \/ IsRejected(w)
    BY <1>3, CreateOutcome
  <2>2. CASE Makes(w)
    BY <2>1, <2>2 DEF RegistryTypeOK, Makes, scrapeVars
  <2>3. CASE Finds(w)
    BY <2>1, <2>3 DEF RegistryTypeOK, Finds, scrapeVars
  <2>4. CASE IsRejected(w)
    BY <2>1, <2>4 DEF RegistryTypeOK, IsRejected, scrapeVars
  <2>5. QED
    BY <2>1, <2>2, <2>3, <2>4
<1>4. ASSUME NEW w \in Writers, Use(w)
      PROVE  WritersInv'
  BY <1>4 DEF Use, Return, scrapeVars, NoWant
<1>5. ASSUME NEW s \in Mirrored, SourceGrows(s)
      PROVE  WritersInv'
  BY <1>5 DEF SourceGrows, scrapeVars
<1>6. CASE BeginExpose
  BY <1>6 DEF BeginExpose, writerVars
<1>7. ASSUME NEW s \in Series, Render(s)
      PROVE  WritersInv'
  <2>1. /\ scraping /\ s \in todo /\ todo' = todo \ {s}
        /\ UNCHANGED <<cells, rejected, redacted, wpc, want, arg, source, asked, used>>
        /\ UNCHANGED <<floor, scraping>>
        /\ DOMAIN page' = DOMAIN page \cup {s}
        /\ \A x \in DOMAIN page \ {s} : page'[x] = page[x]
        /\ page'[s] = cells[s]
    BY <1>7, RenderOutcome DEF writerVars
  <2>2. QED
    BY <2>1
<1>8. CASE EndExpose
  BY <1>8 DEF EndExpose, writerVars
<1>9. CASE UNCHANGED registryVars
  BY <1>9 DEF registryVars, writerVars, scrapeVars
<1>10. QED
  BY <1>1, <1>2, <1>3, <1>4, <1>5, <1>6, <1>7, <1>8, <1>9
     DEF RegistryNext, WriterStep

\* The counters owned elsewhere only grow, and one thread at a time copies them.
LEMMA MirrorsStep ==
  ASSUME RegistryTypeOK, WritersInv, MirrorsInv, [RegistryNext]_registryVars
  PROVE  MirrorsInv'
<1> USE RegistryAssumption DEF RegistryTypeOK, WritersInv, MirrorsInv, Counting
<1>1. ASSUME NEW w \in Writers, NEW s \in Series, Ask(w, s)
      PROVE  MirrorsInv'
  BY <1>1 DEF Ask, scrapeVars, Args
<1>2. ASSUME NEW w \in Writers, Lookup(w)
      PROVE  MirrorsInv'
  BY <1>2 DEF Lookup, Goto, scrapeVars
<1>3. ASSUME NEW w \in Writers, Create(w)
      PROVE  MirrorsInv'
  <2>1. /\ wpc[w] = "create" /\ ~scraping
        /\ UNCHANGED <<redacted, source, asked, used, scrapeVars>>
        /\ Makes(w) \/ Finds(w) \/ IsRejected(w)
    BY <1>3, CreateOutcome
  <2>2. CASE Makes(w)
    BY <2>1, <2>2 DEF RegistryTypeOK, Makes, scrapeVars
  <2>3. CASE Finds(w)
    BY <2>1, <2>3 DEF RegistryTypeOK, Finds, scrapeVars
  <2>4. CASE IsRejected(w)
    BY <2>1, <2>4 DEF RegistryTypeOK, IsRejected, scrapeVars
  <2>5. QED
    BY <2>1, <2>2, <2>3, <2>4
<1>4. ASSUME NEW w \in Writers, Use(w)
      PROVE  MirrorsInv'
  BY <1>4 DEF Use, Return, scrapeVars
<1>5. ASSUME NEW s \in Mirrored, SourceGrows(s)
      PROVE  MirrorsInv'
  BY <1>5 DEF SourceGrows, scrapeVars
<1>6. CASE BeginExpose
  BY <1>6 DEF BeginExpose, writerVars
<1>7. ASSUME NEW s \in Series, Render(s)
      PROVE  MirrorsInv'
  <2>1. /\ scraping /\ s \in todo /\ todo' = todo \ {s}
        /\ UNCHANGED <<cells, rejected, redacted, wpc, want, arg, source, asked, used>>
        /\ UNCHANGED <<floor, scraping>>
        /\ DOMAIN page' = DOMAIN page \cup {s}
        /\ \A x \in DOMAIN page \ {s} : page'[x] = page[x]
        /\ page'[s] = cells[s]
    BY <1>7, RenderOutcome DEF writerVars
  <2>2. QED
    BY <2>1
<1>8. CASE EndExpose
  BY <1>8 DEF EndExpose, writerVars
<1>9. CASE UNCHANGED registryVars
  BY <1>9 DEF registryVars, writerVars, scrapeVars
<1>10. QED
  BY <1>1, <1>2, <1>3, <1>4, <1>5, <1>6, <1>7, <1>8, <1>9
     DEF RegistryNext, WriterStep

\* An update counts for a cell that exists.
LEMMA CellsStep ==
  ASSUME RegistryTypeOK, WritersInv, CellsInv, [RegistryNext]_registryVars
  PROVE  CellsInv'
<1> USE RegistryAssumption DEF RegistryTypeOK, WritersInv, CellsInv
<1>1. ASSUME NEW w \in Writers, NEW s \in Series, Ask(w, s)
      PROVE  CellsInv'
  BY <1>1 DEF Ask, scrapeVars
<1>2. ASSUME NEW w \in Writers, Lookup(w)
      PROVE  CellsInv'
  BY <1>2 DEF Lookup, Goto, scrapeVars
<1>3. ASSUME NEW w \in Writers, Create(w)
      PROVE  CellsInv'
  <2>1. /\ wpc[w] = "create" /\ ~scraping
        /\ UNCHANGED <<redacted, source, asked, used, scrapeVars>>
        /\ Makes(w) \/ Finds(w) \/ IsRejected(w)
    BY <1>3, CreateOutcome
  <2>2. CASE Makes(w)
    BY <2>1, <2>2 DEF RegistryTypeOK, Makes, scrapeVars
  <2>3. CASE Finds(w)
    BY <2>1, <2>3 DEF RegistryTypeOK, Finds, scrapeVars
  <2>4. CASE IsRejected(w)
    BY <2>1, <2>4 DEF RegistryTypeOK, IsRejected, scrapeVars
  <2>5. QED
    BY <2>1, <2>2, <2>3, <2>4
<1>4. ASSUME NEW w \in Writers, Use(w)
      PROVE  CellsInv'
  <2>1. want[w] \in DOMAIN cells /\ want[w] \in Series /\ DOMAIN cells' = DOMAIN cells
    BY <1>4 DEF Use
  <2>2. cells' = [s \in DOMAIN cells' |-> cells'[s]]
    BY <1>4 DEF Use
  <2>3. used' \in [Series -> Nat] /\ \A s \in Series \ DOMAIN cells' : used'[s] = 0
    BY <1>4, <2>1 DEF Use
  <2>4. QED
    BY <1>4, <2>2, <2>3 DEF Use
<1>5. ASSUME NEW s \in Mirrored, SourceGrows(s)
      PROVE  CellsInv'
  BY <1>5 DEF SourceGrows, scrapeVars
<1>6. CASE BeginExpose
  BY <1>6 DEF BeginExpose, writerVars
<1>7. ASSUME NEW s \in Series, Render(s)
      PROVE  CellsInv'
  <2>1. /\ scraping /\ s \in todo /\ todo' = todo \ {s}
        /\ UNCHANGED <<cells, rejected, redacted, wpc, want, arg, source, asked, used>>
        /\ UNCHANGED <<floor, scraping>>
        /\ DOMAIN page' = DOMAIN page \cup {s}
        /\ \A x \in DOMAIN page \ {s} : page'[x] = page[x]
        /\ page'[s] = cells[s]
    BY <1>7, RenderOutcome DEF writerVars
  <2>2. QED
    BY <2>1
<1>8. CASE EndExpose
  BY <1>8 DEF EndExpose, writerVars
<1>9. CASE UNCHANGED registryVars
  BY <1>9 DEF registryVars, writerVars, scrapeVars
<1>10. QED
  BY <1>1, <1>2, <1>3, <1>4, <1>5, <1>6, <1>7, <1>8, <1>9
     DEF RegistryNext, WriterStep

\* While a scrape holds its lock no series is added, and no counter falls.
LEMMA ScrapeStep ==
  ASSUME RegistryTypeOK, WritersInv, MirrorsInv, PageIsCurrent, ScrapeInv, [RegistryNext]_registryVars
  PROVE  ScrapeInv'
<1> USE RegistryAssumption DEF RegistryTypeOK, WritersInv, MirrorsInv, PageIsCurrent, ScrapeInv, Counting
<1>1. ASSUME NEW w \in Writers, NEW s \in Series, Ask(w, s)
      PROVE  ScrapeInv'
  BY <1>1 DEF Ask, scrapeVars
<1>2. ASSUME NEW w \in Writers, Lookup(w)
      PROVE  ScrapeInv'
  BY <1>2 DEF Lookup, Goto, scrapeVars
<1>3. ASSUME NEW w \in Writers, Create(w)
      PROVE  ScrapeInv'
  <2>1. /\ wpc[w] = "create" /\ ~scraping
        /\ UNCHANGED <<redacted, source, asked, used, scrapeVars>>
        /\ Makes(w) \/ Finds(w) \/ IsRejected(w)
    BY <1>3, CreateOutcome
  <2>2. CASE Makes(w)
    BY <2>1, <2>2 DEF RegistryTypeOK, Makes, scrapeVars
  <2>3. CASE Finds(w)
    BY <2>1, <2>3 DEF RegistryTypeOK, Finds, scrapeVars
  <2>4. CASE IsRejected(w)
    BY <2>1, <2>4 DEF RegistryTypeOK, IsRejected, scrapeVars
  <2>5. QED
    BY <2>1, <2>2, <2>3, <2>4
<1>4. ASSUME NEW w \in Writers, Use(w)
      PROVE  ScrapeInv'
  BY <1>4 DEF Use, Return, scrapeVars
<1>5. ASSUME NEW s \in Mirrored, SourceGrows(s)
      PROVE  ScrapeInv'
  BY <1>5 DEF SourceGrows, scrapeVars
<1>6. CASE BeginExpose
  BY <1>6 DEF BeginExpose, writerVars, NoCells
<1>7. ASSUME NEW s \in Series, Render(s)
      PROVE  ScrapeInv'
  <2>1. /\ scraping /\ s \in todo /\ todo' = todo \ {s}
        /\ UNCHANGED <<cells, rejected, redacted, wpc, want, arg, source, asked, used>>
        /\ UNCHANGED <<floor, scraping>>
        /\ DOMAIN page' = DOMAIN page \cup {s}
        /\ \A x \in DOMAIN page \ {s} : page'[x] = page[x]
        /\ page'[s] = cells[s]
    BY <1>7, RenderOutcome DEF writerVars
  <2>2. QED
    BY <2>1
<1>8. CASE EndExpose
  BY <1>8 DEF EndExpose, writerVars
<1>9. CASE UNCHANGED registryVars
  BY <1>9 DEF registryVars, writerVars, scrapeVars
<1>10. QED
  BY <1>1, <1>2, <1>3, <1>4, <1>5, <1>6, <1>7, <1>8, <1>9
     DEF RegistryNext, WriterStep

\* What is rendered is between the values at the begin of the scrape and now.
LEMMA PageStep ==
  ASSUME RegistryTypeOK, WritersInv, MirrorsInv, PageIsCurrent, ScrapeInv, [RegistryNext]_registryVars
  PROVE  PageIsCurrent'
<1> USE RegistryAssumption DEF RegistryTypeOK, WritersInv, MirrorsInv, PageIsCurrent, ScrapeInv, Counting
<1>1. ASSUME NEW w \in Writers, NEW s \in Series, Ask(w, s)
      PROVE  PageIsCurrent'
  BY <1>1 DEF Ask, scrapeVars
<1>2. ASSUME NEW w \in Writers, Lookup(w)
      PROVE  PageIsCurrent'
  BY <1>2 DEF Lookup, Goto, scrapeVars
<1>3. ASSUME NEW w \in Writers, Create(w)
      PROVE  PageIsCurrent'
  <2>1. /\ wpc[w] = "create" /\ ~scraping
        /\ UNCHANGED <<redacted, source, asked, used, scrapeVars>>
        /\ Makes(w) \/ Finds(w) \/ IsRejected(w)
    BY <1>3, CreateOutcome
  <2>2. CASE Makes(w)
    BY <2>1, <2>2 DEF RegistryTypeOK, Makes, scrapeVars
  <2>3. CASE Finds(w)
    BY <2>1, <2>3 DEF RegistryTypeOK, Finds, scrapeVars
  <2>4. CASE IsRejected(w)
    BY <2>1, <2>4 DEF RegistryTypeOK, IsRejected, scrapeVars
  <2>5. QED
    BY <2>1, <2>2, <2>3, <2>4
<1>4. ASSUME NEW w \in Writers, Use(w)
      PROVE  PageIsCurrent'
  BY <1>4 DEF Use, Return, scrapeVars
<1>5. ASSUME NEW s \in Mirrored, SourceGrows(s)
      PROVE  PageIsCurrent'
  BY <1>5 DEF SourceGrows, scrapeVars
<1>6. CASE BeginExpose
  BY <1>6 DEF BeginExpose, writerVars, NoCells
<1>7. ASSUME NEW s \in Series, Render(s)
      PROVE  PageIsCurrent'
  <2>1. /\ scraping /\ s \in todo /\ todo' = todo \ {s}
        /\ UNCHANGED <<cells, rejected, redacted, wpc, want, arg, source, asked, used>>
        /\ UNCHANGED <<floor, scraping>>
        /\ DOMAIN page' = DOMAIN page \cup {s}
        /\ \A x \in DOMAIN page \ {s} : page'[x] = page[x]
        /\ page'[s] = cells[s]
    BY <1>7, RenderOutcome DEF writerVars
  <2>2. QED
    BY <2>1
<1>8. CASE EndExpose
  BY <1>8 DEF EndExpose, writerVars
<1>9. CASE UNCHANGED registryVars
  BY <1>9 DEF registryVars, writerVars, scrapeVars
<1>10. QED
  BY <1>1, <1>2, <1>3, <1>4, <1>5, <1>6, <1>7, <1>8, <1>9
     DEF RegistryNext, WriterStep

-----------------------------------------------------------------------------
(* No update disappears. *)

Busy == {v \in Writers : wpc[v] # "idle"}
Given == Cardinality(Updates)

LEMMA BusyType ==
  ASSUME NEW W, W \subseteq Writers
  PROVE  IsFiniteSet(W) /\ Cardinality(W) \in Nat
BY RegistryAssumption, FS_Subset, FS_CardinalityType

LEMMA UpdatesType ==
  ASSUME CellsInv
  PROVE  IsFiniteSet(Updates) /\ Given \in Nat
<1> DEFINE Of(s) == {s} \X (1 .. used[s])
<1>1. ASSUME NEW s \in Series
      PROVE  IsFiniteSet(Of(s))
  <2>1. used[s] \in Nat
    BY DEF CellsInv
  <2>2. IsFiniteSet({s}) /\ IsFiniteSet(1 .. used[s])
    <3>1. 1 \in Int /\ used[s] \in Int
      BY <2>1
    <3>2. IsFiniteSet(1 .. used[s])
      BY <3>1, FS_Interval, Zenon
    <3>3. QED
      BY <3>2, FS_Singleton
  <2>3. IsFiniteSet({s} \X (1 .. used[s]))
    BY <2>2, FS_Product, Zenon
  <2>4. QED
    BY <2>3, Zenon
<1> HIDE DEF Of
<1>2. IsFiniteSet({Of(s) : s \in Series})
  <2> DEFINE f == [s \in Series |-> Of(s)]
  <2>1. f \in Surjection(Series, {Of(s) : s \in Series})
    BY DEF Surjection
  <2>2. IsFiniteSet(Series)
    BY RegistryAssumption
  <2> HIDE DEF f
  <2>3. QED
    BY <2>1, <2>2, FS_Surjection
<1>3. IsFiniteSet(UNION {Of(s) : s \in Series})
  BY <1>1, <1>2, FS_UNION
<1>4. IsFiniteSet(Updates)
  BY <1>3 DEF Updates, Of
<1>5. QED
  BY <1>4, FS_CardinalityType DEF Given

\* An update more of one series is one more update.
LEMMA OneUpdate ==
  ASSUME CellsInv, NEW s \in Series, used' = [used EXCEPT ![s] = @ + 1]
  PROVE  Given' = Given + 1
<1> DEFINE u == <<s, used[s] + 1>>
<1>1. used \in [Series -> Nat]
  BY DEF CellsInv
<1>2. ASSUME NEW x
      PROVE  x \in Updates <=> \E r \in Series : \E n \in 1 .. used[r] : x = <<r, n>>
  BY DEF Updates
<1>3. ASSUME NEW x
      PROVE  x \in Updates' <=> \E r \in Series : \E n \in 1 .. used'[r] : x = <<r, n>>
  BY DEF Updates
<1>4. u \notin Updates
  <2>1. SUFFICES ASSUME NEW r \in Series, NEW n \in 1 .. used[r], u = <<r, n>>
                 PROVE  FALSE
    BY <1>2
  <2>2. QED
    BY <1>1, <2>1
<1>5. ASSUME NEW x \in Updates'
      PROVE  x \in Updates \cup {u}
  <2>0. PICK r \in Series : \E n \in 1 .. used'[r] : x = <<r, n>>
    BY <1>3
  <2>1. PICK n \in 1 .. used'[r] : x = <<r, n>>
    BY <2>0
  <2>2. CASE r = s /\ n = used[s] + 1
    BY <2>1, <2>2
  <2>3. CASE ~(r = s /\ n = used[s] + 1)
    <3>1. n \in 1 .. used[r]
      BY <1>1, <2>1, <2>3
    <3>2. QED
      BY <1>2, <2>1, <3>1
  <2>4. QED
    BY <2>2, <2>3
<1>6. ASSUME NEW x \in Updates \cup {u}
      PROVE  x \in Updates'
  <2>1. CASE x = u
    <3>1. used[s] + 1 \in 1 .. used'[s]
      BY <1>1
    <3>2. QED
      BY <1>3, <2>1, <3>1
  <2>2. CASE x \in Updates
    <3>0. PICK r \in Series : \E n \in 1 .. used[r] : x = <<r, n>>
      BY <1>2, <2>2
    <3>1. PICK n \in 1 .. used[r] : x = <<r, n>>
      BY <3>0
    <3>2. n \in 1 .. used'[r]
      BY <1>1, <3>1
    <3>3. QED
      BY <1>3, <3>1, <3>2
  <2>3. QED
    BY <2>1, <2>2
<1> HIDE DEF u
<1>7. Updates' = Updates \cup {u}
  BY <1>5, <1>6
<1>8. QED
  BY <1>4, <1>7, UpdatesType, FS_AddElement DEF Given

\* A writer that begins is one more at work.
LEMMA OneBegins ==
  ASSUME RegistryTypeOK, NEW w \in Writers, NEW l, l # "idle", wpc[w] = "idle",
         wpc' = [wpc EXCEPT ![w] = l]
  PROVE  Cardinality(Busy') = Cardinality(Busy) + 1
<1>1. Busy' = Busy \cup {w} /\ w \notin Busy /\ Busy \subseteq Writers
  BY DEF Busy, RegistryTypeOK
<1>2. QED
  BY <1>1, BusyType, FS_AddElement

\* One that returns is one less.
LEMMA OneReturns ==
  ASSUME RegistryTypeOK, NEW w \in Writers, wpc[w] # "idle",
         wpc' = [wpc EXCEPT ![w] = "idle"]
  PROVE  Cardinality(Busy') = Cardinality(Busy) - 1
<1>1. Busy' = Busy \ {w} /\ w \in Busy /\ Busy \subseteq Writers
  BY DEF Busy, RegistryTypeOK
<1>2. QED
  BY <1>1, BusyType, FS_RemoveElement

\* One that goes on is no change.
LEMMA OneGoesOn ==
  ASSUME RegistryTypeOK, NEW w \in Writers, wpc[w] # "idle", NEW l, l # "idle",
         wpc' = [wpc EXCEPT ![w] = l]
  PROVE  Busy' = Busy
BY DEF Busy, RegistryTypeOK

\* A call in progress that did not return leaves the books as they are.
LEMMA BooksKept ==
  ASSUME UpdatesAccounted, UNCHANGED <<asked, used, rejected, redacted>>, Busy' = Busy
  PROVE  asked' = Given' + rejected' + redacted' + Cardinality(Busy')
<1>1. asked = Given + rejected + redacted + Cardinality(Busy)
  BY DEF UpdatesAccounted, Given, Busy
<1>2. QED
  BY <1>1 DEF Given, Updates

\* Every call that returns has its update in a cell or its refusal in a counter.
LEMMA BooksStep ==
  ASSUME RegistryTypeOK, WritersInv, CellsInv, UpdatesAccounted, [RegistryNext]_registryVars
  PROVE  asked' = Given' + rejected' + redacted' + Cardinality(Busy')
<1> USE RegistryAssumption
<1>0. /\ asked = Given + rejected + redacted + Cardinality(Busy)
      /\ Given \in Nat /\ Cardinality(Busy) \in Nat
      /\ rejected \in Nat /\ redacted \in Nat /\ asked \in Nat
  <2>1. asked = Given + rejected + redacted + Cardinality(Busy)
    BY DEF UpdatesAccounted, Given, Busy
  <2>3. Given \in Nat
    BY UpdatesType
  <2>4. Cardinality(Busy) \in Nat
    BY BusyType DEF Busy
  <2>5. QED
    BY <2>1, <2>3, <2>4 DEF RegistryTypeOK, CellsInv
<1>1. ASSUME NEW w \in Writers, NEW s \in Series, Ask(w, s)
      PROVE  asked' = Given' + rejected' + redacted' + Cardinality(Busy')
  <2>1. asked' = asked + 1 /\ Given' = Given /\ rejected' = rejected /\ wpc[w] = "idle"
    BY <1>1 DEF Ask, Given, Updates
  <2>2. CASE redacted' = redacted + 1 /\ UNCHANGED wpc
    <3>1. Busy' = Busy
      BY <2>2 DEF Busy
    <3>2. QED
      BY <1>0, <2>1, <2>2, <3>1
  <2>3. CASE wpc' = [wpc EXCEPT ![w] = "lookup"] /\ UNCHANGED redacted
    <3>1. Cardinality(Busy') = Cardinality(Busy) + 1
      BY <2>1, <2>3, OneBegins
    <3>2. QED
      BY <1>0, <2>1, <2>3, <3>1
  <2>4. QED
    BY <1>1, <2>2, <2>3 DEF Ask
<1>2. ASSUME NEW w \in Writers, Lookup(w)
      PROVE  asked' = Given' + rejected' + redacted' + Cardinality(Busy')
  <2>1. Busy' = Busy
    <3>1. /\ wpc[w] # "idle"
          /\ \/ wpc' = [wpc EXCEPT ![w] = "use"]
             \/ wpc' = [wpc EXCEPT ![w] = "create"]
      BY <1>2 DEF Lookup, Goto
    <3>2. QED
      BY <3>1, OneGoesOn
  <2>2. QED
    BY <1>2, <2>1, BooksKept DEF Lookup
<1>3. ASSUME NEW w \in Writers, Create(w)
      PROVE  asked' = Given' + rejected' + redacted' + Cardinality(Busy')
  <2>1. /\ wpc[w] # "idle" /\ UNCHANGED <<redacted, asked, used>>
        /\ Makes(w) \/ Finds(w) \/ IsRejected(w)
    BY <1>3, CreateOutcome
  <2>2. CASE Makes(w) \/ Finds(w)
    <3>1. wpc' = [wpc EXCEPT ![w] = "use"] /\ UNCHANGED rejected
      BY <2>2 DEF Makes, Finds
    <3>2. Busy' = Busy
      BY <2>1, <3>1, OneGoesOn
    <3>3. QED
      BY <2>1, <3>1, <3>2, BooksKept
  <2>3. CASE IsRejected(w)
    <3>1. rejected' = rejected + 1 /\ wpc' = [wpc EXCEPT ![w] = "idle"]
      BY <2>3 DEF IsRejected
    <3>2. Cardinality(Busy') = Cardinality(Busy) - 1
      BY <2>1, <3>1, OneReturns
    <3>3. Given' = Given
      BY <2>1 DEF Given, Updates
    <3>4. QED
      BY <1>0, <2>1, <3>1, <3>2, <3>3
  <2>4. QED
    BY <2>1, <2>2, <2>3
<1>4. ASSUME NEW w \in Writers, Use(w)
      PROVE  asked' = Given' + rejected' + redacted' + Cardinality(Busy')
  <2>1. /\ wpc[w] # "idle" /\ UNCHANGED <<rejected, redacted, asked>>
        /\ wpc' = [wpc EXCEPT ![w] = "idle"]
        /\ used' = [used EXCEPT ![want[w]] = @ + 1]
    BY <1>4 DEF Use, Return
  <2>2. Cardinality(Busy') = Cardinality(Busy) - 1
    BY <2>1, OneReturns
  <2>3. want[w] \in Series /\ used \in [Series -> Nat]
    BY <2>1 DEF WritersInv, CellsInv
  <2>6. Given' = Given + 1
    BY <2>1, <2>3, OneUpdate
  <2>7. QED
    BY <1>0, <2>1, <2>2, <2>6
<1>5. ASSUME NEW s \in Mirrored, SourceGrows(s)
      PROVE  asked' = Given' + rejected' + redacted' + Cardinality(Busy')
  BY <1>5, BooksKept DEF SourceGrows, Busy
<1>6. CASE BeginExpose
  BY <1>6, BooksKept DEF BeginExpose, writerVars, Busy
<1>7. ASSUME NEW s \in Series, Render(s)
      PROVE  asked' = Given' + rejected' + redacted' + Cardinality(Busy')
  BY <1>7, BooksKept DEF Render, writerVars, Busy
<1>8. CASE EndExpose
  BY <1>8, BooksKept DEF EndExpose, writerVars, Busy
<1>9. CASE UNCHANGED registryVars
  BY <1>9, BooksKept DEF registryVars, writerVars, Busy
<1>10. QED
  BY <1>1, <1>2, <1>3, <1>4, <1>5, <1>6, <1>7, <1>8, <1>9
     DEF RegistryNext, WriterStep


\* A counter counts the updates that got its cell.
LEMMA CountedStep ==
  ASSUME RegistryTypeOK, WritersInv, CellsInv, UpdatesAccounted, [RegistryNext]_registryVars
  PROVE  \A x \in DOMAIN cells' \cap Counting : cells'[x] = used'[x]
<1> USE RegistryAssumption DEF RegistryTypeOK, WritersInv, CellsInv, Counting
<1>0. \A s \in DOMAIN cells \cap Counting : cells[s] = used[s]
  BY DEF UpdatesAccounted
<1>1. ASSUME NEW w \in Writers, NEW s \in Series, Ask(w, s)
      PROVE  \A x \in DOMAIN cells' \cap Counting : cells'[x] = used'[x]
  BY <1>0, <1>1 DEF Ask, scrapeVars
<1>2. ASSUME NEW w \in Writers, Lookup(w)
      PROVE  \A x \in DOMAIN cells' \cap Counting : cells'[x] = used'[x]
  BY <1>0, <1>2 DEF Lookup, Goto, scrapeVars
<1>3. ASSUME NEW w \in Writers, Create(w)
      PROVE  \A x \in DOMAIN cells' \cap Counting : cells'[x] = used'[x]
  <2>1. /\ wpc[w] = "create" /\ ~scraping
        /\ UNCHANGED <<redacted, source, asked, used, scrapeVars>>
        /\ Makes(w) \/ Finds(w) \/ IsRejected(w)
    BY <1>3, CreateOutcome
  <2>2. CASE Makes(w)
    BY <1>0, <2>1, <2>2 DEF RegistryTypeOK, Makes, scrapeVars
  <2>3. CASE Finds(w)
    BY <1>0, <2>1, <2>3 DEF RegistryTypeOK, Finds, scrapeVars
  <2>4. CASE IsRejected(w)
    BY <1>0, <2>1, <2>4 DEF RegistryTypeOK, IsRejected, scrapeVars
  <2>5. QED
    BY <2>1, <2>2, <2>3, <2>4
<1>4. ASSUME NEW w \in Writers, Use(w)
      PROVE  \A x \in DOMAIN cells' \cap Counting : cells'[x] = used'[x]
  <2>1. DOMAIN cells' = DOMAIN cells /\ want[w] \in Series /\ want[w] \in DOMAIN cells
    BY <1>4 DEF Use
  <2>2. ASSUME NEW s \in DOMAIN cells \cap Counting
        PROVE  cells'[s] = used'[s]
    <3>1. CASE s = want[w]
      <4>1. arg[w] = 1 /\ cells'[s] = cells[s] + arg[w] /\ used'[s] = used[s] + 1
        BY <1>4, <2>1, <3>1 DEF Use
      <4>2. QED
        BY <1>0, <4>1
    <3>2. CASE s # want[w]
      BY <1>0, <1>4, <3>2 DEF Use
    <3>3. QED
      BY <3>1, <3>2
  <2>3. QED
    BY <2>1, <2>2
<1>5. ASSUME NEW s \in Mirrored, SourceGrows(s)
      PROVE  \A x \in DOMAIN cells' \cap Counting : cells'[x] = used'[x]
  BY <1>0, <1>5 DEF SourceGrows, scrapeVars
<1>6. CASE BeginExpose
  BY <1>0, <1>6 DEF BeginExpose, writerVars
<1>7. ASSUME NEW s \in Series, Render(s)
      PROVE  \A x \in DOMAIN cells' \cap Counting : cells'[x] = used'[x]
  <2>1. /\ scraping /\ s \in todo /\ todo' = todo \ {s}
        /\ UNCHANGED <<cells, rejected, redacted, wpc, want, arg, source, asked, used>>
        /\ UNCHANGED <<floor, scraping>>
        /\ DOMAIN page' = DOMAIN page \cup {s}
        /\ \A x \in DOMAIN page \ {s} : page'[x] = page[x]
        /\ page'[s] = cells[s]
    BY <1>7, RenderOutcome DEF writerVars
  <2>2. QED
    BY <1>0, <2>1
<1>8. CASE EndExpose
  BY <1>0, <1>8 DEF EndExpose, writerVars
<1>9. CASE UNCHANGED registryVars
  BY <1>0, <1>9 DEF registryVars, writerVars
<1>10. QED
  BY <1>1, <1>2, <1>3, <1>4, <1>5, <1>6, <1>7, <1>8, <1>9
     DEF RegistryNext, WriterStep

\* No step of the registry removes a series or lowers a counter.
LEMMA NoFallStep ==
  ASSUME RegistryTypeOK, WritersInv, MirrorsInv, [RegistryNext]_registryVars
  PROVE  \A x \in DOMAIN cells \ Gauges : x \in DOMAIN cells' /\ cells[x] <= cells'[x]
<1> USE RegistryAssumption DEF RegistryTypeOK, WritersInv, MirrorsInv, Counting
<1>1. ASSUME NEW w \in Writers, NEW s \in Series, Ask(w, s)
      PROVE  \A x \in DOMAIN cells \ Gauges : x \in DOMAIN cells' /\ cells[x] <= cells'[x]
  BY <1>1 DEF Ask, scrapeVars
<1>2. ASSUME NEW w \in Writers, Lookup(w)
      PROVE  \A x \in DOMAIN cells \ Gauges : x \in DOMAIN cells' /\ cells[x] <= cells'[x]
  BY <1>2 DEF Lookup, Goto, scrapeVars
<1>3. ASSUME NEW w \in Writers, Create(w)
      PROVE  \A x \in DOMAIN cells \ Gauges : x \in DOMAIN cells' /\ cells[x] <= cells'[x]
  <2>1. /\ wpc[w] = "create" /\ ~scraping
        /\ UNCHANGED <<redacted, source, asked, used, scrapeVars>>
        /\ Makes(w) \/ Finds(w) \/ IsRejected(w)
    BY <1>3, CreateOutcome
  <2>2. CASE Makes(w)
    BY <2>1, <2>2 DEF RegistryTypeOK, Makes, scrapeVars
  <2>3. CASE Finds(w)
    BY <2>1, <2>3 DEF RegistryTypeOK, Finds, scrapeVars
  <2>4. CASE IsRejected(w)
    BY <2>1, <2>4 DEF RegistryTypeOK, IsRejected, scrapeVars
  <2>5. QED
    BY <2>1, <2>2, <2>3, <2>4
<1>4. ASSUME NEW w \in Writers, Use(w)
      PROVE  \A x \in DOMAIN cells \ Gauges : x \in DOMAIN cells' /\ cells[x] <= cells'[x]
  BY <1>4 DEF Use, Return, scrapeVars
<1>5. ASSUME NEW s \in Mirrored, SourceGrows(s)
      PROVE  \A x \in DOMAIN cells \ Gauges : x \in DOMAIN cells' /\ cells[x] <= cells'[x]
  BY <1>5 DEF SourceGrows, scrapeVars
<1>6. CASE BeginExpose
  BY <1>6 DEF BeginExpose, writerVars
<1>7. ASSUME NEW s \in Series, Render(s)
      PROVE  \A x \in DOMAIN cells \ Gauges : x \in DOMAIN cells' /\ cells[x] <= cells'[x]
  <2>1. /\ scraping /\ s \in todo /\ todo' = todo \ {s}
        /\ UNCHANGED <<cells, rejected, redacted, wpc, want, arg, source, asked, used>>
        /\ UNCHANGED <<floor, scraping>>
        /\ DOMAIN page' = DOMAIN page \cup {s}
        /\ \A x \in DOMAIN page \ {s} : page'[x] = page[x]
        /\ page'[s] = cells[s]
    BY <1>7, RenderOutcome DEF writerVars
  <2>2. QED
    BY <2>1
<1>8. CASE EndExpose
  BY <1>8 DEF EndExpose, writerVars
<1>9. CASE UNCHANGED registryVars
  BY <1>9 DEF registryVars, writerVars, scrapeVars
<1>10. QED
  BY <1>1, <1>2, <1>3, <1>4, <1>5, <1>6, <1>7, <1>8, <1>9
     DEF RegistryNext, WriterStep

-----------------------------------------------------------------------------
(* The server. *)

\* A client is in the backlog or at hand, never both; the thread is joined before main goes on.
LEMMA ServerTypeStep ==
  ASSUME ServerTypeOK, ServerInv, [ServerNext]_httpVars
  PROVE  ServerTypeOK'
<1> USE HttpAssumption DEF ServerTypeOK, ServerInv
<1>1. CASE Start
  BY <1>1 DEF Start
<1>2. CASE StartFails
  BY <1>2 DEF StartFails
<1>3. CASE Stop
  BY <1>3 DEF Stop, Alive
<1>4. CASE Close
  BY <1>4 DEF Close, ReleaseSocket, Hangup
<1>5. CASE Join
  BY <1>5 DEF Join, Alive
<1>6. CASE Check
  BY <1>6 DEF Check
<1>7. CASE Enter
  BY <1>7 DEF Enter
<1>8. CASE Recv
  BY <1>8 DEF Recv, Finish
<1>9. CASE Reply
  BY <1>9 DEF Reply, Finish
<1>10. CASE AcceptFails
  BY <1>10 DEF AcceptFails, ReleaseSocket, Hangup
<1>11. CASE Answered
  BY <1>11 DEF Answered
<1>12. ASSUME NEW c \in Clients, Accept(c)
       PROVE  ServerTypeOK'
  BY <1>12 DEF Accept, ReleaseSocket, Hangup
<1>13. ASSUME NEW c \in Clients, Connect(c)
       PROVE  ServerTypeOK'
  BY <1>13 DEF Connect, Alive
<1>14. ASSUME NEW c \in Clients, Request(c)
       PROVE  ServerTypeOK'
  BY <1>14 DEF Request
<1>15. ASSUME NEW c \in Clients, Leave(c)
       PROVE  ServerTypeOK'
  BY <1>15 DEF Leave
<1>16. CASE UNCHANGED httpVars
  BY <1>16 DEF httpVars
<1>17. QED
  BY <1>1, <1>2, <1>3, <1>4, <1>5, <1>6, <1>7, <1>8, <1>9, <1>10, <1>11, <1>12,
     <1>13, <1>14, <1>15, <1>16
     DEF ServerNext

\* The server has one client at hand.
LEMMA ServerInvStep ==
  ASSUME ServerTypeOK, ServerInv, [ServerNext]_httpVars
  PROVE  ServerInv'
<1> USE HttpAssumption DEF ServerTypeOK, ServerInv
<1>1. CASE Start
  BY <1>1 DEF Start
<1>2. CASE StartFails
  BY <1>2 DEF StartFails
<1>3. CASE Stop
  BY <1>3 DEF Stop, Alive
<1>4. CASE Close
  BY <1>4 DEF Close, ReleaseSocket, Hangup
<1>5. CASE Join
  BY <1>5 DEF Join, Alive
<1>6. CASE Check
  BY <1>6 DEF Check
<1>7. CASE Enter
  BY <1>7 DEF Enter
<1>8. CASE Recv
  BY <1>8 DEF Recv, Finish
<1>9. CASE Reply
  BY <1>9 DEF Reply, Finish
<1>10. CASE AcceptFails
  BY <1>10 DEF AcceptFails, ReleaseSocket, Hangup
<1>11. CASE Answered
  BY <1>11 DEF Answered
<1>12. ASSUME NEW c \in Clients, Accept(c)
       PROVE  ServerInv'
  BY <1>12 DEF Accept, ReleaseSocket, Hangup
<1>13. ASSUME NEW c \in Clients, Connect(c)
       PROVE  ServerInv'
  BY <1>13 DEF Connect, Alive
<1>14. ASSUME NEW c \in Clients, Request(c)
       PROVE  ServerInv'
  BY <1>14 DEF Request
<1>15. ASSUME NEW c \in Clients, Leave(c)
       PROVE  ServerInv'
  BY <1>15 DEF Leave
<1>16. CASE UNCHANGED httpVars
  BY <1>16 DEF httpVars
<1>17. QED
  BY <1>1, <1>2, <1>3, <1>4, <1>5, <1>6, <1>7, <1>8, <1>9, <1>10, <1>11, <1>12,
     <1>13, <1>14, <1>15, <1>16
     DEF ServerNext
\* No update disappears.
LEMMA AccountedStep ==
  ASSUME RegistryTypeOK, WritersInv, CellsInv, UpdatesAccounted, [RegistryNext]_registryVars
  PROVE  UpdatesAccounted'
<1>1. \A s \in DOMAIN cells' \cap Counting : cells'[s] = used'[s]
  BY CountedStep
<1>2. asked' = Given' + rejected' + redacted' + Cardinality(Busy')
  BY BooksStep
<1>3. QED
  BY <1>1, <1>2 DEF UpdatesAccounted, Given, Busy

-----------------------------------------------------------------------------
(* The theorems. *)

\* It holds before the first line is written.
LEMMA InvInit ==
  ASSUME Init
  PROVE  IInv
<1> USE RegistryAssumption, HttpAssumption DEF Init, RegistryInit, HttpInit, NoCells
<1>1. Cardinality(DOMAIN cells) = 0 /\ DOMAIN cells = {}
  BY FS_EmptySet
<1>2. RegistryTypeOK
  <2>1. Cardinality(DOMAIN cells) <= MaxSeries /\ rejected \in Nat /\ redacted \in Nat
    BY <1>1
  <2>2. DOMAIN page \subseteq Series /\ todo \subseteq Series /\ scraping \in BOOLEAN
    OBVIOUS
  <2>3. QED
    BY <1>1, <2>1, <2>2 DEF RegistryTypeOK
<1>3. ServerTypeOK /\ ServerInv
  BY DEF ServerTypeOK, ServerInv
<1>4. WritersInv /\ MirrorsInv /\ CellsInv /\ ScrapeInv /\ PageIsCurrent
  BY <1>1 DEF WritersInv, MirrorsInv, CellsInv, ScrapeInv, PageIsCurrent
<1>5. UpdatesAccounted
  <2>1. Cardinality(Busy) = 0
    <3>1. Busy = {}
      BY DEF Busy
    <3>2. QED
      BY <3>1, FS_EmptySet
  <2>2. Given = 0
    <3>1. \A s \in Series : {s} \X (1 .. used[s]) = {}
      OBVIOUS
    <3>2. Updates = {}
      BY <3>1 DEF Updates
    <3>3. QED
      BY <3>2, FS_EmptySet DEF Given
  <2>3. asked = 0 /\ rejected = 0 /\ redacted = 0
    OBVIOUS
  <2>4. asked = Given + rejected + redacted + Cardinality(Busy)
    BY <2>1, <2>2, <2>3
  <2>5. QED
    BY <1>1, <2>4 DEF UpdatesAccounted, Given, Busy
<1>6. QED
  BY <1>2, <1>3, <1>4, <1>5 DEF IInv, TypeOK

\* Every step keeps it, if both logs are read.
LEMMA InvStep ==
  ASSUME IInv, [Next]_vars
  PROVE  IInv'
<1> USE DEF IInv, TypeOK
<1>1. [RegistryNext]_registryVars /\ [ServerNext]_httpVars
  BY Parts
<1>2. RegistryTypeOK' /\ WritersInv' /\ MirrorsInv' /\ CellsInv'
  BY <1>1, RegistryTypeStep, WritersStep, MirrorsStep, CellsStep
<1>3. ScrapeInv' /\ PageIsCurrent' /\ UpdatesAccounted'
  BY <1>1, ScrapeStep, PageStep, AccountedStep
<1>4. ServerTypeOK' /\ ServerInv'
  BY <1>1, ServerTypeStep, ServerInvStep
<1>5. QED
  BY <1>2, <1>3, <1>4

(***************************************************************************)
(* The inductive invariant holds for any writers, series, cap and clients. *)
(***************************************************************************)
THEOREM Invariance == Spec => []IInv
<1>1. Init => IInv
  BY InvInit
<1>2. IInv /\ [Next]_vars => IInv'
  BY InvStep
<1>3. QED
  BY <1>1, <1>2, PTL DEF Spec

(***************************************************************************)
(* The registry never has more series than its cap allows, the client at   *)
(* hand is not in the backlog, and no handler runs after stop().           *)
(***************************************************************************)
THEOREM TypeCorrect == Spec => []TypeOK
<1>1. IInv => TypeOK
  BY DEF IInv
<1>2. QED
  BY <1>1, Invariance, PTL

(***************************************************************************)
(* Every update is in a cell or in the counter of its refusal.             *)
(***************************************************************************)
THEOREM NoUpdateLost == Spec => []UpdatesAccounted
<1>1. IInv => UpdatesAccounted
  BY DEF IInv
<1>2. QED
  BY <1>1, Invariance, PTL

(***************************************************************************)
(* A page names the series there were when its scrape began, with values   *)
(* no older than that.                                                     *)
(***************************************************************************)
THEOREM PagesCurrent == Spec => []PageIsCurrent
<1>1. IInv => PageIsCurrent
  BY DEF IInv
<1>2. QED
  BY <1>1, Invariance, PTL

\* A step of the registry removes no series and lowers no counter.
LEMMA NoFall ==
  ASSUME IInv, [Next]_vars
  PROVE  \A s \in DOMAIN cells \ Gauges : s \in DOMAIN cells' /\ cells[s] <= cells'[s]
<1> USE DEF IInv, TypeOK
<1>1. [RegistryNext]_registryVars
  BY Parts
<1>2. QED
  BY <1>1, NoFallStep

(***************************************************************************)
(* No series disappears and no counter falls: the mirrored ones because    *)
(* one thread alone copies them, each time a value it has just read.       *)
(***************************************************************************)
THEOREM CountersGrow == Spec => CountersNeverFall
<1>1. IInv /\ [Next]_vars =>
        [\A s \in DOMAIN cells \ Gauges : s \in DOMAIN cells' /\ cells[s] <= cells'[s]]_vars
  BY NoFall
<1>2. QED
  BY <1>1, Invariance, PTL DEF Spec, CountersNeverFall

=============================================================================
