--------------------------- MODULE SessionCatalog ---------------------------
(***************************************************************************)
(* The session list of the dashboard API: the scan of all runs, the        *)
(* catalog file that spares it, and the rebuild of the catalog in the      *)
(* background (createDashboardSessionIndex in                              *)
(* src/surfaces/dashboard-api/sessions.ts, src/core/store/                 *)
(* session-catalog.ts), beside the clients of LargeRuns, with which it     *)
(* shares the cached summaries of large runs.                              *)
(***************************************************************************)
EXTENDS LargeRuns

CONSTANTS
  LargeSize,  \* a run with more pieces is large
  Lists,      \* handlers of GET /api/sessions, as many at once
  Rebuild     \* the rebuild in the background

ASSUME CatalogAssumption ==
  /\ Rebuild \notin Lists /\ LargeSize \in Nat

VARIABLES
  catalog,  \* the entries of the catalog file by run, or None
  scan,     \* each call of createDashboardSessionIndex
  answer    \* the last list each handler answered

catalogVars == <<catalog, scan, answer>>

vars == <<largeVars, catalogVars>>

Scans == Lists \cup {Rebuild}

IsLarge(n) == n > LargeSize

NoScan == [step |-> "idle", since |-> [r \in Runs |-> 0], left |-> {}, sources |-> <<>>,
           run |-> None, source |-> 0, read |-> 0, rows |-> <<>>]

NoAnswer == [kind |-> "none", rows |-> <<>>, since |-> [r \in Runs |-> 0]]

Init ==
  /\ LargeInit
  /\ catalog = None
  /\ scan = [p \in Scans |-> NoScan]
  /\ answer = [h \in Lists |-> NoAnswer]

At(p, step) == scan[p].step = step

\* The call ends with an answer; the rebuild has nobody to answer.
Finish(p, kind, rows) ==
  /\ scan' = [scan EXCEPT ![p] = NoScan]
  /\ answer' = IF p = Rebuild THEN answer
               ELSE [answer EXCEPT ![p] = [kind |-> kind, rows |-> rows, since |-> scan[p].since]]

\* Everything in the process ends with it.
Dies ==
  /\ alive' = FALSE
  /\ scan' = [p \in Scans |-> NoScan]
  /\ client' = [c \in Clients |-> Resting(NoList)]

-----------------------------------------------------------------------------
(***************************************************************************)
(* The scan: one run after the other is stat'ed and read, a large one by   *)
(* its summary.  The code between two awaits is one step: a row is added,  *)
(* and the next runs of the listing are stat'ed up to one that is there.   *)
(***************************************************************************)
Row(state, of) == [state |-> state, of |-> of]

There(runs) == {r \in runs : size[r] > 0}

\* The loop goes on with one of the runs that are left, or ends.
Advance(p, since, left, rows) ==
  \/ /\ There(left) = {}
     /\ scan' = [scan EXCEPT ![p] = [NoScan EXCEPT !.step = "entries", !.since = since, !.rows = rows]]
  \/ \E r \in There(left) :
       scan' = [scan EXCEPT ![p] = [NoScan EXCEPT
         !.step = IF IsLarge(size[r]) THEN "cache" ELSE "read",
         !.since = since, !.rows = rows, !.left = left \ {r},
         !.run = r, !.source = size[r]]]

\* Slip: the row takes the place of the earlier ones.
AddRowAlone(p, row) == Advance(p, scan[p].since, scan[p].left, [r \in {scan[p].run} |-> row])

WithRow(rows, run, row) ==
  [r \in DOMAIN rows \cup {run} |-> IF r = run THEN row ELSE rows[r]]

AddRow(p, row) ==
  Advance(p, scan[p].since, scan[p].left, WithRow(scan[p].rows, scan[p].run, row))

\* A GET of /api/sessions, up to the listing and the stats of all runs: when one of them is
\* large, the handler looks for the catalog, and else begins to scan.
AskForList(h) ==
  /\ alive /\ At(h, "idle") /\ mishaps.requests < MaxRequests
  /\ IF \E r \in Runs : IsLarge(size[r])
     THEN scan' = [scan EXCEPT ![h] = [NoScan EXCEPT !.step = "catalog", !.since = size]]
     ELSE Advance(h, size, There(Runs), <<>>)
  /\ answer' = [answer EXCEPT ![h] = NoAnswer]
  /\ Count("requests")
  /\ UNCHANGED <<size, removed, summaries, client, alive, raced, catalog>>

\* The rebuild reads the directory too, and never looks for the catalog.
StartRebuild ==
  /\ At(Rebuild, "list")
  /\ Advance(Rebuild, NoScan.since, There(Runs), <<>>)
  /\ UNCHANGED <<largeVars, catalog, answer>>

\* readCurrentSessionCatalog.
IsCurrent(sources) ==
  /\ catalog # None
  /\ Cardinality(DOMAIN catalog) = Cardinality(DOMAIN sources)
  /\ \A r \in DOMAIN catalog : r \in DOMAIN sources /\ sources[r] = catalog[r].at

\* A current catalog is the answer; without one the answer is what the stats gave, and
\* a rebuild starts unless one is going on.
ReadCatalog(h) ==
  LET sources == [r \in {r \in Runs : scan[h].since[r] > 0} |-> scan[h].since[r]] IN
  /\ At(h, "catalog")
  /\ IF IsCurrent(sources)
     THEN Finish(h, "catalog", catalog)
     ELSE /\ scan' = [scan EXCEPT ![h] = NoScan,
                ![Rebuild] = IF At(Rebuild, "idle") THEN [NoScan EXCEPT !.step = "list"] ELSE @]
          /\ answer' = [answer EXCEPT ![h] =
               [kind |-> "stat", rows |-> sources, since |-> scan[h].since]]
  /\ UNCHANGED <<largeVars, catalog>>

\* Slip: the reader waits for the end of the line.
ReadRunPatiently(p) ==
  LET r == scan[p].run IN
  /\ At(p, "read")
  /\ size[r] = 0 \/ ~IsTorn(r, size[r])
  /\ AddRow(p, IF size[r] = 0 THEN Row("unavailable", 0) ELSE Row("complete", size[r]))
  /\ UNCHANGED <<largeVars, catalog, answer>>

\* readEventsFromRunDir refuses an open line at the end, and a run that is gone.
ReadRun(p) ==
  LET r == scan[p].run IN
  /\ At(p, "read")
  /\ AddRow(p, IF size[r] = 0 \/ IsTorn(r, size[r]) THEN Row("unavailable", 0)
               ELSE Row("complete", size[r]))
  /\ UNCHANGED <<largeVars, catalog, answer>>

ReadCached(p) ==
  LET r == scan[p].run IN
  /\ At(p, "cache")
  /\ IF IsCached(r, scan[p].source) THEN AddRow(p, Row("partial", summaries[r].of))
     ELSE scan' = [scan EXCEPT ![p].step = "stream"]
  /\ UNCHANGED <<largeVars, catalog, answer>>

Summarize(p) ==
  LET r == scan[p].run IN
  /\ At(p, "stream")
  /\ IF size[r] = 0 THEN AddRow(p, Row("unavailable", 0))
     ELSE scan' = [scan EXCEPT ![p].step = "store", ![p].read = size[r]]
  /\ raced' = (raced \/ size[r] > scan[p].source)
  /\ UNCHANGED <<fileVars, client, alive, catalog, answer>>

StoreScanned(p) ==
  LET r == scan[p].run IN
  /\ At(p, "store")
  /\ StoreSummary(r, scan[p].source, scan[p].read) \/ StoreFails(r)
  /\ AddRow(p, Row("partial", scan[p].read))
  /\ UNCHANGED <<size, removed, client, alive, raced, catalog, answer>>

(***************************************************************************)
(* At the end every run is stat'ed once more for its entry in the catalog. *)
(* That throws for a run that has gone: the handler answers 500; nothing   *)
(* awaits the rebuild, and its rejection ends the process.                 *)
(***************************************************************************)
MakeEntries(p) ==
  LET rows == scan[p].rows IN
  /\ At(p, "entries")
  /\ \A r \in DOMAIN rows : size[r] > 0
  /\ scan' = [scan EXCEPT ![p].step = "write",
       ![p].sources = [r \in DOMAIN rows |-> size[r]]]
  /\ UNCHANGED <<largeVars, catalog, answer>>

\* Slip: a run that cannot be read fails the scan as one that has gone does.
EntryIsGoneUncaught(p) ==
  /\ At(p, "entries") /\ ~(\A r \in DOMAIN scan[p].rows : scan[p].rows[r].state # "unavailable")
  /\ Dies /\ UNCHANGED answer
  /\ UNCHANGED <<fileVars, raced, catalog>>

EntryIsGone(p) ==
  /\ At(p, "entries") /\ \E r \in DOMAIN scan[p].rows : size[r] = 0
  /\ IF p = Rebuild THEN Dies /\ UNCHANGED answer
     ELSE Finish(p, "error", <<>>) /\ UNCHANGED <<alive, client>>
  /\ UNCHANGED <<fileVars, raced, catalog>>

\* A failing write is ignored, and may leave the file empty.
WriteCatalog(p) ==
  LET rows == scan[p].rows
      entries == [r \in DOMAIN rows |->
                    [state |-> rows[r].state, of |-> rows[r].of, at |-> scan[p].sources[r]]]
  IN  /\ At(p, "write")
      /\ \/ catalog' = entries /\ UNCHANGED mishaps
         \/ mishaps.writes < MaxWriteFails /\ catalog' = None /\ Count("writes")
      /\ Finish(p, "full", rows)
      /\ UNCHANGED <<size, removed, summaries, client, alive, raced>>

ScanStep(p) ==
  \/ ReadRun(p) \/ ReadCached(p)
  \/ Summarize(p) \/ StoreScanned(p) \/ MakeEntries(p) \/ EntryIsGone(p) \/ WriteCatalog(p)

ListNext ==
  \/ \E h \in Lists : AskForList(h) \/ ReadCatalog(h)
  \/ \E p \in Scans : ScanStep(p)
  \/ StartRebuild

Next == (LargeNext /\ UNCHANGED catalogVars) \/ ListNext

\* Each await of the process ends; neither the proxy nor a client has to do anything.
Fairness ==
  /\ \A p \in Scans : WF_vars(ScanStep(p))
  /\ \A h \in Lists : WF_vars(ReadCatalog(h))
  /\ WF_vars(StartRebuild)

Spec == Init /\ [][Next]_vars

FairSpec == Spec /\ Fairness

-----------------------------------------------------------------------------
\* Types of the variables.
TypeOK ==
  /\ LargeTypeOK
  /\ catalog # None => DOMAIN catalog \subseteq Runs
  /\ \A p \in Scans : scan[p].left \subseteq Runs /\ DOMAIN scan[p].rows \subseteq Runs
                      /\ scan[p].run \in Runs \cup {None}
  /\ \A h \in Lists : answer[h].kind \in {"none", "full", "catalog", "stat", "error"}

\* A list that was made by a scan has every run that was there when it was asked for,
\* and no row is older than the run was then.
ScannedListIsFresh ==
  \A h \in Lists : answer[h].kind = "full" =>
    \A r \in Runs \ removed : answer[h].since[r] > 0 =>
      /\ r \in DOMAIN answer[h].rows
      /\ answer[h].rows[r].state # "unavailable" => answer[h].rows[r].of >= answer[h].since[r]

\* A list from the catalog leaves out no run that was there, as it would if only the
\* entries were compared and not their number.
CatalogListIsWhole ==
  \A h \in Lists : answer[h].kind = "catalog" =>
    \A r \in Runs \ removed : answer[h].since[r] > 0 => r \in DOMAIN answer[h].rows

\* Typed, and every list whole and as fresh as its kind promises.
ListsAreTrue == TypeOK /\ ScannedListIsFresh /\ CatalogListIsWhole

\* What the data model of the catalog says of it and the code does not keep: an entry
\* that matches the size of its run counts what the run holds.
MatchingEntryIsCurrent ==
  catalog # None => \A r \in DOMAIN catalog :
    catalog[r].state # "unavailable" => Lines(r, catalog[r].at) \subseteq Lines(r, catalog[r].of)

\* As long as no run is deleted, whatever else happens to the files ends no process.
ServerSurvives == removed = {} => alive

\* Every list that is asked for is answered, and every rebuild ends, so that a later
\* one may start.
EveryScanEnds == \A p \in Scans : scan[p].step # "idle" ~> scan[p].step = "idle"
=============================================================================
