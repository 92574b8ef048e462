------------------------------ MODULE LargeRuns ------------------------------
(***************************************************************************)
(* The large runs of the dashboard API: the summary that is cached beside  *)
(* a run, and the pages of requests and artifacts that clients follow with *)
(* cursors, while the proxy appends to the run from another process        *)
(* (src/surfaces/dashboard-api/large-runs.ts and routes.ts,                *)
(* src/analysis/large-run.ts).                                             *)
(*                                                                         *)
(* What a run will hold is given by Log, the pieces its file is written    *)
(* in; the file is the first size[r] of them.  A run only grows, so its    *)
(* size is the version that the code knows by size and mtime.              *)
(***************************************************************************)
EXTENDS Naturals, Sequences, FiniteSets, SequencesExt

CONSTANTS
  Runs,
  Log,           \* for each run: what it will hold, see Piece
  Clients,       \* dashboards that load pages
  Followed,      \* what they load: a run and a request in it, or None for its requests
  PageLimit,
  MaxRequests,   \* bound on the requests to the API
  MaxRemovals,   \* bound on the runs a user deletes
  MaxWriteFails, \* bound on the cache writes that fail
  None

\* A line is written in one or more pieces, and counts once its last one is there.
Piece == [request : Nat, kind : {"artifact", "usage"}, ends : BOOLEAN]

ASSUME LargeRunsAssumption ==
  /\ IsFiniteSet(Runs)
  /\ \A r \in Runs : Log[r] \in Seq(Piece)
  /\ \A f \in Followed : f.run \in Runs
  /\ PageLimit \in Nat \ {0}
  /\ MaxRequests \in Nat /\ MaxRemovals \in Nat /\ MaxWriteFails \in Nat

VARIABLES
  size,       \* the pieces in events.jsonl of each run; 0 when there is no file
  removed,    \* the runs that were deleted
  summaries,  \* the cached summary of each run, or None
  client,     \* each client: its request in progress and the pages it has
  alive,      \* the API process runs
  raced,      \* whether a summary was read from a file grown since its stat
  mishaps     \* the bounded steps, counted

fileVars == <<size, removed, summaries, mishaps>>

largeVars == <<size, removed, summaries, client, alive, raced, mishaps>>

-----------------------------------------------------------------------------
(***************************************************************************)
(* What summarizeLargeRun and pageLargeRunArtifacts make of the first n    *)
(* pieces of a run: streamEventsFromRunDir gives the closed lines only.    *)
(***************************************************************************)
Lines(r, n) == {i \in 1..n : Log[r][i].ends}

IsTorn(r, n) == n > 0 /\ ~Log[r][n].ends

Latest(r, n, q) == CHOOSE i \in Lines(r, n) :
  Log[r][i].request = q /\ \A j \in Lines(r, n) : Log[r][j].request = q => j <= i

\* The members of a set in order: each is at the place that those before it leave.
InOrder(S, Before(_, _)) ==
  [n \in 1..Cardinality(S) |-> CHOOSE x \in S : Cardinality({y \in S : Before(y, x)}) = n - 1]

\* The request rows, newest first: a row has the time of its latest event.
Requests(r, n) ==
  InOrder({Log[r][i].request : i \in Lines(r, n)},
          LAMBDA p, q : Latest(r, n, p) > Latest(r, n, q))

\* The lines of the artifacts of a request, which name them.
ArtifactLines(r, n, q) ==
  {i \in Lines(r, n) : Log[r][i].kind = "artifact" /\ Log[r][i].request = q}

\* The artifacts of a request in the order of the file.
ArtifactsOf(r, n, q) == InOrder(ArtifactLines(r, n, q), LAMBDA i, j : i < j)

\* pageLargeRunRequests and pageLargeRunArtifacts.
PageItems(rows, offset) ==
  SubSeq(rows, offset + 1, IF offset + PageLimit < Len(rows) THEN offset + PageLimit ELSE Len(rows))

HasNext(rows, offset) == offset + Len(PageItems(rows, offset)) < Len(rows)

\* Slip: the next page begins with the last item of this one.
NextOffsetInclusive(rows, offset) ==
  IF HasNext(rows, offset) THEN offset + Len(PageItems(rows, offset)) - 1 ELSE None

NextOffset(rows, offset) ==
  IF HasNext(rows, offset) THEN offset + Len(PageItems(rows, offset)) ELSE None

-----------------------------------------------------------------------------
(***************************************************************************)
(* A client follows one list at a time.  "pages" are what it has shown of  *)
(* it, "of" the versions they were made from, and the cursor is what the   *)
(* API gave it to go on: an offset and the version of the source.          *)
(***************************************************************************)
NoList == [run |-> None, request |-> None, pages |-> <<>>, of |-> {}, next |-> None, at |-> 0]

Resting(list) == [list |-> list, step |-> "idle", source |-> 0, read |-> 0]

LargeInit ==
  /\ size = [r \in Runs |-> 0]
  /\ removed = {}
  /\ summaries = [r \in Runs |-> None]
  /\ client = [c \in Clients |-> Resting(NoList)]
  /\ alive = TRUE
  /\ raced = FALSE
  /\ mishaps = [requests |-> 0, removals |-> 0, writes |-> 0]

Count(what) == mishaps' = [mishaps EXCEPT ![what] = @ + 1]

\* The proxy writes a piece, from another process.
Grow(r) ==
  /\ r \notin removed /\ size[r] < Len(Log[r])
  /\ size' = [size EXCEPT ![r] = @ + 1]
  /\ UNCHANGED <<removed, summaries, client, alive, raced, mishaps>>

\* A user deletes the directory of a run.
DeleteRun(r) ==
  /\ size[r] > 0 /\ mishaps.removals < MaxRemovals
  /\ size' = [size EXCEPT ![r] = 0]
  /\ removed' = removed \cup {r}
  /\ summaries' = [summaries EXCEPT ![r] = None]
  /\ Count("removals")
  /\ UNCHANGED <<client, alive, raced>>

\* 400, 422 or 500: the client drops the list.
Refuse(c) == client' = [client EXCEPT ![c] = Resting(NoList)]

Answer(c, rows, of) ==
  LET list == client[c].list IN
  client' = [client EXCEPT ![c] = Resting(
    [list EXCEPT !.pages = @ \o PageItems(rows, list.next),
                 !.of = @ \cup {of},
                 !.next = NextOffset(rows, list.next),
                 !.at = client[c].source])]

(***************************************************************************)
(* A request up to the answer of its stat.  The first page is that of the  *)
(* requests of a run, or of the artifacts of one of them; a later one has  *)
(* a cursor, which is good for the version it was made from only.          *)
(***************************************************************************)
Fetch(c, list) ==
  /\ alive /\ client[c].step = "idle" /\ mishaps.requests < MaxRequests
  /\ IF size[list.run] = 0 \/ (list.of # {} /\ list.at # size[list.run]) THEN Refuse(c)
     ELSE client' = [client EXCEPT ![c] =
            [list |-> list, step |-> IF list.request = None THEN "cache" ELSE "artifacts",
             source |-> size[list.run], read |-> 0]]
  /\ Count("requests")
  /\ UNCHANGED <<size, removed, summaries, alive, raced>>

FetchFirst(c) == \E f \in Followed :
  Fetch(c, [NoList EXCEPT !.run = f.run, !.request = f.request, !.next = 0])

FetchNext(c) == client[c].list.next # None /\ Fetch(c, client[c].list)

\* createLargeRunArtifactPage streams the run each time.
PageArtifacts(c) ==
  LET r == client[c].list.run IN
  /\ client[c].step = "artifacts"
  /\ IF size[r] = 0 THEN Refuse(c)
     ELSE Answer(c, ArtifactsOf(r, size[r], client[c].list.request), size[r])
  /\ UNCHANGED <<fileVars, alive, raced>>

(***************************************************************************)
(* readLargeRunSummary, the steps of which the session list takes too: the *)
(* cached summary when it has the version that was asked for, or else one  *)
(* made from the file as it now is, and stored under that version.         *)
(***************************************************************************)
IsCached(r, source) == summaries[r] # None /\ summaries[r].at = source

StoreSummary(r, source, read) ==
  /\ r \notin removed
  /\ summaries' = [summaries EXCEPT ![r] = [at |-> source, of |-> read]]
  /\ UNCHANGED mishaps

\* A write that fails is ignored; it may have emptied the file.  After the directory
\* is gone, every write fails.
StoreFails(r) ==
  \/ r \in removed /\ UNCHANGED <<summaries, mishaps>>
  \/ /\ r \notin removed /\ mishaps.writes < MaxWriteFails
     /\ summaries' = [summaries EXCEPT ![r] = None]
     /\ Count("writes")

PageCached(c) ==
  LET r == client[c].list.run IN
  /\ client[c].step = "cache"
  /\ IF IsCached(r, client[c].source)
     THEN Answer(c, Requests(r, summaries[r].of), summaries[r].of)
     ELSE client' = [client EXCEPT ![c].step = "stream"]
  /\ UNCHANGED <<fileVars, alive, raced>>

PageStream(c) ==
  LET r == client[c].list.run IN
  /\ client[c].step = "stream"
  /\ IF size[r] = 0 THEN Refuse(c)
     ELSE client' = [client EXCEPT ![c].step = "store", ![c].read = size[r]]
  /\ raced' = (raced \/ size[r] > client[c].source)
  /\ UNCHANGED <<fileVars, alive>>

PageStore(c) ==
  LET r == client[c].list.run IN
  /\ client[c].step = "store"
  /\ StoreSummary(r, client[c].source, client[c].read) \/ StoreFails(r)
  /\ Answer(c, Requests(r, client[c].read), client[c].read)
  /\ UNCHANGED <<size, removed, alive, raced>>

PageStep(c) ==
  PageArtifacts(c) \/ PageCached(c) \/ PageStream(c) \/ PageStore(c)

LargeNext ==
  \/ \E r \in Runs : Grow(r) \/ DeleteRun(r)
  \/ \E c \in Clients : FetchFirst(c) \/ FetchNext(c) \/ PageStep(c)

-----------------------------------------------------------------------------
Versions(r) == 0..Len(Log[r])

LargeTypeOK ==
  /\ \A r \in Runs : size[r] \in Versions(r)
  /\ removed \subseteq Runs
  /\ \A r \in Runs : summaries[r] = None \/ summaries[r] \in [at : Versions(r), of : Versions(r)]
  /\ \A c \in Clients : client[c].step \in {"idle", "cache", "stream", "store", "artifacts"}
  /\ alive \in BOOLEAN /\ raced \in BOOLEAN
  /\ mishaps.requests \in 0..MaxRequests /\ mishaps.removals \in 0..MaxRemovals
  /\ mishaps.writes \in 0..MaxWriteFails

\* A summary that is taken for that of a version of the run has all the events of the
\* version, whatever is appended while it is made and whoever else makes one: it may
\* be newer than it says, and is then not asked for again.
SummariesAreFresh ==
  \A r \in Runs : summaries[r] # None => summaries[r].of >= summaries[r].at

\* The pages of artifacts that a client has followed by cursors are the first artifacts
\* of the request in the order of the file, none twice and none left out, though the
\* file grows between and during its fetches.
ArtifactPagesTile ==
  \A c \in Clients :
    LET list == client[c].list
    IN  list.request # None /\ list.run \notin removed =>
          IsPrefix(list.pages, ArtifactsOf(list.run, size[list.run], list.request))

\* So are the pages of requests the newest requests of one version, unless a file grew
\* between the stat of a fetch and the reading of its summary.
RequestPagesTile ==
  ~raced => \A c \in Clients :
    LET list == client[c].list
    IN  list.run # None /\ list.request = None =>
          \A v \in list.of : IsPrefix(list.pages, Requests(list.run, v))

\* The pages a client follows are those of one run as it was, whatever cache they come from.
PagesTile == SummariesAreFresh /\ ArtifactPagesTile /\ RequestPagesTile
=============================================================================
