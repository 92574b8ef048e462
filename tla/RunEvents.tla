------------------------------ MODULE RunEvents ------------------------------
(***************************************************************************)
(* The canonical events of a run (src/core/events, src/core/privacy) as    *)
(* the Codex recorder makes them, and how the analyzers take them up       *)
(* (src/analysis/run-data.ts, exposure.ts, persistence.ts).                *)
(*                                                                         *)
(* "events" is always the list of events in the order of the file.  The    *)
(* hash of a content is the content; times count from 0.                   *)
(***************************************************************************)
EXTENDS CodexArtifacts, FiniteSetsExt

CONSTANT TokenCount(_)   \* the tokens of a content, as the local tokenizer counts them

StorageModes == {"metadata", "preview", "raw"}

\* applyStorageMode: what of the content the event keeps for a reader.
Kept(content, mode) ==
  CASE mode = "metadata" -> [preview |-> None, raw |-> None]
    [] mode = "preview"  -> [preview |-> content, raw |-> None]
    [] mode = "raw"      -> [preview |-> None, raw |-> content]

\* createArtifactEvent, for the artifact that starts after "start" tokens of its request.
ArtifactEvent(request, artifact, index, start, mode, time) ==
  [kind |-> "artifact", request |-> request, time |-> time,
   artifact |-> artifact.id, name |-> artifact.name, type |-> artifact.type,
   content |-> artifact.content, tokens |-> TokenCount(artifact.content), index |-> index,
   start |-> start, end |-> start + TokenCount(artifact.content),
   metadata |-> artifact.metadata, mode |-> mode, kept |-> Kept(artifact.content, mode)]

\* createArtifactEvent as "token-profiler record" calls it: a file of nobody's request,
\* without metadata or a place in the input.
HandEvent(request, file, content, mode, time) ==
  [kind |-> "artifact", request |-> request, time |-> time,
   artifact |-> <<"FILE", file>>, name |-> <<file>>, type |-> "FILE",
   content |-> content, tokens |-> TokenCount(content), index |-> None,
   start |-> None, end |-> None, metadata |-> <<>>, mode |-> mode, kept |-> Kept(content, mode)]

\* createRequestTurnIdentityEvent.  "malformed" is a turn that could not be parsed.
TurnEvent(request, turn, time) ==
  [kind |-> "turn", request |-> request, time |-> time, turn |-> turn,
   source |-> CASE turn = None                    -> "missing"
                [] turn = "malformed"             -> "malformed"
                [] turn \notin {None, "malformed"} -> "direct"]

\* createRequestUsageEvent
UsageEvent(request, usage, time) ==
  [kind |-> "usage", request |-> request, time |-> time,
   input |-> usage.input, cached |-> usage.cached,
   uncached |-> Max({0, usage.input - usage.cached}),
   output |-> usage.output, total |-> usage.input + usage.output]

\* recordPayloadArtifacts: the events of a request, of which each is appended before
\* the next one is made; their times are those of the appends.
EventsOf(request, artifacts, turn, mode) ==
  LET start(i) == FoldLeft(+, 0, [j \in 1..(i - 1) |-> TokenCount(artifacts[j].content)])
  IN  <<TurnEvent(request, turn, 0)>>
      \o [i \in DOMAIN artifacts |-> ArtifactEvent(request, artifacts[i], i, start(i), mode, 0)]

Recording(request, payload, turn, mode) == EventsOf(request, Extract(payload), turn, mode)

\* validateArtifactEvent: what is kept is what the storage mode promises.
ValidArtifact(e) ==
  /\ e.request # None /\ e.artifact # None /\ e.name # None /\ e.content # None /\ e.tokens \in Nat
  /\ e.mode \in StorageModes
  /\ e.kept.preview # None <=> e.mode = "preview"
  /\ e.kept.raw # None <=> e.mode = "raw"

\* validateRequestUsageEvent
ValidUsage(e) ==
  e.request # None /\ {e.input, e.cached, e.uncached, e.output, e.total} \subseteq Nat

\* validateRequestTurnIdentityEvent
ValidTurn(e) ==
  /\ e.request # None /\ e.source \in {"direct", "missing", "malformed"}
  /\ e.source = "direct" => e.turn # None

\* validateEvent, without which no run that holds the event can be analyzed.
Valid(e) ==
  \/ e.kind = "artifact" /\ ValidArtifact(e)
  \/ e.kind = "usage" /\ ValidUsage(e)
  \/ e.kind = "turn" /\ ValidTurn(e)

-----------------------------------------------------------------------------
(***************************************************************************)
(* prepareRunData                                                          *)
(***************************************************************************)
\* Sorting by a key leaves what it does not tell apart in the order it was in.
StableSort(s, Before(_, _)) ==
  LET before(i, j) == Before(s[i], s[j]) \/ (~Before(s[j], s[i]) /\ i < j)
      order == Sorted(DOMAIN s, {p \in (DOMAIN s) \X (DOMAIN s) : before(p[1], p[2])})
  IN  [k \in DOMAIN order |-> s[order[k]]]

IsBefore(e, f) == e.time < f.time \/ (e.time = f.time /\ e.request < f.request)

PlacesOf(events, kind) == {k \in DOMAIN events : events[k].kind = kind}

OfKind(events, kind) ==
  LET places == Ascending(PlacesOf(events, kind)) IN [n \in DOMAIN places |-> events[places[n]]]

\* Where the events of this kind of a request are.
PlacesIn(events, kind, request) ==
  {k \in PlacesOf(events, kind) : events[k].request = request}

\* Slip: the artifacts stay in the order of the file.
ArtifactsAsRecorded(events) == OfKind(events, "artifact")

Artifacts(events) == StableSort(OfKind(events, "artifact"), IsBefore)

UsedRequests(events) == {events[k].request : k \in PlacesOf(events, "usage")}

\* Slip: the first usage of a request counts.
FirstUsageOf(events, request) ==
  LET own == PlacesIn(events, "usage", request) IN IF own = {} THEN None ELSE events[Min(own)]

\* The last usage of a request counts.
UsageOf(events, request) ==
  LET own == PlacesIn(events, "usage", request) IN IF own = {} THEN None ELSE events[Max(own)]

\* Slip: the latest turn of a request counts.
LastTurnFactOf(events, request) ==
  LET own == PlacesIn(events, "turn", request) IN IF own = {} THEN None ELSE events[Max(own)]

\* firstTurnFactByRequest: the earliest turn of a request counts.
TurnFactOf(events, request) ==
  LET own == PlacesIn(events, "turn", request)
  IN  IF own = {} THEN None
      ELSE events[CHOOSE k \in own : \A j \in own \ {k} :
                    events[k].time < events[j].time \/ (events[k].time = events[j].time /\ k < j)]

-----------------------------------------------------------------------------
(***************************************************************************)
(* analyzeExposure: what of the context is there again.  "A" is the list   *)
(* of artifact events in the order of Artifacts.                           *)
(***************************************************************************)
Tokens(A, inclusions) == MapThenSumSet(LAMBDA i : A[i].tokens, inclusions)

\* The inclusions that show their content for the first time in the run.
Firsts(A) == {i \in DOMAIN A : \A j \in 1..(i - 1) : A[j].content # A[i].content}

Ids(A) == {A[i].artifact : i \in DOMAIN A}

Own(A, id) == {i \in DOMAIN A : A[i].artifact = id}

InRequest(A, request) == {i \in DOMAIN A : A[i].request = request}

IsGeneric(name) ==
  Len(name) = 3 /\ name[1] \in {"tool", "tool-call", "input"} /\ name[3] # None

Specificity(metadata) ==
  LET has(key) == key \in DOMAIN metadata
  IN  (IF has("command") THEN 4 ELSE 0) + (IF has("touched_files") THEN 3 ELSE 0)
      + (IF has("output_preview") THEN 2 ELSE 0) + (IF has("source_display_name") THEN 2 ELSE 0)
      + (IF has("content_kind") THEN 1 ELSE 0) + (IF has("tool_name") THEN 1 ELSE 0)

ReplacesName(current, next) ==
  /\ "display_name" \in DOMAIN next
  /\ "display_name" \in DOMAIN current =>
       \/ Specificity(next) > Specificity(current)
       \/ IsGeneric(current.display_name) /\ ~IsGeneric(next.display_name)

\* mergeMetadata: what is known stays, lists grow, and a better name replaces another.
MergeMetadata(current, next) ==
  LET both == DOMAIN current \cap DOMAIN next IN
  (IF "touched_files" \in both
   THEN "touched_files" :> (current.touched_files \cup next.touched_files) ELSE <<>>)
  @@ (IF ReplacesName(current, next) THEN "display_name" :> next.display_name ELSE <<>>)
  @@ current @@ next

Aggregate(A, id) ==
  LET own == Own(A, id) IN
  [total      |-> Tokens(A, own),
   unique     |-> Tokens(A, own \cap Firsts(A)),
   repeated   |-> Tokens(A, own \ Firsts(A)),
   inclusions |-> Cardinality(own),
   hashes     |-> Cardinality({A[i].content : i \in own}),
   metadata   |-> FoldLeft(MergeMetadata, <<>>,
                    [k \in 1..Cardinality(own) |-> A[Ascending(own)[k]].metadata]),
   first      |-> A[Min(own)].time,
   last       |-> A[Max(own)].time]

Exposure(A) ==
  [total    |-> Tokens(A, DOMAIN A),
   unique   |-> Tokens(A, Firsts(A)),
   repeated |-> Tokens(A, DOMAIN A) - Tokens(A, Firsts(A)),
   artifacts |-> [id \in Ids(A) |-> Aggregate(A, id)]]

-----------------------------------------------------------------------------
(***************************************************************************)
(* analyzePersistence, over the requests in their order: an artifact that  *)
(* is in a request after one it is not in was reintroduced.                *)
(***************************************************************************)
Persistence(A, order, id) ==
  LET at == {k \in DOMAIN order : \E i \in Own(A, id) : A[i].request = order[k]}
      span == Max(at) - Min(at) + 1
      gaps == span - Cardinality(at)
  IN  [span |-> span, gaps |-> gaps,
       class |-> CASE gaps > 0 -> "reintroduced"
                   [] gaps = 0 -> IF Cardinality(Own(A, id)) > 1 THEN "continuous"
                                                                 ELSE "uncertain"]
=============================================================================
