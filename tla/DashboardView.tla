---------------------------- MODULE DashboardView ----------------------------
(***************************************************************************)
(* What the dashboard API answers for a run: the analysis made into rows,  *)
(* details, tasks and turns that name each other by id                     *)
(* (src/surfaces/dashboard-api/view-model.ts, privacy.ts), cut down to the *)
(* fields of the public contract (responses.ts).                           *)
(*                                                                         *)
(* Artifacts and their details are functions on the artifact ids: the      *)
(* order of the rows is the reader's to choose.  Caveats and the texts for *)
(* searching are left out.                                                 *)
(***************************************************************************)
EXTENDS TurnGroups

\* Object spread: the entry k of map is v.
Put(map, k, v) == [x \in DOMAIN map \cup {k} |-> IF x = k THEN v ELSE map[x]]

\* stableShortId, the last ten characters: those of a call are those of its output.
ShortId(id) == SubSeq(id, Max({2, Len(id) - 2}), Len(id))

-----------------------------------------------------------------------------
(***************************************************************************)
(* dashboardPrivacyState and metadataRow.                                  *)
(***************************************************************************)
PrivacyState(mode, preview, hidden) ==
  [mode           |-> mode,
   raw_available  |-> preview = "raw_available",
   preview_fields |-> IF preview = "preview" THEN {"preview"} ELSE {},
   hidden_fields  |-> hidden \cup (IF mode = "metadata" THEN {"raw_content"} ELSE {})]

SensitiveFields == {"raw_content", "message_content", "file_content", "output_preview", "prompt"}

\* What a reader sees of a field of an artifact.
FieldShown(field, value, privacy) ==
  CASE field \in privacy.hidden_fields \/ (privacy.mode = "metadata" /\ field \in SensitiveFields)
         -> "hidden"
    [] OTHER -> IF value = None THEN "unavailable" ELSE "visible"

\* hiddenFields of legibility.ts
HiddenFields(preview, category) ==
  CASE preview # "hidden"                                   -> {}
    [] preview = "hidden" /\ category = "command_output"    -> {"output_preview", "raw_content"}
    [] preview = "hidden" /\ category \in Messages          -> {"message_content"}
    [] preview = "hidden" /\ category = "file_context"      -> {"file_content"}
    [] OTHER                                                -> {"raw_content"}

-----------------------------------------------------------------------------
(***************************************************************************)
(* createDashboardViewModel.  "analysis" is the result of analyzeEvents.   *)
(***************************************************************************)
\* The short ids of requests are taken to tell them apart.
TaskId(task) == <<"task", task.requests[1], Last(task.requests)>>

\* dashboardTaskGroups: in the order of the requests they begin with.
TaskView(task) ==
  LET privacy == PrivacyState(IF task.preview = "hidden" THEN "metadata" ELSE "preview",
                              task.preview, {"prompt"})
  IN  Put(Put(task, "task", TaskId(task)), "privacy", privacy)

TaskViews(analysis) ==
  LET place(task) == CHOOSE k \in DOMAIN analysis.rows : analysis.rows[k].request = task.requests[1]
  IN  StableSort([n \in DOMAIN analysis.tasks |-> TaskView(analysis.tasks[n])],
                 LAMBDA t, u : place(t) < place(u))

\* mapTaskIdsByArtifact
TasksOf(tasks, id) == {tasks[n].task : n \in {m \in DOMAIN tasks : id \in tasks[m].artifacts}}

\* dashboardArtifactRows
ArtifactRow(analysis, tasks, id) ==
  LET readable  == analysis.readable[id]
      aggregate == analysis.exposure.artifacts[id]
  IN  [artifact   |-> id,
       short      |-> ShortId(id),
       category   |-> readable.category,
       name       |-> readable.name,
       summary    |-> readable.summary,
       tasks      |-> TasksOf(tasks, id),
       total      |-> aggregate.total,
       unique     |-> aggregate.unique,
       repeated   |-> aggregate.repeated,
       inclusions |-> aggregate.inclusions,
       attributed |-> analysis.attribution.artifacts[id],
       preview    |-> readable.preview]

\* dashboardArtifactDetails, of an artifactDetail of legibility.ts
DetailView(analysis, tasks, id) ==
  LET readable == analysis.readable[id]
      hidden   == HiddenFields(readable.preview, readable.category)
      privacy  == PrivacyState(readable.mode, readable.preview, hidden)
      isCommand == readable.category \in {"command", "command_output"}
      output   == CASE ~isCommand \/ readable.preview = "hidden" -> None
                    [] isCommand /\ readable.preview # "hidden"   ->
                         IF readable.output = None /\ readable.mode = "preview"
                         THEN readable.content ELSE readable.output
      text     == IF readable.content # None THEN readable.content ELSE output
  IN  [artifact |-> id,
       short    |-> ShortId(id),
       name     |-> readable.name,
       category |-> readable.category,
       requests |-> ToSet(readable.requests),
       total    |-> readable.total,
       repeated |-> readable.repeated,
       hashes   |-> analysis.exposure.artifacts[id].hashes,
       seen     |-> <<analysis.exposure.artifacts[id].first, analysis.exposure.artifacts[id].last>>,
       fields   |-> [f \in IF isCommand THEN {"command", "output_preview"} ELSE {} |->
                      FieldShown(f, IF f = "command" THEN readable.command ELSE output, privacy)],
       links    |-> {analysis.links[call] : call \in {c \in DOMAIN analysis.links :
                       id \in analysis.links[c].call \cup analysis.links[c].outputs}},
       tasks    |-> TasksOf(tasks, id),
       privacy  |-> privacy,
       content  |-> IF privacy.mode = "metadata" THEN None ELSE text]

Details(analysis, tasks) ==
  [id \in DOMAIN analysis.readable |-> DetailView(analysis, tasks, id)]

\* dashboardTurns
TurnViews(analysis) ==
  [n \in DOMAIN analysis.turns |->
     analysis.turns[n] @@
     [privacy |-> PrivacyState(IF analysis.turns[n].preview = "hidden" THEN "metadata"
                               ELSE "preview", analysis.turns[n].preview,
                               IF analysis.turns[n].title.source = "user_preview" THEN {} ELSE {"prompt"})]]

\* attributionCoverage, in parts of the provider's input.
Coverage(analysis) ==
  CASE analysis.attribution.input = 0                                           -> "unavailable"
    [] analysis.attribution.input # 0 /\ analysis.attribution.run.total = 0     -> "partial"
    [] analysis.attribution.input # 0 /\ analysis.attribution.run.total # 0     ->
         Min({Unit * analysis.attribution.input, analysis.attribution.run.total})

\* dashboardOverview, of the whole run
Overview(analysis) ==
  [requests  |-> Len(analysis.rows),
   artifacts |-> Cardinality(DOMAIN analysis.readable),
   usage     |-> [f \in {"input", "cached", "uncached", "output"} |-> analysis.attribution[f]],
   total     |-> analysis.exposure.total,
   repeated  |-> analysis.exposure.repeated,
   coverage  |-> Coverage(analysis)]

\* dashboardRequestAccounting
RequestsView(analysis) ==
  [count      |-> Len(analysis.rows),
   reported   |-> Cardinality({k \in DOMAIN analysis.rows : analysis.rows[k].usage # None}),
   inclusions |-> FoldLeft(+, 0, [k \in DOMAIN analysis.rows |-> Len(analysis.rows[k].inclusions)]),
   highest    |-> analysis.highest,
   rows       |-> analysis.rows]

\* The state of the whole run: the strongest of its artifacts.
RunPrivacy(rows) ==
  LET preview == StrongestPreview({rows[id].preview : id \in DOMAIN rows})
      mode == CASE preview = "raw_available" -> "raw"
                [] preview = "preview"       -> "preview"
                [] preview \notin {"raw_available", "preview"} -> "metadata"
  IN  PrivacyState(mode, preview,
                   IF \E id \in DOMAIN rows : rows[id].preview = "hidden" THEN {"raw_content"} ELSE {})

ViewOf(analysis, tasks, rows) ==
  [overview  |-> Overview(analysis),
   requests  |-> RequestsView(analysis),
   artifacts |-> rows,
   details   |-> Details(analysis, tasks),
   tasks     |-> tasks,
   turns     |-> TurnViews(analysis),
   filters   |-> [categories |-> {rows[id].category : id \in DOMAIN rows},
                  tasks      |-> [n \in DOMAIN tasks |-> tasks[n].task]],
   privacy   |-> RunPrivacy(rows)]

ViewWith(analysis, tasks) ==
  ViewOf(analysis, tasks, [id \in DOMAIN analysis.readable |-> ArtifactRow(analysis, tasks, id)])

ViewModel(analysis) == ViewWith(analysis, TaskViews(analysis))

-----------------------------------------------------------------------------
(***************************************************************************)
(* toApiRun: each part of the answer has the fields of the contract, of    *)
(* which those that only word or repeat others are left out.               *)
(***************************************************************************)
Public(record, fields) == [f \in fields \cap DOMAIN record |-> record[f]]

ApiTask(task) ==
  Public(task, {"task", "confidence", "requests", "artifacts", "top", "usage", "total",
                "repeated", "privacy"})

ApiTurnRequest(request) == Public(request, {"request", "title"})

ApiTurn(turn) ==
  [Public(turn, {"turn", "title", "source", "requests", "artifacts", "usage", "tokens", "privacy"})
     EXCEPT !.requests = [n \in DOMAIN turn.requests |-> ApiTurnRequest(turn.requests[n])]]

ApiInclusion(inclusion) ==
  Public(inclusion, {"artifact", "order", "tokens", "category", "attribution"})

ApiRequestRow(row) ==
  [Public(row, {"request", "time", "chronology", "status", "usage", "tokens", "attribution",
                "inclusions"})
     EXCEPT !.inclusions = [n \in DOMAIN row.inclusions |-> ApiInclusion(row.inclusions[n])]]

ApiRow(row) ==
  Public(row, {"artifact", "short", "name", "category", "summary", "tasks", "total", "unique", "repeated",
               "inclusions", "attributed", "preview"})

ApiDetail(detail) ==
  Public(detail, {"artifact", "short", "name", "category", "requests", "total", "repeated",
                  "hashes", "seen", "fields", "links", "tasks", "privacy", "content"})

ApiRun(view) ==
  [overview  |-> view.overview,
   requests  |-> [view.requests EXCEPT !.rows = [k \in DOMAIN @ |-> ApiRequestRow(@[k])]],
   artifacts |-> [id \in DOMAIN view.artifacts |-> ApiRow(view.artifacts[id])],
   details   |-> [id \in DOMAIN view.details |-> ApiDetail(view.details[id])],
   tasks     |-> [n \in DOMAIN view.tasks |-> ApiTask(view.tasks[n])],
   turns     |-> [n \in DOMAIN view.turns |-> ApiTurn(view.turns[n])],
   filters   |-> view.filters,
   privacy   |-> view.privacy]

\* findArtifactDetail: under its id, or under a short id that no other artifact has.
FindDetail(details, key) ==
  LET short == {id \in DOMAIN details : details[id].short = key}
  IN  CASE key \in DOMAIN details                                    -> details[key]
        [] key \notin DOMAIN details /\ Cardinality(short) = 1       -> details[CHOOSE id \in short : TRUE]
        [] key \notin DOMAIN details /\ Cardinality(short) # 1       -> None
=============================================================================
