----------------------------- MODULE TurnGroups -----------------------------
(***************************************************************************)
(* How the requests of a run are put together for a reader: into the turns *)
(* that Codex says they belong to (src/analysis/turn-groups.ts), and into  *)
(* tasks, of which one begins wherever a request carries a prompt of the   *)
(* user (src/analysis/task-groups.ts).                                     *)
(*                                                                         *)
(* "rows" are the rows of the accounting, "readable" the readable          *)
(* artifacts.                                                              *)
(***************************************************************************)
EXTENDS Legibility

\* turnGroupIdForFact: what has no turn of its own goes into a bucket.
TurnKey(fact) ==
  CASE fact = None                             -> "missing"
    [] fact # None /\ fact.source = "direct"   -> fact.turn
    [] fact # None /\ fact.source # "direct"   -> fact.source

GroupingSource(key) ==
  CASE key = "missing"                      -> "missing_turn_id"
    [] key = "malformed"                    -> "fallback"
    [] key \notin {"missing", "malformed"}  -> "direct_turn_id"

\* requestOrder: where in the row its first inclusion of the artifact says it is.
PlaceIn(row, id) ==
  LET own == {k \in DOMAIN row.inclusions : row.inclusions[k].artifact = id}
  IN  IF own = {} THEN None ELSE row.inclusions[Min(own)].order

\* readableArtifactsForRows: what was first seen in one of these requests, as it was there.
FirstSeenIn(rows, K, readable) ==
  LET rowOf(id) == CHOOSE k \in K : rows[k].request = readable[id].request
      ids == {id \in DOMAIN readable : \E k \in K : rows[k].request = readable[id].request}
  IN  SetToSortSeq(ids, LAMBDA a, b :
        \/ rowOf(a) < rowOf(b)
        \/ rowOf(a) = rowOf(b) /\ PlaceIn(rows[rowOf(a)], a) < PlaceIn(rows[rowOf(b)], b))

TitleCandidates(rows, K, readable, category) ==
  SelectSeq(FirstSeenIn(rows, K, readable),
            LAMBDA id : readable[id].category = category /\ readable[id].title_candidate = TRUE)

\* The first text there is to be seen among these.
FirstContent(ids, readable) ==
  LET seen == SelectSeq(ids, LAMBDA id : readable[id].content # None)
  IN  IF seen = <<>> THEN None ELSE readable[seen[1]].content

\* selectTurnTitle, "no turn" for the title "Requests without turn identity".
TurnTitle(key, rows, K, readable) ==
  LET prompt == FirstContent(TitleCandidates(rows, K, readable, "user_message"), readable)
  IN  CASE prompt # None                                       -> [text |-> prompt, source |-> "user_preview"]
        [] prompt = None /\ GroupingSource(key) = "direct_turn_id" -> [text |-> key, source |-> "turn_id"]
        [] prompt = None /\ GroupingSource(key) # "direct_turn_id" -> [text |-> "no turn", source |-> "fallback"]

\* selectRequestTitle
RequestTitle(rows, k, turnTitle, readable) ==
  LET reply   == FirstContent(TitleCandidates(rows, {k}, readable, "assistant_message"), readable)
      actions == SelectSeq(FirstSeenIn(rows, {k}, readable),
                   LAMBDA id : /\ readable[id].category \in Calls \cup {"command_output"}
                               /\ readable[id].name # readable[id].stored_name)
  IN  CASE reply # None                         -> [text |-> reply, source |-> "assistant_preview"]
        [] reply = None /\ actions # <<>>       -> [text |-> readable[actions[1]].name, source |-> "action_label"]
        [] reply = None /\ actions = <<>> /\ turnTitle # None -> [text |-> turnTitle, source |-> "turn_title"]
        [] reply = None /\ actions = <<>> /\ turnTitle = None -> [text |-> rows[k].request, source |-> "request_id"]

SumOfUsage(rows, K, field) ==
  LET used == {k \in K : rows[k].usage # None}
  IN  IF used = {} THEN None ELSE MapThenSumSet(LAMBDA k : rows[k].usage[field], used)

ArtifactsIn(rows, K) ==
  UNION {{rows[k].inclusions[n].artifact : n \in DOMAIN rows[k].inclusions} : k \in K}

\* strongestPreviewState
StrongestPreview(states) ==
  CASE "raw_available" \in states -> "raw_available"
    [] "raw_available" \notin states /\ "preview" \in states -> "preview"
    [] states \cap {"raw_available", "preview"} = {} /\ "hidden" \in states -> "hidden"
    [] states \cap {"raw_available", "preview", "hidden"} = {} -> "unavailable"

\* buildTurnGroup
TurnGroupWith(title, key, rows, K, readable) ==
  LET order == Ascending(K)
  IN  [turn      |-> key,
       title     |-> title,
       source    |-> GroupingSource(key),
       requests  |-> [n \in DOMAIN order |->
                       [request |-> rows[order[n]].request,
                        title   |-> RequestTitle(rows, order[n], title.text, readable)]],
       artifacts |-> ArtifactsIn(rows, K),
       preview   |-> StrongestPreview({readable[id].preview : id \in ArtifactsIn(rows, K)}),
       usage     |-> [f \in {"input", "cached", "uncached", "output", "total"} |->
                        SumOfUsage(rows, K, f)],
       tokens    |-> MapThenSumSet(LAMBDA k : rows[k].tokens, K)]

TurnGroup(key, rows, K, readable) ==
  TurnGroupWith(TurnTitle(key, rows, K, readable), key, rows, K, readable)

\* Slip: a turn goes on until another one begins, and is over then.
GroupRuns(key, rows, readable) ==
  LET starts == Ascending({k \in DOMAIN rows : k = 1 \/ key[k - 1] # key[k]})
      last(n) == IF n = Len(starts) THEN Len(rows) ELSE starts[n + 1] - 1
  IN  [n \in DOMAIN starts |->
        TurnGroup(key[starts[n]], rows, starts[n]..last(n), readable)]

\* A group for each key, in the order of their first requests.
GroupByTurn(key, rows, readable) ==
  LET starts == Ascending({k \in DOMAIN rows : \A j \in 1..(k - 1) : key[j] # key[k]})
  IN  [n \in DOMAIN starts |->
        TurnGroup(key[starts[n]], rows, {k \in DOMAIN rows : key[k] = key[starts[n]]}, readable)]

\* analyzeTurnGroups
Turns(events, rows, readable) ==
  GroupByTurn([k \in DOMAIN rows |-> TurnKey(TurnFactOf(events, rows[k].request))], rows, readable)

-----------------------------------------------------------------------------
(***************************************************************************)
(* analyzeTaskGroups                                                       *)
(***************************************************************************)
IsPrompt(e) ==
  \/ "content_kind" \in DOMAIN e.metadata /\ e.metadata.content_kind = "user_message"
  \/ "role" \in DOMAIN e.metadata /\ e.metadata.role = "user"

Prompts(A, request) == {i \in InRequest(A, request) : IsPrompt(A[i])}

\* The contents that are in a task again.
RepeatedIn(A, inclusions) ==
  Tokens(A, {i \in inclusions : \E j \in inclusions : j < i /\ A[j].content = A[i].content})

\* buildGroup; a sum of zero is left out.  The top artifacts are five, or more where they tie.
TaskGroupOf(A, rows, from, to, readable, links, requests, inclusions) ==
  LET ids    == {A[i].artifact : i \in inclusions}
      prompts == Prompts(A, requests[1])
      users  == {id \in ids : readable[id].category = "user_message"}
      prompt == CASE prompts # {}                -> A[Min(prompts)].artifact
                  [] prompts = {} /\ users # {}  -> CHOOSE id \in users : TRUE
                  [] prompts = {} /\ users = {}  -> None
  IN  [requests  |-> requests,
       artifacts |-> ids,
       prompt    |-> prompt,
       confidence |-> IF prompt # None THEN "partial" ELSE "heuristic",
       links     |-> {call \in DOMAIN links : (links[call].call \cup links[call].outputs) \cap ids # {}},
       total     |-> Tokens(A, inclusions),
       repeated  |-> RepeatedIn(A, inclusions),
       preview   |-> IF prompt = None THEN "hidden" ELSE readable[prompt].preview,
       top       |-> {id \in ids : Cardinality({d \in ids : readable[d].total > readable[id].total}) < 5},
       usage     |-> [f \in {"input", "cached", "uncached", "output"} |->
                        IF SumOfUsage(rows, from..to, f) = 0 THEN None
                        ELSE SumOfUsage(rows, from..to, f)]]

TaskGroup(A, rows, from, to, readable, links) ==
  TaskGroupOf(A, rows, from, to, readable, links,
              [n \in 1..(to - from + 1) |-> rows[from + n - 1].request],
              {i \in DOMAIN A : \E k \in from..to : A[i].request = rows[k].request})

\* Where tasks begin: with the first request, and wherever there is a prompt.
TaskStarts(A, rows) ==
  Ascending({k \in DOMAIN rows : k = 1 \/ Prompts(A, rows[k].request) # {}})

\* In the order of the ids of the requests they begin with.
TasksFrom(starts, A, rows, readable, links) ==
  LET last(n) == IF n = Len(starts) THEN Len(rows) ELSE starts[n + 1] - 1
  IN  StableSort([n \in DOMAIN starts |-> TaskGroup(A, rows, starts[n], last(n), readable, links)],
                 LAMBDA t, u : t.requests[1] < u.requests[1])

Tasks(A, rows, readable, links) == TasksFrom(TaskStarts(A, rows), A, rows, readable, links)
=============================================================================
