----------------------------- MODULE Legibility -----------------------------
(***************************************************************************)
(* What a reader is shown of an artifact (src/analysis/legibility.ts): its *)
(* category and name, what of its text the storage mode leaves to be seen, *)
(* and how calls of tools are joined to their outputs.                     *)
(***************************************************************************)
EXTENDS CacheAttribution

CategoryOfKind ==
  [command |-> "command", tool_output |-> "command_output", patch |-> "patch",
   user_message |-> "user_message", assistant_message |-> "assistant_message",
   system_prompt |-> "request_metadata", tool_definition |-> "request_metadata",
   reasoning_state |-> "reasoning_state"]

\* displayCategory: what kind it is, or else what its metadata and its type suggest.
Category(type, metadata) ==
  LET has(key) == key \in DOMAIN metadata
      known == has("content_kind") /\ metadata.content_kind \in DOMAIN CategoryOfKind
  IN  CASE known                                               -> CategoryOfKind[metadata.content_kind]
        [] ~known /\ has("command")                            -> "command"
        [] ~known /\ ~has("command") /\ has("touched_files")   -> "patch"
        [] ~known /\ ~has("command") /\ ~has("touched_files")  ->
             CASE type = "USER_MESSAGE"                                         -> "user_message"
               [] type = "FILE"                                                 -> "file_context"
               [] type \notin {"USER_MESSAGE", "FILE"} /\ has("tool_name")      -> "tool_call"
               [] type \notin {"USER_MESSAGE", "FILE"} /\ ~has("tool_name")     -> "unknown"

Messages == {"user_message", "assistant_message"}

\* displayNameForArtifact; nothing that Codex sends puts a summary on a message.
DisplayName(name, metadata, category) ==
  LET has(key) == key \in DOMAIN metadata
      display  == IF has("display_name") THEN metadata.display_name ELSE name
  IN  CASE category \in Messages \cup {"reasoning_state"}                  -> <<category>>
        [] category \in {"command", "command_output"} /\ has("command")     ->
             <<metadata.tool_name, metadata.command>>
        [] category = "patch" /\ has("touched_files")                       ->
             IF IsGeneric(display) THEN <<metadata.tool_name, metadata.touched_files>>
                                   ELSE <<display, metadata.touched_files>>
        [] category = "tool_call" /\ IsGeneric(display)                      ->
             <<metadata.tool_name, IF has("call_id") THEN metadata.call_id ELSE name>>
        [] OTHER                                                           -> display

\* detailSummary; that a reasoning state is opaque is said in so many words.
SummaryOf(id, metadata, category) ==
  LET told == SelectSeq(<<"command", "touched_files", "output_preview">>,
                        LAMBDA key : key \in DOMAIN metadata)
  IN  CASE told # <<>>                                       -> metadata[told[1]]
        [] told = <<>> /\ category = "reasoning_state"       -> "opaque"
        [] told = <<>> /\ category # "reasoning_state"       ->
             CASE "call_id" \in DOMAIN metadata                               -> metadata.call_id
               [] "call_id" \notin DOMAIN metadata /\ category = "unknown"    -> "unavailable"
               [] "call_id" \notin DOMAIN metadata /\ category # "unknown"    -> id

\* previewState
PreviewOf(event) ==
  CASE event.mode = "raw"      -> "raw_available"
    [] event.mode = "preview"  -> IF event.kept.preview # None THEN "preview" ELSE "unavailable"
    [] event.mode = "metadata" -> "hidden"

\* Slip: what was kept of the artifact at any time.
AnyContentOf(event, category) == event.content

\* contentForDetail: what was kept of the artifact when it was last seen.
ContentOf(event, category) ==
  CASE category = "reasoning_state"                              -> None
    [] category # "reasoning_state" /\ event.mode = "raw"        -> event.kept.raw
    [] category # "reasoning_state" /\ event.mode = "preview"    -> event.kept.preview
    [] category # "reasoning_state" /\ event.mode = "metadata"   -> None

\* requestIdsForArtifact, in the order of the requests.
RequestsOf(A, order, id) ==
  SelectSeq(order, LAMBDA r : \E i \in Own(A, id) : A[i].request = r)

\* readableArtifact and artifactDetail.  The first request of an artifact is "its" request;
\* what is seen of it is what its last event kept.
ReadableOf(id, oldest, newest, aggregate, category, requests) ==
  LET field(key) == IF key \in DOMAIN aggregate.metadata THEN aggregate.metadata[key] ELSE None
  IN  [artifact |-> id,
       category |-> category,
       name     |-> DisplayName(oldest.name, aggregate.metadata, category),
       stored_name |-> oldest.name,
       summary  |-> SummaryOf(id, aggregate.metadata, category),
       call     |-> field("call_id"),
       tool     |-> field("tool_name"),
       command  |-> field("command"),
       output   |-> field("output_preview"),
       title_candidate |-> field("title_candidate"),
       request  |-> requests[1],
       requests |-> requests,
       total    |-> aggregate.total,
       repeated |-> aggregate.repeated,
       inclusions |-> aggregate.inclusions,
       mode     |-> newest.mode,
       preview  |-> PreviewOf(newest),
       content  |-> ContentOf(newest, category)]

Readable(A, order, id, aggregate) ==
  LET oldest == A[Min(Own(A, id))]
      newest == A[Max(Own(A, id))]
  IN  ReadableOf(id, oldest, newest, aggregate, Category(oldest.type, aggregate.metadata),
                 RequestsOf(A, order, id))

ReadableArtifacts(A, order, aggregates) ==
  [id \in Ids(A) |-> Readable(A, order, id, aggregates[id])]

-----------------------------------------------------------------------------
(***************************************************************************)
(* buildToolLinks.  "rows" are the ReadableArtifacts of a run.             *)
(***************************************************************************)
Calls == {"command", "patch", "tool_call"}

\* Slip: a call is joined to every output that came in the same request.
LinkInRequest(rows, call) ==
  LET own     == {id \in DOMAIN rows : rows[id].call = call}
      calls   == {id \in own : rows[id].category \in Calls}
      outputs == {id \in DOMAIN rows : /\ rows[id].category = "command_output"
                                       /\ id \in own \/ \E c \in calls : rows[c].request = rows[id].request}
  IN  [call    |-> calls,
       outputs |-> outputs,
       state   |-> CASE calls = {} /\ outputs # {}  -> "unmatched_output"
                     [] calls # {} /\ outputs = {}  -> "unmatched_call"
                     [] (calls = {}) = (outputs = {}) -> "exact"]

Link(rows, call) ==
  LET own     == {id \in DOMAIN rows : rows[id].call = call}
      calls   == {id \in own : rows[id].category \in Calls}
      outputs == {id \in own : rows[id].category = "command_output"}
  IN  [call    |-> calls,
       outputs |-> outputs,
       state   |-> CASE calls = {} /\ outputs # {}  -> "unmatched_output"
                     [] calls # {} /\ outputs = {}  -> "unmatched_call"
                     [] (calls = {}) = (outputs = {}) -> "exact"]

ToolLinks(rows) ==
  [call \in {rows[id].call : id \in DOMAIN rows} \ {None} |-> Link(rows, call)]
=============================================================================
