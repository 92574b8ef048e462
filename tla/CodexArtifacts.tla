--------------------------- MODULE CodexArtifacts ---------------------------
(***************************************************************************)
(* What the Codex adapter takes out of the input of a Responses request    *)
(* (src/adapters/codex/live-proxy/artifacts): one artifact for the         *)
(* instructions, each tool, each part of a message, each tool call and its *)
(* output, and each opaque item, with an id and the metadata that the      *)
(* analyzers read.                                                         *)
(*                                                                         *)
(* Texts, call ids and tool names are compared and never looked into.  The *)
(* arguments of a call are given by what the adapter parses out of them: a *)
(* command, or the files of a patch.  Input items count from 1 here.       *)
(***************************************************************************)
EXTENDS Naturals, Sequences, FiniteSets, SequencesExt, TLC

CONSTANTS
  None,
  ContextTexts,  \* the texts isContextMessageText recognises by how they begin
  TypeOfTool(_)  \* the type artifactTypeForToolOutput finds in the name of a tool

\* The members of a finite set in an order, which is a set of pairs; a subsequence, since
\* TLC would compute the members of a function again wherever they are used.
Sorted(S, order) ==
  LET n      == Cardinality(S)
      nth(k) == CHOOSE x \in S : Cardinality({y \in S : <<y, x>> \in order}) = k - 1
  IN  SubSeq([k \in 1..n |-> nth(k)], 1, n)

\* Numbers in their order.
Ascending(S) == Sorted(S, {p \in S \X S : p[1] < p[2]})

-----------------------------------------------------------------------------
(***************************************************************************)
(* Input items.                                                            *)
(***************************************************************************)
Groups ==
  [message      |-> {"message", "agent_message"},
   tool_call    |-> {"function_call", "custom_tool_call", "local_shell_call",
                     "tool_search_call", "web_search_call", "image_generation_call"},
   tool_output  |-> {"function_call_output", "custom_tool_call_output",
                     "mcp_tool_call_output", "tool_search_output"},
   reasoning    |-> {"reasoning"},
   opaque       |-> {"additional_tools", "compaction", "compaction_trigger",
                     "context_compaction", "other"}]

\* An item without the fields its type does not have.
Item(type) == [type |-> type, role |-> None, parts |-> <<>>, call |-> None, tool |-> None,
               command |-> None, files |-> {}, output |-> None]

\* A string is a user message; an item of unknown type is a message if it has a role.
GroupOf(item) ==
  IF \E g \in DOMAIN Groups : item.type \in Groups[g]
  THEN CHOOSE g \in DOMAIN Groups : item.type \in Groups[g]
  ELSE IF item.type = "string" \/ item.role # None THEN "message" ELSE "opaque"

RoleOf(item) ==
  CASE item.type = "string"                                -> "user"
    [] item.role # None                                    -> item.role
    [] item.role = None /\ item.type = "agent_message"     -> "assistant"
    [] item.role = None /\ item.type \notin {"string", "agent_message"} -> "unknown"

DefaultTool ==
  [custom_tool_call |-> "custom", local_shell_call |-> "local_shell",
   tool_search_call |-> "tool_search", web_search_call |-> "web_search",
   image_generation_call |-> "image_generation", custom_tool_call_output |-> "custom_tool",
   mcp_tool_call_output |-> "mcp_tool", tool_search_output |-> "tool_search"]

ToolName(item) ==
  CASE item.tool # None                                          -> item.tool
    [] item.tool = None /\ item.type \in DOMAIN DefaultTool      -> DefaultTool[item.type]
    [] item.tool = None /\ item.type \notin DOMAIN DefaultTool   -> "unknown"

\* indexToolCalls: the last call with an id counts.
CallsWith(inputs, id) ==
  {i \in DOMAIN inputs : GroupOf(inputs[i]) = "tool_call" /\ inputs[i].call = id}

LastOf(inputs, calls) == IF calls = {} THEN None ELSE inputs[Max(calls)]

CallOf(inputs, id) == IF id = None THEN None ELSE LastOf(inputs, CallsWith(inputs, id))

IsContextMessage(item) ==
  LET texts == SelectSeq(item.parts, LAMBDA t : t # None)
  IN  texts # <<>> /\ texts[1] \in ContextTexts

Speaks(item, role) ==
  GroupOf(item) = "message" /\ RoleOf(item) = role /\ ~IsContextMessage(item)

\* Slip: the first message of a role counts.
IsFirstOfItsRole(inputs, i) ==
  \E role \in {"user", "assistant"} :
    /\ Speaks(inputs[i], role)
    /\ \A j \in DOMAIN inputs : Speaks(inputs[j], role) => j >= i

\* titleCandidateMessageKeys: the last message of the user and the last of the assistant,
\* but for the context that Codex adds.
IsTitleCandidate(inputs, i) ==
  \E role \in {"user", "assistant"} :
    /\ Speaks(inputs[i], role)
    /\ \A j \in DOMAIN inputs : Speaks(inputs[j], role) => j <= i

-----------------------------------------------------------------------------
(***************************************************************************)
(* Artifacts.  The metadata is a function on the keys that are set, and a  *)
(* name is the tuple of what it is put together from.                      *)
(***************************************************************************)
Optional(key, value) == IF value = None \/ value = {} THEN <<>> ELSE key :> value

CallIdOr(item, i) == IF item.call = None THEN i ELSE item.call

TypeForRole(role) ==
  CASE role \in {"system", "developer"}             -> "SYSTEM_PROMPT"
    [] role = "user"                                -> "USER_MESSAGE"
    [] role \notin {"system", "developer", "user"}  -> "SUMMARY"

KindForRole(role) ==
  CASE role = "assistant"                                -> "assistant_message"
    [] role \in {"system", "developer"}                  -> "system_message"
    [] role \notin {"assistant", "system", "developer"}  -> "user_message"

MessageArtifact(content, role, i, part, isCandidate) ==
  [id |-> <<TypeForRole(role), "message", role, i, part>>,
   name |-> <<"message", role, i, part>>,
   type |-> TypeForRole(role),
   content |-> content,
   metadata |-> [content_kind |-> KindForRole(role), role |-> role,
                 title_candidate |-> isCandidate]]

\* Parts without a text give no artifact.
MessageArtifacts(inputs, i) ==
  LET texts == Ascending({p \in DOMAIN inputs[i].parts : inputs[i].parts[p] # None})
  IN  [k \in DOMAIN texts |-> MessageArtifact(inputs[i].parts[texts[k]], RoleOf(inputs[i]), i,
                                              texts[k], IsTitleCandidate(inputs, i))]

\* describeFunctionCall and describeCustomToolCall: a custom call may be a patch.
CallName(item) ==
  CASE item.files # {}                            -> <<ToolName(item), item.files>>
    [] item.files = {} /\ item.command # None     -> <<ToolName(item), item.command>>
    [] item.files = {} /\ item.command = None     ->
         IF item.type = "custom_tool_call" THEN <<ToolName(item), item.call>>
                                           ELSE <<"tool-call", ToolName(item), item.call>>

CallKind(item) ==
  CASE item.files # {}                            -> "patch"
    [] item.files = {} /\ item.command # None     -> "command"
    [] item.files = {} /\ item.command = None     ->
         IF item.type = "custom_tool_call" THEN "custom_tool_call" ELSE "tool_call"

CallMetadata(item) ==
  [tool_name |-> ToolName(item), display_name |-> CallName(item), content_kind |-> CallKind(item)]
  @@ Optional("call_id", item.call)
  @@ Optional("command", item.command)
  @@ Optional("touched_files", item.files)

CallPrefix(item) ==
  IF item.type = "custom_tool_call" THEN "SUMMARY:custom-tool-call" ELSE "SUMMARY:tool-call"

CallArtifact(item, i) ==
  [id |-> <<CallPrefix(item), CallIdOr(item, i)>>, name |-> CallName(item),
   type |-> "SUMMARY", content |-> item, metadata |-> CallMetadata(item)]

\* describeToolOutput, with what the call says when it is in the same request.
OutputName(item, call) ==
  IF call # None /\ call.command # None
  THEN <<ToolName(call), "output", call.command>>
  ELSE <<"tool", ToolName(IF call = None THEN item ELSE call), item.call>>

OutputMetadata(item, call) ==
  [tool_name |-> ToolName(IF call = None THEN item ELSE call),
   content_kind |-> "tool_output",
   display_name |-> OutputName(item, call),
   output_preview |-> item.output]
  @@ Optional("call_id", item.call)
  @@ (IF call = None THEN <<>>
      ELSE ("source_display_name" :> CallName(call))
           @@ Optional("command", call.command) @@ Optional("touched_files", call.files))

OutputPrefix(type) ==
  CASE type = "custom_tool_call_output" -> "SUMMARY:custom-tool-call-output"
    [] type = "mcp_tool_call_output"    -> "TOOL_OUTPUT:mcp"
    [] type = "tool_search_output"      -> "SEARCH_RESULT:tool-search"
    [] type \notin {"custom_tool_call_output", "mcp_tool_call_output", "tool_search_output"}
                                        -> "TOOL_OUTPUT"

\* artifactTypeForToolOutput, unless the protocol type says otherwise.
OutputType(item, call) ==
  IF item.type = "custom_tool_call_output" THEN "SUMMARY"
  ELSE TypeOfTool(ToolName(IF call = None THEN item ELSE call))

OutputArtifact(item, i, call) ==
  [id |-> <<OutputPrefix(item.type), CallIdOr(item, i)>>,
   name |-> OutputName(item, call), type |-> OutputType(item, call),
   content |-> item.output, metadata |-> OutputMetadata(item, call)]

OutputArtifacts(inputs, i) ==
  IF inputs[i].output = None THEN <<>>
  ELSE <<OutputArtifact(inputs[i], i, CallOf(inputs, inputs[i].call))>>

\* reasoningStateArtifact and unknownInputArtifact.
OpaqueArtifact(item, i, name, kind) ==
  [id |-> <<"SUMMARY:input", item.type, i>>, name |-> name, type |-> "SUMMARY",
   content |-> item, metadata |-> [content_kind |-> kind]]

ItemArtifacts(inputs, i) ==
  LET item == inputs[i] IN
  CASE GroupOf(item) = "message"     -> MessageArtifacts(inputs, i)
    [] GroupOf(item) = "tool_call"   -> <<CallArtifact(item, i)>>
    [] GroupOf(item) = "tool_output" -> OutputArtifacts(inputs, i)
    [] GroupOf(item) = "reasoning"   ->
         <<OpaqueArtifact(item, i, <<"Reasoning state">>, "reasoning_state")>>
    [] GroupOf(item) = "opaque"      ->
         <<OpaqueArtifact(item, i, <<"input", item.type, i>>, "unknown_input")>>

SystemArtifact(id, content, kind) ==
  [id |-> <<"SYSTEM_PROMPT">> \o id, name |-> id, type |-> "SYSTEM_PROMPT", content |-> content,
   metadata |-> [content_kind |-> kind, role |-> "system", title_candidate |-> FALSE]]

InstructionsArtifact(request) ==
  IF request.instructions = None THEN <<>>
  ELSE <<SystemArtifact(<<"instructions">>, request.instructions, "system_prompt")>>

ToolArtifacts(request) ==
  [t \in DOMAIN request.tools |->
     SystemArtifact(<<"tool-definition", request.tools[t]>>, request.tools[t], "tool_definition")]

\* extractResponsesArtifacts
Extract(request) ==
  InstructionsArtifact(request) \o ToolArtifacts(request)
    \o FlattenSeq([i \in DOMAIN request.input |-> ItemArtifacts(request.input, i)])
=============================================================================
