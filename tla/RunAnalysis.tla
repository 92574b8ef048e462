---------------------------- MODULE RunAnalysis ----------------------------
(***************************************************************************)
(* A run from what Codex sends to what a reader is told: the proxy takes   *)
(* the artifacts out of each request and appends their events one by one   *)
(* (recording.ts), the provider's usage follows, and the analysis          *)
(* (src/analysis/pipeline.ts) is made of the events that are there.        *)
(*                                                                         *)
(* The conversation is external: it grows by prompts, replies and tool     *)
(* calls, may be compacted, and is sent whole or, to continue a response,  *)
(* from where that response ended.  The recordings of concurrent requests  *)
(* interleave event by event.                                              *)
(***************************************************************************)
EXTENDS DashboardView

CONSTANTS
  Requests_,      \* request ids, natural numbers
  Prompts_,       \* what the user asks, in the order of the turns
  TurnIds,        \* how Codex names the turns, in their order
  NoTurn,         \* what else a request may say of its turn: None, "malformed"
  Replies_,       \* texts of the assistant
  Shell,          \* the name of the tool that is called
  CallIds,        \* ids of tool calls, in an order
  Usages,         \* what the provider may report: [input, cached, output]
  Hand,           \* requests that only "token-profiler record" knows
  Modes,          \* storage modes the proxy may be started with
  Limits,         \* bounds on the events and on the items of the conversation
  MaxInFlight, MaxClock, MaxOddities   \* bounds

\* What does not happen in a plain conversation through the proxy.
Oddities == {"compaction", "retry", "hand", "restart", "no turn", "unseen"}

ASSUME RunAssumption ==
  /\ Requests_ \cup Hand \subseteq Nat
  /\ TurnIds \in Seq(ToSet(TurnIds)) /\ Len(Prompts_) \in 0..Len(TurnIds) /\ MaxClock \in Nat
  /\ None # "malformed" /\ CallIds \in Seq(ToSet(CallIds))
  /\ Limits \in [Modes \cup Oddities -> [events : Nat, history : Nat]] /\ MaxOddities \in Nat
  /\ \A r \in Requests_, t \in ToSet(TurnIds) \cup NoTurn \cup {None}, n \in 0..MaxClock :
       TurnEvent(r, t, n) # None

VARIABLES
  history,    \* the items of the conversation
  asked,      \* the prompts of the turns so far, the last of which is going on
  covered,    \* where the last response ended
  requests,   \* request -> its payload and its turn, for those sent
  recording,  \* request -> the events still to be appended
  mode,       \* the storage mode of the proxy
  clock,
  oddities,   \* those of Oddities that happened so far
  events,     \* events.jsonl
  analysis    \* what analyzeEvents makes of the events

vars == <<history, asked, covered, requests, recording, mode, clock, oddities,
          events, analysis>>

conversation == <<history, asked, covered>>
-----------------------------------------------------------------------------
\* analyzeEvents: each analyzer is given what those before it made of the events.
Analysis(list, A, exposure, rows, order, readable, links) ==
  [artifacts   |-> A,
   exposure    |-> exposure,
   attribution |-> Attributions(A, list),
   rows        |-> rows,
   highest     |-> [f \in {"total", "uncached"} |-> Highest(rows, f)],
   persistence |-> [id \in Ids(A) |-> Persistence(A, order, id)],
   readable    |-> readable,
   links       |-> links,
   tasks       |-> Tasks(A, rows, readable, links),
   turns       |-> Turns(list, rows, readable)]

AnalyzeReadable(list, A, exposure, rows, order, readable) ==
  Analysis(list, A, exposure, rows, order, readable, ToolLinks(readable))

AnalyzeOrder(list, A, exposure, rows, order) ==
  AnalyzeReadable(list, A, exposure, rows, order,
                  ReadableArtifacts(A, order, exposure.artifacts))

AnalyzeRows(list, A, exposure, rows) ==
  AnalyzeOrder(list, A, exposure, rows, [k \in DOMAIN rows |-> rows[k].request])

AnalyzeArtifacts(list, A) == AnalyzeRows(list, A, Exposure(A), Accounting(A, list))

Analyze(list) == AnalyzeArtifacts(list, Artifacts(list))

-----------------------------------------------------------------------------
Init ==
  /\ history = <<>> /\ asked = <<>> /\ covered = 0
  /\ requests = <<>> /\ recording = <<>>
  /\ mode \in Modes
  /\ clock = 0 /\ oddities = {}
  /\ events = <<>> /\ analysis = Analyze(<<>>)

Message(role, text) == [Item("message") EXCEPT !.role = role, !.parts = <<text>>]

Call(id) == [Item("function_call") EXCEPT !.call = id, !.tool = Shell, !.command = id]

Output(id, text) == [Item("function_call_output") EXCEPT !.call = id, !.output = text]

\* The storage mode and each oddity have limits of their own, of which the least applies.
Limit(field) == Min({Limits[kind][field] : kind \in oddities \cup {mode}})

Odd(kind) ==
  /\ Cardinality(oddities) < MaxOddities /\ kind \notin oddities
  /\ Len(events) <= Limits[kind].events /\ Len(history) <= Limits[kind].history
  /\ oddities' = oddities \cup {kind}

Says(items) ==
  /\ Len(history) + Len(items) <= Limit("history")
  /\ history' = history \o items
  /\ UNCHANGED <<requests, recording, mode, events, analysis>>

\* The user asks, maybe before there is an answer, and another turn begins; users take more than a millisecond.
Ask ==
  /\ Len(asked) < Len(Prompts_)
  /\ history # <<>> => \/ Last(history).role = "assistant"
                        \/ \E r \in DOMAIN requests : requests[r].until = Len(history)
  /\ asked' = Append(asked, Prompts_[Len(asked) + 1])
  /\ clock' = IF asked = <<>> THEN clock ELSE clock + 1
  /\ clock' <= MaxClock
  /\ Says(<<Message("user", Prompts_[Len(asked) + 1])>>) /\ UNCHANGED <<covered, oddities>>

\* The response to a request that was recorded ends with a reply, or with calls of a tool,
\* which Codex makes.
Settled == \A r \in DOMAIN requests : recording[r] = <<>>
Seen == \E r \in DOMAIN requests : requests[r].until = Len(history)
Answered == Settled /\ Seen

Reply(text) ==
  /\ Answered
  /\ Says(<<Message("assistant", text)>>) /\ covered' = Len(history) + 1
  /\ UNCHANGED <<asked, clock, oddities>>

\* The request of the response may not have gone through the proxy, which was off.
UseTools(calls) ==
  /\ Settled /\ history # <<>>
  /\ IF Seen THEN UNCHANGED oddities ELSE Odd("unseen")
  /\ \A i \in DOMAIN history : history[i].call \notin ToSet(calls)
  /\ Says([k \in DOMAIN calls |-> Call(calls[k])] \o
          [k \in DOMAIN calls |-> Output(calls[k], calls[k])])
  /\ covered' = Len(history) + Len(calls)
  /\ UNCHANGED <<asked, clock>>

\* Codex puts a summary in the place of the conversation before the last prompt.
Compact(text) ==
  /\ Odd("compaction")
  /\ Answered /\ Len(history) > 2 /\ history[1].role = "user"
  /\ history' = <<Message("assistant", text), Message("user", Last(asked))>>
  /\ covered' = 0
  /\ requests' = [r \in DOMAIN requests |-> [requests[r] EXCEPT !.until = 0]]
  /\ UNCHANGED <<asked, recording, mode, clock, events, analysis>>

CurrentTurn == IF asked = <<>> THEN None ELSE TurnIds[Len(asked)]

InFlight == {r \in DOMAIN requests : recording[r] # <<>>}

\* A request with the conversation, or with what was said after the response it continues.
Send(r, from, turn) ==
  /\ r \in Requests_ \ DOMAIN requests
  /\ from < Len(history)
  /\ Cardinality(InFlight) < MaxInFlight
  /\ IF turn \in NoTurn THEN Odd("no turn") ELSE UNCHANGED oddities
  /\ LET payload == [instructions |-> None, tools |-> <<>>,
                     input |-> SubSeq(history, from + 1, Len(history))]
     IN  /\ requests' = Put(requests, r, [payload |-> payload, turn |-> turn, whole |-> from = 0,
                                           until |-> Len(history), times |-> 1])
         /\ recording' = Put(recording, r, Recording(r, payload, turn, mode))
  /\ UNCHANGED <<conversation, mode, clock, events, analysis>>

\* The client sends a request again under the same x-request-id, maybe in another turn.
Retry(r) ==
  /\ Odd("retry")
  /\ r \in DOMAIN requests /\ recording[r] = <<>>
  /\ Cardinality(InFlight) < MaxInFlight
  /\ requests' = [requests EXCEPT ![r].times = @ + 1]
  /\ recording' = [recording EXCEPT ![r] = Recording(r, requests[r].payload, CurrentTurn, mode)]
  /\ UNCHANGED <<conversation, mode, clock, events, analysis>>

\* An event gets the time at which it is made, and is appended.
Record(event, time) ==
  /\ Len(events) < Limit("events")
  /\ time \in clock..MaxClock
  /\ clock' = time
  /\ events' = Append(events, [event EXCEPT !.time = time])
  /\ analysis' = Analyze(events')

\* recordPayloadArtifacts, the append of one event.
AppendNext(r, time) ==
  /\ recording[r] # <<>>
  /\ Record(Head(recording[r]), time)
  /\ recording' = [recording EXCEPT ![r] = Tail(@)]
  /\ UNCHANGED <<conversation, requests, mode, oddities>>

\* recordUsageEvent: the request is forwarded when it has been recorded, each time it is.
Report(r, usage, time) ==
  /\ Len(SelectSeq(events, LAMBDA e : e.kind = "usage" /\ e.request = r))
       < requests[r].times - (IF recording[r] = <<>> THEN 0 ELSE 1)
  /\ Record(UsageEvent(r, usage, 0), time)
  /\ UNCHANGED <<conversation, requests, recording, mode, oddities>>

\* runRecord: under a name of its own, or that of a request that is known to be there.
RecordByHand(r, text, time) ==
  /\ Odd("hand")
  /\ r \in Hand \/ \E k \in DOMAIN events : events[k].request = r
  /\ Record(HandEvent(r, "file", text, "preview", 0), time)
  /\ UNCHANGED <<conversation, requests, recording, mode>>

\* The proxy is started again with another storage mode.
Restart(m) ==
  /\ Odd("restart")
  /\ m # mode /\ InFlight = {} /\ requests # <<>>
  /\ mode' = m
  /\ UNCHANGED <<conversation, requests, recording, clock, events, analysis>>

Next ==
  \/ Ask
  \/ \E text \in Replies_ : Reply(text) \/ Compact(text)
  \/ \E m \in DOMAIN CallIds : \E n \in m..Len(CallIds) : UseTools(SubSeq(CallIds, m, n))
  \/ \E r \in Requests_, from \in {0, covered}, turn \in {CurrentTurn} \cup NoTurn : Send(r, from, turn)
  \/ \E r \in DOMAIN requests : Retry(r)
  \/ \E r \in DOMAIN requests, t \in clock..(clock + 1) : AppendNext(r, t)
  \/ \E r \in DOMAIN requests, u \in Usages, t \in clock..(clock + 1) : Report(r, u, t)
  \/ \E r \in Hand \cup Requests_, text \in Replies_, t \in clock..(clock + 1) : RecordByHand(r, text, t)
  \/ \E m \in Modes : Restart(m)

Spec == Init /\ [][Next]_vars

-----------------------------------------------------------------------------
(***************************************************************************)
(* Properties.                                                             *)
(***************************************************************************)
A == analysis.artifacts

SumOver(S, f(_)) == MapThenSumSet(f, S)

ItemType ==
  [type : {"message", "function_call", "function_call_output"},
   role : {None, "user", "assistant"}, parts : Seq(ToSet(Prompts_) \cup Replies_),
   call : ToSet(CallIds) \cup {None}, tool : {None, Shell}, command : ToSet(CallIds) \cup {None},
   files : {{}}, output : ToSet(CallIds) \cup {None}]

\* Every variable has its type, every event passes the validation without which the run could
\* not be read, and every amount of the analysis is a number of tokens.
TypeOK ==
  /\ history \in Seq(ItemType)
  /\ asked \in Seq(ToSet(Prompts_)) /\ covered \in 0..Len(history) /\ oddities \subseteq Oddities
  /\ DOMAIN requests \subseteq Requests_ /\ DOMAIN recording = DOMAIN requests
  /\ mode \in Modes /\ clock \in 0..MaxClock
  /\ \A k \in DOMAIN events :
       Valid(events[k]) /\ events[k].time \in 0..clock /\ events[k].request \in Requests_ \cup Hand
  /\ {analysis.exposure.total, analysis.exposure.unique, analysis.exposure.repeated} \subseteq Nat
  /\ \A a \in Amounts : analysis.attribution.run[a] \in Nat

\* What is shown for the run is what is shown for its artifacts, its requests, its turns and
\* its tasks together, and a content is new once, however its inclusions interleave
\* (exposure.ts, request-accounting.ts, turn-groups.ts, task-groups.ts).
ExposureConserved ==
  LET x == analysis.exposure IN
  /\ x.total = x.unique + x.repeated
  /\ x.unique = SumOver({A[i].content : i \in DOMAIN A}, LAMBDA c : TokenCount(c))
  /\ x.unique = SumOver(DOMAIN x.artifacts, LAMBDA id : x.artifacts[id].unique)
  /\ x.total = SumOver(DOMAIN x.artifacts, LAMBDA id : x.artifacts[id].total)
  /\ x.total = SumOver(DOMAIN analysis.rows, LAMBDA k : analysis.rows[k].tokens)
  /\ x.total = SumOver(DOMAIN analysis.turns, LAMBDA k : analysis.turns[k].tokens)
  /\ x.total = SumOver(DOMAIN analysis.tasks, LAMBDA k : analysis.tasks[k].total)

\* The tokens that are attributed to the artifacts are those attributed to the requests and
\* to the run; each is cached or uncached; and what a request that was recorded once is said
\* to have cost is never more than the provider reported (cache-attribution.ts).
AttributionConserved ==
  LET at == analysis.attribution
      used == {k \in DOMAIN analysis.rows : analysis.rows[k].attribution # None}
  IN  /\ \A a \in Amounts :
           /\ at.run[a] = SumOver(DOMAIN at.artifacts, LAMBDA id : at.artifacts[id][a])
           /\ at.run[a] = SumOver(used, LAMBDA k : analysis.rows[k].attribution[a])
      /\ at.run.total = at.run.cached + at.run.uncached
      /\ at.firsts = SumOver(DOMAIN at.artifacts, LAMBDA id : at.artifacts[id].firsts)
      /\ \A k \in used :
           LET row == analysis.rows[k]
           IN  row.request \in DOMAIN requests /\ requests[row.request].times = 1
                 => /\ row.attribution.total <= Unit * row.usage.input
                    /\ row.attribution.cached <= Unit * row.usage.cached

\* Unless an artifact is in a request twice, what its inclusions show is what the request
\* shows (requestAccountingRow finds the attribution of an inclusion by artifact id).
InclusionsAddUp ==
  \A k \in DOMAIN analysis.rows :
    LET row   == analysis.rows[k]
        shown == {n \in DOMAIN row.inclusions : row.inclusions[n].attribution # None}
    IN  row.usage # None /\ Cardinality(ArtifactsIn(analysis.rows, {k})) = Len(row.inclusions)
        => \A a \in Amounts :
             row.attribution[a] = SumOver(shown, LAMBDA n : row.inclusions[n].attribution[a])

\* Typed, and tokens neither made nor lost between the artifacts, the requests and the run.
TokensAreConserved == TypeOK /\ ExposureConserved /\ AttributionConserved /\ InclusionsAddUp

GroupsOf(request) ==
  {n \in DOMAIN analysis.turns :
     \E m \in DOMAIN analysis.turns[n].requests : analysis.turns[n].requests[m].request = request}

HasTurn(list, request) == \E k \in DOMAIN list : list[k].kind = "turn" /\ list[k].request = request

\* Every request of a run is in one turn, once, and it is the turn that Codex first said it
\* belongs to: requests of one turn are together, those of two are apart, and those of none
\* are in a bucket that says so (spec 018, FR-003 to FR-005).
TurnsTileRequests ==
  /\ \A k \in DOMAIN analysis.rows : \E n \in DOMAIN analysis.turns :
       /\ GroupsOf(analysis.rows[k].request) = {n}
       /\ \E m \in DOMAIN analysis.turns[n].requests :
            \A j \in DOMAIN analysis.turns[n].requests :
              analysis.turns[n].requests[j].request = analysis.rows[k].request <=> j = m
  /\ \A n \in DOMAIN analysis.turns : \A m \in DOMAIN analysis.turns[n].requests :
       \E k \in DOMAIN analysis.rows :
         analysis.turns[n].requests[m].request = analysis.rows[k].request
  /\ \A j, k \in DOMAIN analysis.rows : analysis.rows[j].request = analysis.rows[k].request => j = k
  /\ \A m, n \in DOMAIN analysis.turns : analysis.turns[m].turn = analysis.turns[n].turn => m = n
  /\ \A k \in DOMAIN analysis.rows :
       LET r == analysis.rows[k].request
       IN  r \in DOMAIN requests /\ HasTurn(events, r)
           => \A n \in GroupsOf(r) : analysis.turns[n].turn
                = IF requests[r].turn = None THEN "missing" ELSE requests[r].turn

\* What the API answers now.
Response == ApiRun(ViewModel(analysis))

\* Every request is in one task, the tasks that are shown follow each other as the requests
\* do, and two requests that carry a prompt are never in one task (task-groups.ts,
\* dashboardTaskGroups).
TasksTile(tasks) ==
  LET taskOf(r) == {n \in DOMAIN tasks : r \in ToSet(tasks[n].requests)}
  IN  /\ FlattenSeq([n \in DOMAIN tasks |-> tasks[n].requests])
           = [k \in DOMAIN analysis.rows |-> analysis.rows[k].request]
      /\ \A i, j \in DOMAIN A :
           IsPrompt(A[i]) /\ IsPrompt(A[j]) /\ A[i].request # A[j].request
           => taskOf(A[i].request) # taskOf(A[j].request)

TasksTileRequests == TasksTile(Response.tasks)

\* Turns and tasks each divide the requests of the run.
RequestsAreTiled == TurnsTileRequests /\ TasksTileRequests

\* Whatever an answer names by its id is in the answer: each artifact of a turn, a task, a
\* request or a link has a row and a detail, each request a row, and each task a group that
\* names the artifact in turn; and the counts of the overview are those of the rows.
NoneDanglesIn(run) ==
  LET ids       == DOMAIN run.artifacts
      requests_ == {run.requests.rows[k].request : k \in DOMAIN run.requests.rows}
      tasks     == {run.tasks[n].task : n \in DOMAIN run.tasks}
  IN  /\ DOMAIN run.details = ids
      /\ \A id \in ids :
           /\ run.details[id].artifact = id /\ run.details[id].requests \subseteq requests_
           /\ FindDetail(run.details, id) = run.details[id]
           /\ run.artifacts[id].tasks = {t \in tasks : \E n \in DOMAIN run.tasks :
                                           run.tasks[n].task = t /\ id \in run.tasks[n].artifacts}
           /\ run.artifacts[id].tasks # {}
           /\ \A link \in run.details[id].links : link.call \cup link.outputs \subseteq ids
      /\ \A n \in DOMAIN run.tasks :
           /\ run.tasks[n].top \subseteq run.tasks[n].artifacts
           /\ run.tasks[n].artifacts \subseteq ids /\ ToSet(run.tasks[n].requests) \subseteq requests_
      /\ \A n \in DOMAIN run.turns :
           /\ run.turns[n].artifacts \subseteq ids
           /\ {run.turns[n].requests[m].request : m \in DOMAIN run.turns[n].requests} \subseteq requests_
      /\ \A k \in DOMAIN run.requests.rows : \A n \in DOMAIN run.requests.rows[k].inclusions :
           run.requests.rows[k].inclusions[n].artifact \in ids
      /\ \A f \in DOMAIN run.requests.highest : run.requests.highest[f] \in requests_ \cup {None}
      /\ run.overview.requests = Cardinality(requests_)
      /\ run.overview.artifacts = Cardinality(ids)

NothingDangles == NoneDanglesIn(Response)

IndexOf(turn) == CHOOSE n \in DOMAIN TurnIds : TurnIds[n] = turn

PromptOf(turn) == Prompts_[IndexOf(turn)]

IsDirect(n) == analysis.turns[n].source = "direct_turn_id"

\* A turn is not titled by the prompt of another one (spec 018, FR-007).
TitlesAreOwn ==
  \A n \in DOMAIN analysis.turns :
    IsDirect(n) /\ analysis.turns[n].title.source = "user_preview"
    => analysis.turns[n].title.text = PromptOf(analysis.turns[n].turn)

IdsAreTrue == \A i, j \in DOMAIN A : A[i].artifact = A[j].artifact => A[i].content = A[j].content

TurnsAreInOrder ==
  /\ \A r \in DOMAIN requests : requests[r].turn \notin NoTurn
  /\ \A i \in DOMAIN A : A[i].request \in DOMAIN requests
  /\ \A i, j \in DOMAIN A :
       i < j => IndexOf(requests[A[i].request].turn) <= IndexOf(requests[A[j].request].turn)

\* As long as an artifact id never stands for two contents and the requests are in the order
\* of their turns, a turn whose prompt was kept is titled by it and by no other, and a
\* request by a reply that is in it (spec 018, FR-007 and FR-008).
TitlesAreOwnWhileIdsAre ==
  IdsAreTrue /\ TurnsAreInOrder =>
    /\ TitlesAreOwn
    /\ \A n \in DOMAIN analysis.turns :
         IsDirect(n) /\ (\E id \in analysis.turns[n].artifacts :
                           analysis.readable[id].content = PromptOf(analysis.turns[n].turn))
         => analysis.turns[n].title.source = "user_preview"
    /\ \A n \in DOMAIN analysis.turns : \A m \in DOMAIN analysis.turns[n].requests :
         LET request == analysis.turns[n].requests[m]
         IN  request.title.source = "assistant_preview"
             => \E i \in InRequest(A, request.request) : A[i].content = request.title.text

\* A call is joined to its output, and to nothing else, as soon as both were recorded, in
\* whatever requests and in whatever order (buildToolLinks).
LinksAreTrue ==
  \A id \in ToSet(CallIds) :
    LET calls   == {a \in Ids(A) : a = <<"SUMMARY:tool-call", id>>}
        outputs == {a \in Ids(A) : a = <<"TOOL_OUTPUT", id>>}
    IN  IF calls \cup outputs = {} THEN id \notin DOMAIN analysis.links
        ELSE /\ analysis.links[id].call = calls
             /\ analysis.links[id].outputs = outputs
             /\ analysis.links[id].state = IF calls = {} THEN "unmatched_output"
                                          ELSE IF outputs = {} THEN "unmatched_call" ELSE "exact"

\* An answer of the API is whole: what it names is in it, and what it joins belongs together.
AnswersAreWhole == NothingDangles /\ LinksAreTrue

Texts == ToSet(Prompts_) \cup Replies_

ShowsOnlyKeptText(run) ==
  \A text \in Texts :
    \/ \E i \in DOMAIN A : A[i].content = text /\ A[i].mode # "metadata"
    \/ /\ \A id \in DOMAIN run.details :
            run.details[id].content # text /\ run.artifacts[id].summary # text
       /\ \A n \in DOMAIN run.turns :
            /\ run.turns[n].title.text # text
            /\ \A m \in DOMAIN run.turns[n].requests : run.turns[n].requests[m].title.text # text

\* No text of the conversation is shown, as a title, in a row or as a detail, that was only ever
\* recorded while the storage mode kept no text (FR-013).
OnlyKeptTextIsShown == ShowsOnlyKeptText(Response)

Swapped(list) ==
  [list EXCEPT ![Len(list)] = list[Len(list) - 1], ![Len(list) - 1] = list[Len(list)]]

Comparable(a) == [[a EXCEPT !.attribution = @.run] EXCEPT !.artifacts = Len(@)]

\* The order in which events of two requests reach the file in one millisecond is nothing a
\* reader can tell, but for which of the requests a content was attributed to first.
InterleavingDoesNotMatter ==
  LET n == Len(events)
  IN  n > 1 /\ events[n].request # events[n - 1].request /\ events[n].time = events[n - 1].time
      => Comparable(Analyze(Swapped(events))) = Comparable(analysis)

-----------------------------------------------------------------------------
(***************************************************************************)
(* summarizeLargeRun: what a reader is told instead of a run whose file is *)
(* large.                                                                  *)
(***************************************************************************)
ArtifactsOf(list, r) == SelectSeq(list, LAMBDA e : e.kind = "artifact" /\ e.request = r)

LargeSummary(list) ==
  LET of(r, kind) == SelectSeq(list, LAMBDA e : e.kind = kind /\ e.request = r)
      usages == OfKind(list, "usage")
      turns(r) == SelectSeq(of(r, "turn"), LAMBDA e : e.source = "direct")
      sum(field) == FoldLeft(+, 0, [k \in DOMAIN usages |-> usages[k][field]])
  IN  [total    |-> [f \in {"input", "cached", "uncached", "output"} |-> sum(f)],
       requests |-> [r \in {e.request : e \in ToSet(list)} |->
          [artifacts |-> Len(ArtifactsOf(list, r)),
           tokens    |-> FoldLeft(+, 0, [k \in DOMAIN ArtifactsOf(list, r) |-> ArtifactsOf(list, r)[k].tokens]),
           usage     |-> IF of(r, "usage") = <<>> THEN None ELSE Last(of(r, "usage")),
           turn      |-> IF turns(r) = <<>> THEN None ELSE Last(turns(r)).turn]]]

\* A run that has become large is told of as before: each request has the same artifacts,
\* tokens and usage; and while no request was recorded twice the same turn, and the run the
\* same usage.
LargeRunAgrees ==
  LET large == LargeSummary(events)
      once  == \A r \in DOMAIN requests : requests[r].times = 1
  IN  /\ \A k \in DOMAIN analysis.rows :
           LET row == analysis.rows[k] IN
           /\ large.requests[row.request].tokens = row.tokens
           /\ large.requests[row.request].artifacts = Len(row.inclusions)
           /\ large.requests[row.request].usage = row.usage
           /\ once /\ large.requests[row.request].turn # None
                => \A n \in GroupsOf(row.request) :
                     analysis.turns[n].turn = large.requests[row.request].turn
      /\ once => \A f \in {"input", "cached", "output"} : large.total[f] = analysis.attribution[f]

\* A request that has a turn keeps it: nothing that is recorded later moves it to another.
RequestsKeepTheirTurn ==
  [][\A r \in {analysis.rows[k].request : k \in DOMAIN analysis.rows} :
       HasTurn(events, r)
       => {analysis.turns[n].turn : n \in GroupsOf(r)}
            = {(analysis.turns[n].turn)' : n \in GroupsOf(r)'}]_vars
=============================================================================
