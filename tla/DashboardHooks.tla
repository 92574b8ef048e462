--------------------------- MODULE DashboardHooks ---------------------------
(***************************************************************************)
(* The dashboard in the browser: the hooks that read the API, the          *)
(* controller that ties them to the selection, the refresh, and the        *)
(* explorer of large runs (src/dashboard/src/hooks, shell, state and       *)
(* run-explorer/LargeRunExplorer.tsx).                                     *)
(*                                                                         *)
(* A step is one event of the browser: a click, the refresh timer, or the  *)
(* answer to a call.  Its handler, the render it causes and the effects of *)
(* that render are one step, since nothing else runs in between; so the    *)
(* whole state of the page is one record, ui, passed through the hooks the *)
(* event reaches.  The calls in flight are answered in any order, each     *)
(* with success or failure (the client has no timeout).                    *)
(***************************************************************************)
EXTENDS Integers, FiniteSets, SequencesExt

CONSTANTS
  None,
  Runs,         \* the runs the API knows, None not among them
  Pages,        \* the session list of the API, a sequence of pages
  LargeRuns,    \* the runs it marks with the caveat large_run_paged
  ArtifactIds,  \* the artifact ids of each run; they count positions, so runs share them
  MaxPending    \* no click and no timer adds to this many calls in flight

\* What a refresh remembers of the render that began it.
Refreshes ==
  [run : Runs \cup {None}, enabled : BOOLEAN, ready : BOOLEAN, items : SUBSET Runs,
   data : Runs \cup {None}]

\* The list has a first page, if an empty one.
ASSUME HooksAssumption ==
  /\ None \notin Runs \cup Refreshes \cup Seq(Runs) /\ LargeRuns \subseteq Runs /\ MaxPending \in Nat
  /\ ArtifactIds \in [Runs -> SUBSET UNION {ArtifactIds[r] : r \in Runs}]
  /\ Pages \in Seq(Seq(Runs)) /\ Pages # <<>>

VARIABLES
  ui,       \* what the hooks of the page hold, with the calls in flight
  orderly   \* whether answers keep the order of their calls and the reader waits for a refresh

vars == <<ui, orderly>>

Ids == UNION {ArtifactIds[r] : r \in Runs}

\* The functions that call the API; calls holds, for each, those in flight.
Hooks == {"status", "sessions", "run", "details", "large", "requests", "artifacts"}
OfLargeRun == {"large", "requests", "artifacts"}

Call(run, ids, page, refresh) == [run |-> run, ids |-> ids, page |-> page, refresh |-> refresh]

Send(u, hook, call) == [u EXCEPT !.calls[hook] = Append(@, call)]

-----------------------------------------------------------------------------
(* What the render shows.                                                  *)

Listed(u) == IF u.sessions.items = None THEN {} ELSE ToSet(u.sessions.items)

IsLargeRun(u) == u.view.run \in Listed(u) \cap LargeRuns

\* The part of the controller under the error and loading screens.
ShowsContent(u) ==
  ~u.status.loading /\ ~u.status.error /\ u.status.ready /\ ~u.sessions.error

ShowsList(u) == ShowsContent(u) /\ ~u.sessions.loading /\ Listed(u) # {}

ShowsRun(u) == ShowsContent(u) /\ ~IsLargeRun(u) /\ u.shown.run # None

\* The run LargeRunExplorer is mounted for.
LargeRunShown(u) == IF ShowsContent(u) /\ IsLargeRun(u) THEN u.view.run ELSE None

\* What the controller passes to useArtifactDetails, which keeps it in refs
\* between renders.
WithRefs(u) ==
  [u EXCEPT !.refs = IF IsLargeRun(u) THEN [run |-> None, ids |-> {}]
                     ELSE [run |-> u.view.run, ids |-> u.view.open]]

-----------------------------------------------------------------------------
(* The hooks' reload functions.                                            *)

ReloadStatus(u, refresh) ==
  Send([u EXCEPT !.status.loading = TRUE, !.status.error = FALSE],
       "status", Call(None, {}, 0, refresh))

ReloadSessions(u, refresh) ==
  Send([u EXCEPT !.sessions.loading = TRUE, !.sessions.error = FALSE],
       "sessions", Call(None, {}, 1, refresh))

NoRun == [run |-> None, loading |-> FALSE, error |-> FALSE]

ReloadRun(u, run, enabled, refresh) ==
  IF ~enabled \/ run = None
    THEN [u EXCEPT !.shown = NoRun]
    ELSE Send([u EXCEPT !.shown.loading = TRUE, !.shown.error = FALSE],
              "run", Call(run, {}, 0, refresh))

NoDetails == [data |-> [id \in {} |-> None], errors |-> {}, loading |-> {}, run |-> None]

\* The artifacts to have details of: none while no run is selected.
Wanted(u) == IF u.refs.run = None THEN {} ELSE u.refs.ids

\* What is kept of the answers so far: those of the same run.
KeptDetails(u) == IF u.details.run = u.refs.run THEN u.details ELSE NoDetails

MissingDetails(u) == Wanted(u) \ (DOMAIN KeptDetails(u).data \cup KeptDetails(u).loading)

ReloadDetails(u, refresh) ==
  LET missing == MissingDetails(u)
      kept == KeptDetails(u)
      next == [data |-> Restrict(kept.data, DOMAIN kept.data \cap Wanted(u)),
               errors |-> (kept.errors \cap Wanted(u)) \ missing,
               loading |-> (kept.loading \cap Wanted(u)) \cup missing,
               run |-> u.refs.run]
      loaded == [u EXCEPT !.details = next]
  IN  IF missing = {} THEN loaded
      ELSE Send(loaded, "details", Call(u.refs.run, missing, 0, refresh))

-----------------------------------------------------------------------------
(* The effects of a render that turned u into v; touched says that the     *)
(* event set the expanded artifacts, perhaps to an equal list.             *)

StatusEffect(u, v) == IF v.status.ready /\ ~u.status.ready THEN ReloadSessions(v, FALSE) ELSE v

\* The effect depends on the run alone.
RunEffectByRun(u, v) ==
  IF u.view.run = v.view.run THEN v ELSE ReloadRun(v, v.view.run, ~IsLargeRun(v), FALSE)

RunEffect(u, v) ==
  IF u.view.run = v.view.run /\ IsLargeRun(u) = IsLargeRun(v) THEN v
  ELSE ReloadRun(v, v.view.run, ~IsLargeRun(v), FALSE)

DetailsEffect(u, v, touched) ==
  IF u.refs.run = v.refs.run /\ IsLargeRun(u) = IsLargeRun(v) /\ (IsLargeRun(v) \/ ~touched) THEN v
  ELSE ReloadDetails(v, FALSE)

NoLarge == [at |-> None, run |-> None, page |-> None, artifacts |-> None, error |-> FALSE]

\* The calls whose answers the explorer no longer takes: all once it is unmounted,
\* and that for the earlier run's summary (active) once it shows another run.
Outdated(v) == IF LargeRunShown(v) = None THEN OfLargeRun ELSE {"large"}

LargeEffect(v) ==
  LET at == LargeRunShown(v)
      reset == [v EXCEPT !.large = [NoLarge EXCEPT !.at = at],
                         !.calls = [h \in Hooks |-> IF h \in Outdated(v) THEN <<>> ELSE @[h]]]
  IN  CASE at = v.large.at -> v
        [] at # v.large.at /\ at = None -> reset
        [] OTHER -> Send(reset, "large", Call(at, {}, 0, FALSE))

Rendered(u, v, touched) ==
  LargeEffect(DetailsEffect(u, RunEffect(u, StatusEffect(u, WithRefs(v))), touched))

-----------------------------------------------------------------------------
(* The refresh: status, sessions, run and details are reloaded one after   *)
(* the other, then the selection is reconciled.  It runs in the closure of *)
(* the render that started it: the run, the list and the data of then.     *)

\* reconcileRun(reconcileSessions(current, sessions), run)
Reconciled(view, items, run) ==
  LET kept == IF view.run = None \/ view.run \in items THEN view ELSE [run |-> None, open |-> {}]
  IN  [kept EXCEPT !.open = IF run = None THEN {} ELSE @ \cap ArtifactIds[run]]

AfterDetails(u) ==
  [u EXCEPT !.view = Reconciled(@, u.refresh.items, u.refresh.data), !.refresh = None]

AfterRun(u) ==
  LET reloaded == ReloadDetails(u, TRUE)
  IN  IF reloaded.calls # u.calls THEN reloaded ELSE AfterDetails(reloaded)

AfterSessions(u) ==
  LET reloaded == ReloadRun(u, u.refresh.run, u.refresh.enabled, TRUE)
  IN  IF reloaded.calls # u.calls THEN reloaded ELSE AfterRun(reloaded)

AfterStatus(u) == IF u.refresh.ready THEN ReloadSessions(u, TRUE) ELSE AfterSessions(u)

Continued(u, hook, call) ==
  IF ~call.refresh THEN u
  ELSE CASE hook = "status" -> AfterStatus(u)
         [] hook = "sessions" -> AfterSessions(u)
         [] hook = "run" -> AfterRun(u)
         [] hook = "details" -> AfterDetails(u)

-----------------------------------------------------------------------------
(* The answers: what a hook does when its call settles.                    *)

StatusAnswered(u, ok) ==
  [u EXCEPT !.status = [loading |-> FALSE, ready |-> @.ready \/ ok, error |-> @.error \/ ~ok]]

NextPage(n) == IF n < Len(Pages) THEN n + 1 ELSE 0

\* A reload keeps the pages loaded before it.
ListExtended(u, call) ==
  IF u.sessions.items = None THEN Pages[call.page] ELSE u.sessions.items \o Pages[call.page]

\* The list after an answer: the first page replaces it, a later page extends it.
ListWith(u, call) == IF call.page = 1 THEN Pages[1] ELSE u.sessions.items \o Pages[call.page]

SessionsAnswered(u, call, ok) ==
  [u EXCEPT !.sessions =
     [items |-> IF ok THEN ListWith(u, call) ELSE @.items,
      next |-> IF ok THEN NextPage(call.page) ELSE @.next,
      loading |-> FALSE,
      error |-> @.error \/ ~ok]]

\* The spinner is stopped by success only.
RunAnsweredOk(u, call, ok) ==
  [u EXCEPT !.shown = [run |-> IF ok THEN call.run ELSE @.run, loading |-> ~ok /\ @.loading, error |-> @.error \/ ~ok]]

RunAnswered(u, call, ok) ==
  [u EXCEPT !.shown = [run |-> IF ok THEN call.run ELSE @.run, loading |-> FALSE, error |-> @.error \/ ~ok]]

\* Ids collapsed since are taken too.
AnyExpanded(u, call) == call.ids

\* Only ids still expanded take an answer, whatever run it was asked for.
StillExpanded(u, call) == call.ids \cap u.refs.ids

DetailsAnswered(u, call, ok) ==
  LET taken == StillExpanded(u, call) \cap ok
      data == [id \in (DOMAIN u.details.data \cap u.refs.ids) \cup taken |->
                 IF id \in taken THEN call.run ELSE u.details.data[id]]
      failed == StillExpanded(u, call) \ ok
  IN  [u EXCEPT !.details.data = data,
                !.details.errors = ((@ \cap u.refs.ids) \ taken) \cup failed,
                !.details.loading = @ \ call.ids]

LargeAnswered(u, hook, call, ok) ==
  CASE ~ok -> [u EXCEPT !.large.error = TRUE]
    [] ok /\ hook = "large" -> [u EXCEPT !.large.run = call.run, !.large.page = call.run]
    [] ok /\ hook = "requests" ->
         [u EXCEPT !.large.page = IF u.large.run = None THEN @ ELSE call.run]
    [] ok /\ hook = "artifacts" -> [u EXCEPT !.large.artifacts = call.run, !.large.error = FALSE]

Answered(u, hook, call, ok) ==
  CASE hook = "status" -> StatusAnswered(u, ok # {})
    [] hook = "sessions" -> SessionsAnswered(u, call, ok # {})
    [] hook = "run" -> RunAnswered(u, call, ok # {})
    [] hook = "details" -> DetailsAnswered(u, call, ok)
    [] hook \in OfLargeRun -> LargeAnswered(u, hook, call, ok # {})

-----------------------------------------------------------------------------
InFlight == SumFunction([h \in Hooks |-> Len(ui.calls[h])])

Quiet == \A h \in Hooks : ui.calls[h] = <<>>

\* What an answer succeeds for: the details, asked for one by one and applied
\* together, fail one by one, those of artifacts the run does not have among them;
\* any other call fails as a whole.
Outcomes(hook, call) ==
  IF hook = "details" THEN SUBSET (call.ids \cap ArtifactIds[call.run]) ELSE {{}, {0}}

\* Answer the i-th call of a hook in flight.
Answer(hook, i) ==
  LET call == ui.calls[hook][i]
      taken == [ui EXCEPT !.calls[hook] = RemoveAt(@, i)]
  IN  /\ orderly => i = 1
      /\ \E ok \in Outcomes(hook, call) :
           LET next == Continued(Answered(taken, hook, call, ok), hook, call)
           IN  ui' = Rendered(ui, next, call.refresh /\ next.refresh = None)
      /\ UNCHANGED orderly

AnswerAny == \E hook \in Hooks : \E i \in DOMAIN ui.calls[hook] : Answer(hook, i)

Click(u, touched) == InFlight < MaxPending /\ ui' = Rendered(ui, u, touched) /\ UNCHANGED orderly

\* SessionList: withSelectedRun.
Select(run) ==
  /\ ShowsList(ui) /\ run \in Listed(ui)
  /\ orderly => ui.refresh = None /\ ui.calls["requests"] \o ui.calls["artifacts"] = <<>>
  /\ Click([ui EXCEPT !.view = [run |-> run, open |-> {}]], TRUE)

LoadMore ==
  /\ ShowsList(ui) /\ ui.sessions.next # 0
  /\ orderly => ui.refresh = None /\ ui.calls["sessions"] = <<>>
  /\ Click(Send([ui EXCEPT !.sessions.loading = TRUE], "sessions", Call(None, {}, ui.sessions.next, FALSE)), FALSE)

\* RunExplorer: toggleArtifact, for an artifact of the run on the screen.
Toggle(id) ==
  /\ ShowsRun(ui) /\ id \in ArtifactIds[ui.shown.run]
  /\ Click([ui EXCEPT !.view.open = SymDiff(@, {id})], TRUE)

\* LargeRunExplorer: loadRequestPage and loadArtifacts.
LoadLarge(hook) ==
  /\ ui.large.run # None /\ ~ui.large.error
  /\ Click(Send(ui, hook, Call(ui.large.at, {}, 0, FALSE)), FALSE)

\* The buttons of the error screens.
RetryStatus == ~ui.status.loading /\ (ui.status.error \/ ~ui.status.ready) /\ Click(ReloadStatus(ui, FALSE), FALSE)

RetrySessions ==
  /\ ~ui.status.loading /\ ~ui.status.error /\ ui.status.ready /\ ui.sessions.error
  /\ orderly => ui.refresh = None
  /\ Click(ReloadSessions(ui, FALSE), FALSE)

\* The button, or the timer of the mode interval.
BeginRefresh ==
  /\ ui.refresh = None
  /\ orderly => ui.calls["sessions"] = <<>>
  /\ LET begun == [ui EXCEPT !.refresh =
                     [run |-> ui.view.run, enabled |-> ~IsLargeRun(ui), ready |-> ui.status.ready,
                      items |-> Listed(ui), data |-> ui.shown.run]]
     IN  Click(ReloadStatus(begun, TRUE), FALSE)

-----------------------------------------------------------------------------
\* The first render: nothing is known but the selection in the URL.
Opened(run, open) ==
  LET blank == [view |-> [run |-> None, open |-> {}],
                status |-> [loading |-> FALSE, ready |-> FALSE, error |-> FALSE],
                sessions |-> [items |-> None, next |-> 0, loading |-> FALSE, error |-> FALSE],
                shown |-> NoRun, details |-> NoDetails, refs |-> [run |-> None, ids |-> {}], large |-> NoLarge,
                refresh |-> None, calls |-> [h \in Hooks |-> <<>>]]
  IN  Rendered(blank, ReloadStatus([blank EXCEPT !.view = [run |-> run, open |-> open]], FALSE), TRUE)

Init ==
  /\ orderly \in BOOLEAN
  /\ \E run \in Runs \cup {None} :
       \E open \in {{}} \cup {{id} : id \in IF run = None THEN {} ELSE ArtifactIds[run]} :
         ui = Opened(run, open)

Next ==
  \/ AnswerAny
  \/ \E run \in Runs : Select(run)
  \/ \E id \in Ids : Toggle(id)
  \/ LoadMore
  \/ \E hook \in {"requests", "artifacts"} : LoadLarge(hook)
  \/ RetryStatus
  \/ RetrySessions
  \/ BeginRefresh

Spec == Init /\ [][Next]_vars

-----------------------------------------------------------------------------
\* Every hook holds what its type allows.
TypeOK ==
  LET MaybeRun == Runs \cup {None}
      Views == [run : MaybeRun, open : SUBSET Ids]
      Calls == [run : MaybeRun, ids : SUBSET Ids, page : 0 .. Len(Pages), refresh : BOOLEAN]
  IN  /\ orderly \in BOOLEAN
      /\ ui.view \in Views
      /\ ui.status \in [loading : BOOLEAN, ready : BOOLEAN, error : BOOLEAN]
      /\ ui.sessions.items = None \/ ui.sessions.items \in Seq(Runs)
      /\ ui.sessions.next \in 0 .. Len(Pages)
      /\ ui.shown \in [run : MaybeRun, loading : BOOLEAN, error : BOOLEAN]
      /\ ui.details.data \in [DOMAIN ui.details.data -> Runs] /\ DOMAIN ui.details.data \subseteq Ids
      /\ ui.details.errors \cup ui.details.loading \subseteq Ids
      /\ ui.refs \in [run : MaybeRun, ids : SUBSET Ids]
      /\ \A key \in {"at", "run", "page", "artifacts"} : ui.large[key] \in MaybeRun
      /\ \A h \in Hooks : ui.calls[h] \in Seq(Calls)

CallsFor(id) == {i \in DOMAIN ui.calls["details"] : id \in ui.calls["details"][i].ids}

(* An artifact's detail under the selected run is that of another run only *)
(* under an id the two share; and when answers keep the order of their     *)
(* calls, only until the call for the selected run is answered, or beside  *)
(* its error if it failed: answers are applied by id alone                 *)
(* (useArtifactDetails), and put right by the next one.                    *)
DetailsAreOfSelectedRun ==
  \A id \in DOMAIN ui.details.data :
    LET run == ui.details.data[id]
    IN  run # ui.view.run =>
          /\ id \in ui.view.open /\ id \in ArtifactIds[run]
          /\ orderly /\ ui.view.run # None =>
               \/ id \in ui.details.errors
               \/ \E i \in CallsFor(id) : ui.calls["details"][i].run = ui.view.run

(* No expanded artifact is forgotten: one without data or error has a call *)
(* in flight, through every change of run, collapse, re-expansion and      *)
(* refresh.                                                                *)
ExpandedArtifactsAreAnswered ==
  \A id \in ui.refs.ids :
    ui.refs.run # None => id \in DOMAIN ui.details.data \cup ui.details.errors \/ CallsFor(id) # {}

\* Typed, and the details those of the expanded artifacts of the selected run.
DetailsAreTrue == TypeOK /\ DetailsAreOfSelectedRun /\ ExpandedArtifactsAreAnswered

(* Once every call is answered, the run on the screen is the selected one, *)
(* or the screen says that it could not be read: when answers keep their   *)
(* order and nothing else is selected during a refresh (the refresh        *)
(* reloads the run of the render that began it, useSelectedRun takes any   *)
(* answer).                                                                *)
SelectedRunIsShown ==
  orderly /\ Quiet /\ ui.view.run # None /\ ~IsLargeRun(ui) =>
    ui.shown.run = ui.view.run \/ ui.shown.error

(* The explorer of large runs never shows one run's summary under another, *)
(* and not its pages either unless the selection changed while one was     *)
(* being read.                                                             *)
LargeRunIsSelected ==
  LET at == LargeRunShown(ui)
  IN  /\ ui.large.at = at
      /\ ui.large.run \in {None, at}
      /\ orderly => {ui.large.page, ui.large.artifacts} \subseteq {None, at}

\* The run on the screen is the selected one, plain or large.
SelectionIsShown == SelectedRunIsShown /\ LargeRunIsSelected

(* The session list is the pages read so far, each once and in order, and  *)
(* it asks for the page after them: when the reader waits for the list to  *)
(* load (a reload and loadMore share one flag and one list).               *)
SessionListIsWhole ==
  orderly /\ ui.sessions.items # None =>
    \E n \in DOMAIN Pages :
      /\ ui.sessions.items = FlattenSeq(SubSeq(Pages, 1, n))
      /\ ui.sessions.next = NextPage(n)

(* A refresh ends once the API answers, whatever fails and whatever the    *)
(* reader does meanwhile: it is always waiting for exactly one call of its *)
(* own.  And no screen says "loading" once the calls are answered, though  *)
(* the calls of a hook share one flag.                                     *)
NothingHangs ==
  LET Own(h) == {i \in DOMAIN ui.calls[h] : ui.calls[h][i].refresh}
  IN  /\ ui.refresh = None => \A h \in Hooks : Own(h) = {}
      /\ ui.refresh # None =>
           \E h \in Hooks : (\E i \in Own(h) : Own(h) = {i}) /\ \A g \in Hooks \ {h} : Own(g) = {}
      /\ ui.status.loading => ui.calls["status"] # <<>>
      /\ ui.sessions.loading => ui.calls["sessions"] # <<>>
      /\ ui.shown.loading => ui.calls["run"] # <<>>
      /\ \A id \in ui.details.loading : CallsFor(id) # {}

(* What the repository says of a refresh: a selection that is valid is     *)
(* kept.  Every run of the model is listed by the API, and the refreshes   *)
(* looked at began with a session list on the screen.                      *)
RefreshKeepsValidSelection ==
  [][ui.refresh # None /\ ui.refresh.items # {} /\ ui.view.run # None => ui'.view.run # None]_vars
=============================================================================
