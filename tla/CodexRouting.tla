---------------------------- MODULE CodexRouting ----------------------------
(***************************************************************************)
(* Routing the Codex CLI through the proxy and back:                       *)
(* `token-profiler codex enable` and `codex disable`                       *)
(* (src/adapters/codex/live-proxy/config.ts, proxy-commands.ts).           *)
(*                                                                         *)
(* Both commands rewrite the user's config.toml; enable also saves, in a   *)
(* second file, what disable needs to undo it.  A command may die between  *)
(* two writes, and the user edits the config between two commands.         *)
(***************************************************************************)
EXTENDS Integers, Sequences, SequencesExt

CONSTANTS
  Providers,   \* model providers the user may choose
  Managed,     \* the provider id of the profiler
  Urls,        \* base URLs of the proxy
  Documents,   \* the documents a user may write, sequences of user lines
  Extra,       \* a line users append to a document
  MaxEdits,    \* bound on edits of the user
  MaxDeaths,   \* bound on commands that die
  None

(***************************************************************************)
(* A document is a sequence of lines.  The table of the provider that      *)
(* enable appends is one line here, of kind "block".                       *)
(***************************************************************************)
Line(kind, value) == [kind |-> kind, value |-> value]
Provider(v) == Line("provider", v)
Block(url) == Line("block", url)
Marker == Line("marker", None)
Blank == Line("blank", None)

UserLines == {Provider(v) : v \in Providers}
               \cup {Line("table", None), Line("other", None), Extra}

\* What the state file can hold: the provider line that enable replaced, and its table.
States == [previous : UserLines \cup {None}, block : {Block(url) : url \in Urls}]

ASSUME RoutingAssumption ==
  /\ Managed \notin Providers /\ None \notin Providers \cup Urls \cup UserLines \cup States
  /\ Extra \in [kind : {"table", "other"}, value : {None, "extra"}]
  /\ Documents \subseteq Seq(UserLines)
  /\ MaxEdits \in Nat /\ MaxDeaths \in Nat

FirstOf(doc, kind) == SelectInSeq(doc, LAMBDA l : l.kind = kind)
HasBlock(doc) == FirstOf(doc, "block") # 0
IsRouted(doc) == Contains(doc, Provider(Managed))

Kinds == {"provider", "block", "marker", "blank", "table", "other"}

\* The lines of these kinds, in their order.
OfKinds(doc, kinds) ==
  LET upTo[i \in 0..Len(doc)] ==
        IF i = 0 THEN <<>>
        ELSE IF doc[i].kind \in kinds THEN Append(upTo[i - 1], doc[i]) ELSE upTo[i - 1]
  IN  upTo[Len(doc)]

\* The lines enable inserts where no provider line is there to replace.
Insertion == <<Marker, Provider(Managed), Blank>>

\* Slip: the lines go in the place of the first table, and not before it.
EnabledOverTable(doc, url) ==
  LET match == FirstOf(doc, "provider")
      table == FirstOf(doc, "table")
      place == IF table = 0 THEN Len(doc) ELSE table - 1
      updated == IF match # 0
                 THEN ReplaceAt(doc, match, Provider(Managed))
                 ELSE SubSeq(doc, 1, place) \o Insertion \o SubSeq(doc, place + 2, Len(doc))
  IN  [config |-> Append(updated, Block(url)),
       state  |-> [previous |-> IF match # 0 THEN doc[match] ELSE None,
                   block    |-> Block(url)]]

\* enableCodexProxyConfig on a document without a block: the first provider line
\* of the text becomes the managed one, or one is inserted before the first table.
Enabled(doc, url) ==
  LET match == FirstOf(doc, "provider")
      table == FirstOf(doc, "table")
      place == IF table = 0 THEN Len(doc) ELSE table - 1
      updated == IF match # 0
                 THEN ReplaceAt(doc, match, Provider(Managed))
                 ELSE SubSeq(doc, 1, place) \o Insertion \o SubSeq(doc, place + 1, Len(doc))
  IN  [config |-> Append(updated, Block(url)),
       state  |-> [previous |-> IF match # 0 THEN doc[match] ELSE None,
                   block    |-> Block(url)]]

\* disableCodexProxyConfig on a document that still holds both managed texts.
IsIntact(doc, state) == IsRouted(doc) /\ Contains(doc, state.block)

\* Slip: the managed line is removed, and not replaced by the line it replaced.
RestoredWithoutPrevious(doc, state) ==
  LET unblocked == ReplaceFirstSubSeq(<<>>, <<state.block>>, doc)
      unmarked == ReplaceFirstSubSeq(<<>>, <<Marker>>, unblocked)
  IN  ReplaceFirstSubSeq(<<>>, <<Provider(Managed)>>, unmarked)

Restored(doc, state) ==
  LET unblocked == ReplaceFirstSubSeq(<<>>, <<state.block>>, doc)
      unmarked == ReplaceFirstSubSeq(<<>>, <<Marker>>, unblocked)
  IN  IF state.previous # None
      THEN ReplaceFirstSubSeq(<<state.previous>>, <<Provider(Managed)>>, unblocked)
      ELSE ReplaceFirstSubSeq(<<>>, <<Provider(Managed), Blank>>, unmarked)

VARIABLES
  config,   \* the document in config.toml
  saved,    \* what config.toml.token-profiler-state.json holds, or None
  command,  \* the running command and the writes it has left
  outcome,  \* how the last command ended
  own,      \* the document the user would have without the profiler
  edits, deaths

vars == <<config, saved, command, outcome, own, edits, deaths>>

Idle == [step |-> "idle", config |-> <<>>, state |-> None]
IsIdle == command.step = "idle"

Init ==
  /\ config \in Documents
  /\ saved = None
  /\ command = Idle
  /\ outcome = "none"
  /\ own = config
  /\ edits = 0 /\ deaths = 0

Fail(how) == outcome' = how /\ UNCHANGED <<config, saved, command, own, edits, deaths>>

\* `codex enable` reads both files and decides.
EnableReads(url) ==
  /\ IsIdle
  /\ IF saved # None /\ IsRouted(config) THEN Fail("already enabled")
     ELSE IF HasBlock(config) THEN Fail("refused")
     ELSE LET update == Enabled(config, url)
          IN  /\ command' = [step   |-> "enable: config",
                             config |-> update.config,
                             state  |-> update.state]
              /\ outcome' = "none"
              /\ UNCHANGED <<config, saved, own, edits, deaths>>

EnableWritesConfig ==
  /\ command.step = "enable: config"
  /\ config' = command.config
  /\ command' = [command EXCEPT !.step = "enable: state"]
  /\ UNCHANGED <<saved, outcome, own, edits, deaths>>

EnableWritesState ==
  /\ command.step = "enable: state"
  /\ saved' = command.state
  /\ command' = Idle
  /\ outcome' = "enabled"
  /\ UNCHANGED <<config, own, edits, deaths>>

\* `codex disable`.  The state file stays behind, whatever happens.
DisableReads ==
  /\ IsIdle
  /\ IF saved = None THEN Fail("not enabled")
     ELSE IF ~IsIntact(config, saved) THEN Fail("refused")
     ELSE /\ command' = [step |-> "disable", config |-> Restored(config, saved), state |-> None]
          /\ outcome' = "none"
          /\ UNCHANGED <<config, saved, own, edits, deaths>>

DisableWrites ==
  /\ command.step = "disable"
  /\ config' = command.config
  /\ command' = Idle
  /\ outcome' = "disabled"
  /\ UNCHANGED <<saved, own, edits, deaths>>

CommandDies ==
  /\ ~IsIdle /\ deaths < MaxDeaths
  /\ deaths' = deaths + 1
  /\ command' = Idle
  /\ outcome' = "died"
  /\ UNCHANGED <<config, saved, own, edits>>

Edit(doc, mine) ==
  /\ IsIdle /\ edits < MaxEdits
  /\ edits' = edits + 1
  /\ config' = doc /\ own' = mine
  /\ outcome' = "none"
  /\ UNCHANGED <<saved, command, deaths>>

\* The user rewrites the whole document, for one by leaving no trace of the profiler.
UserWrites(doc) == Edit(doc, doc)

\* A line is added at the end, as Codex does when it trusts another project.
UserAppends == Edit(Append(config, Extra), Append(own, Extra))

\* The user takes another provider over the managed one, and leaves the rest.
UserReroutes(v) ==
  /\ IsRouted(config)
  /\ LET doc == ReplaceFirstSubSeq(<<Provider(v)>>, <<Provider(Managed)>>, config)
     IN  Edit(doc, OfKinds(doc, Kinds \ {"block"}))

Next ==
  \/ \E url \in Urls : EnableReads(url)
  \/ EnableWritesConfig \/ EnableWritesState
  \/ DisableReads \/ DisableWrites
  \/ CommandDies
  \/ \E doc \in Documents : UserWrites(doc)
  \/ UserAppends
  \/ \E v \in Providers : UserReroutes(v)

Spec == Init /\ [][Next]_vars

-----------------------------------------------------------------------------
Document == Seq([kind : Kinds, value : Providers \cup Urls \cup {Managed, None, "extra"}])

\* Types of the variables.
TypeOK ==
  /\ config \in Document /\ own \in Document
  /\ saved \in States \cup {None}
  /\ command.step \in {"idle", "enable: config", "enable: state", "disable"}
  /\ command.config \in Document
  /\ outcome \in {"none", "enabled", "already enabled", "disabled", "not enabled",
                  "refused", "died"}
  /\ edits \in 0..MaxEdits /\ deaths \in 0..MaxDeaths

\* A disable that succeeds gives back the document the user would have had, with
\* the edits made while the profiler was enabled, however often the commands ran,
\* as long as none has died: an enable that dies before it saves its state leaves
\* disable with the state of an earlier enable, or with none.
RestoresOwnDocument == deaths = 0 /\ outcome = "disabled" => config = own

\* No command, and no command that dies, loses a line the user wrote or moves it,
\* the one provider line that enable replaces apart.
UserLinesSurvive ==
  LET kept(doc) == OfKinds(doc, {"table", "other"}) IN kept(config) = kept(own)

\* A config that names the profiler's provider defines it, so that Codex can start,
\* and none defines it twice, which is no TOML.
IsUsable ==
  /\ IsRouted(config) => HasBlock(config)
  /\ Len(OfKinds(config, {"block"})) <= 1

\* Codex can start after any commands and edits, as long as no command has died.
RoutedConfigIsUsable == deaths = 0 => IsUsable

\* Typed, the user's document given back, and every routed one usable.
RoutingInv == TypeOK /\ RestoresOwnDocument /\ RoutedConfigIsUsable
=============================================================================
