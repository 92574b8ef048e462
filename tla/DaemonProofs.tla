----------------------------- MODULE DaemonProofs -----------------------------
(***************************************************************************)
(* Proofs about the daemon commands: for any number of commands, crashes,  *)
(* reboots and edits, what they report of the proxy, the dashboard and the *)
(* routing is so, and the routing goes before the proxy.                   *)
(*                                                                         *)
(* The proofs about the parts are used as they are: every step of Daemon   *)
(* is one of CodexRouting and one of ProxyDaemon, or leaves them alone, so *)
(* their inductive invariants hold here, and what their commands report is *)
(* what a daemon command may take for granted.                             *)
(***************************************************************************)
EXTENDS Daemon, TLAPS

\* The theorems about the parts, of the variables that Daemon gives them.
PP == INSTANCE ProxyDaemonProofs WITH command <- proxyCommand, Commands <- {Slot}
RP == INSTANCE CodexRoutingProofs WITH command <- codexCommand, outcome <- codexOutcome

-----------------------------------------------------------------------------
(***************************************************************************)
(* The instances in Daemon and those of the proofs are the same.           *)
(***************************************************************************)

\* startProxyDaemon and stopProxy, step by step.
LEMMA SameCommands ==
  /\ \A step : Proxy!Begin(Slot, step) <=> PP!Begin(Slot, step)
  /\ Proxy!Start(Slot) <=> PP!Start(Slot)
  /\ Proxy!Stop(Slot) <=> PP!Stop(Slot)
<1>1. \A step : Proxy!Begin(Slot, step) <=> PP!Begin(Slot, step)
  BY DEF Proxy!Begin, PP!Begin, Proxy!At, PP!At, Proxy!IsBusy, PP!IsBusy
<1>2. Proxy!Start(Slot) <=> PP!Start(Slot)
  BY DEF Proxy!Start, PP!Start, Proxy!StartReads, PP!StartReads, Proxy!StartChecks,
         PP!StartChecks, Proxy!StartClears, PP!StartClears, Proxy!StartSpawns, PP!StartSpawns,
         Proxy!StartRecords, PP!StartRecords, Proxy!StartPolls, PP!StartPolls,
         Proxy!StartFetches, PP!StartFetches, Proxy!StartTimesOut, PP!StartTimesOut,
         Proxy!StartRetracts, PP!StartRetracts, Proxy!At, PP!At, Proxy!Go, PP!Go, Proxy!End,
         PP!End, Proxy!IsProcessRunning, PP!IsProcessRunning, Proxy!IsProxyHealthy,
         PP!IsProxyHealthy, Proxy!Count, PP!Count, Proxy!Proxy, PP!Proxy
<1>3. Proxy!Stop(Slot) <=> PP!Stop(Slot)
  BY DEF Proxy!Stop, PP!Stop, Proxy!StopReads, PP!StopReads, Proxy!StopChecks, PP!StopChecks,
         Proxy!StopSignals, PP!StopSignals, Proxy!StopSeesExit, PP!StopSeesExit,
         Proxy!StopTimesOut, PP!StopTimesOut, Proxy!StopClears, PP!StopClears, Proxy!At,
         PP!At, Proxy!Go, PP!Go, Proxy!End, PP!End, Proxy!Terminated, PP!Terminated,
         Proxy!IsProcessRunning, PP!IsProcessRunning, Proxy!IsProxyHealthy, PP!IsProxyHealthy,
         Proxy!Count, PP!Count, Proxy!Proxy, PP!Proxy
<1> QED
  BY <1>1, <1>2, <1>3

\* `proxy serve`, what befalls it, and what is asked of it.
LEMMA SameProcesses ==
  /\ Proxy!DaemonAssumption <=> PP!DaemonAssumption
  /\ Proxy!Init <=> PP!Init
  /\ \A p : Proxy!Serve(p) <=> PP!Serve(p)
  /\ \A p : Proxy!Kill(p) <=> PP!Kill(p)
  /\ \A s : Proxy!Reboot(s) <=> PP!Reboot(s)
  /\ Proxy!IsPatient <=> PP!IsPatient
  /\ Proxy!Proxy = PP!Proxy
<1>1. Proxy!DaemonAssumption <=> PP!DaemonAssumption
  BY DEF Proxy!DaemonAssumption, PP!DaemonAssumption
<1>2. Proxy!Init <=> PP!Init
  BY DEF Proxy!Init, PP!Init
<1>3. \A p : Proxy!Serve(p) <=> PP!Serve(p)
  BY DEF Proxy!Serve, PP!Serve, Proxy!Listen, PP!Listen, Proxy!CloseServer, PP!CloseServer,
         Proxy!FinishClosing, PP!FinishClosing
<1>4. \A p : Proxy!Kill(p) <=> PP!Kill(p)
  BY DEF Proxy!Kill, PP!Kill, Proxy!Count, PP!Count, Proxy!Proxy, PP!Proxy
<1>5. \A s : Proxy!Reboot(s) <=> PP!Reboot(s)
  BY DEF Proxy!Reboot, PP!Reboot, Proxy!Count, PP!Count
<1>6. Proxy!IsPatient <=> PP!IsPatient
  BY DEF Proxy!IsPatient, PP!IsPatient, Proxy!IsInTurn, PP!IsInTurn
<1>7. Proxy!Proxy = PP!Proxy
  BY DEF Proxy!Proxy, PP!Proxy
<1> QED
  BY <1>1, <1>2, <1>3, <1>4, <1>5, <1>6, <1>7

\* The operators of the community modules that CodexRouting is built from.
LEMMA SameSequences ==
  /\ \A s, e : Routing!Contains(s, e) <=> RP!Contains(s, e)
  /\ \A s, i, e : Routing!ReplaceAt(s, i, e) = RP!ReplaceAt(s, i, e)
  /\ \A r, s, t : Routing!ReplaceFirstSubSeq(r, s, t) = RP!ReplaceFirstSubSeq(r, s, t)
  /\ \A S : Routing!Min(S) = RP!Min(S)
<1>1. \A s, e : Routing!Contains(s, e) <=> RP!Contains(s, e)
  BY DEF Routing!Contains, RP!Contains
<1>2. \A s, i, e : Routing!ReplaceAt(s, i, e) = RP!ReplaceAt(s, i, e)
  BY DEF Routing!ReplaceAt, RP!ReplaceAt
<1>3. \A s : Routing!SubSeqs(s) = RP!SubSeqs(s)
  BY DEF Routing!SubSeqs, RP!SubSeqs
<1>4. \A s, t : Routing!IndexFirstSubSeq(s, t) = RP!IndexFirstSubSeq(s, t)
  BY DEF Routing!IndexFirstSubSeq, RP!IndexFirstSubSeq, Routing!SubSeqs, RP!SubSeqs
<1>5. \A i, r, s, t : Routing!ReplaceSubSeqAt(i, r, s, t) = RP!ReplaceSubSeqAt(i, r, s, t)
  BY DEF Routing!ReplaceSubSeqAt, RP!ReplaceSubSeqAt
<1>6. \A r, s, t : Routing!ReplaceFirstSubSeq(r, s, t) = RP!ReplaceFirstSubSeq(r, s, t)
  BY <1>3, <1>4, <1>5 DEF Routing!ReplaceFirstSubSeq, RP!ReplaceFirstSubSeq
<1>7. \A S : Routing!Min(S) = RP!Min(S)
  BY DEF Routing!Min, RP!Min
<1> QED
  BY <1>1, <1>2, <1>6, <1>7

\* What enable and disable make of a document.
LEMMA SameDocuments ==
  /\ Routing!RoutingAssumption <=> RP!RoutingAssumption
  /\ \A doc : Routing!IsRouted(doc) <=> RP!IsRouted(doc)
  /\ \A doc : Routing!HasBlock(doc) <=> RP!HasBlock(doc)
  /\ \A doc, url : Routing!Enabled(doc, url) = RP!Enabled(doc, url)
  /\ \A doc, state : Routing!IsIntact(doc, state) <=> RP!IsIntact(doc, state)
  /\ \A doc, state : Routing!Restored(doc, state) = RP!Restored(doc, state)
  /\ \A v : Routing!UserReroutes(v) <=> RP!UserReroutes(v)
<1>1. Routing!RoutingAssumption <=> RP!RoutingAssumption
  BY DEF Routing!RoutingAssumption, RP!RoutingAssumption, Routing!UserLines, RP!UserLines,
         Routing!States, RP!States, Routing!Provider, RP!Provider, Routing!Block, RP!Block,
         Routing!Line, RP!Line
<1>2. \A doc : Routing!IsRouted(doc) <=> RP!IsRouted(doc)
  BY SameSequences
     DEF Routing!IsRouted, RP!IsRouted, Routing!Provider, RP!Provider, Routing!Line, RP!Line
<1>3. \A doc, kind : Routing!FirstOf(doc, kind) = RP!FirstOf(doc, kind)
  <2> SUFFICES ASSUME NEW doc, NEW kind
               PROVE  Routing!FirstOf(doc, kind) = RP!FirstOf(doc, kind)
    OBVIOUS
  <2> DEFINE I == {i \in 1 .. Len(doc) : doc[i].kind = kind}
  <2>1. Routing!FirstOf(doc, kind) = IF I # {} THEN Routing!Min(I) ELSE 0
    BY DEF Routing!FirstOf, Routing!SelectInSeq
  <2>2. RP!FirstOf(doc, kind) = IF I # {} THEN RP!Min(I) ELSE 0
    BY DEF RP!FirstOf, RP!SelectInSeq
  <2> QED
    BY <2>1, <2>2, SameSequences
<1>4. \A doc : Routing!HasBlock(doc) <=> RP!HasBlock(doc)
  BY <1>3 DEF Routing!HasBlock, RP!HasBlock
<1>5. \A doc, url : Routing!Enabled(doc, url) = RP!Enabled(doc, url)
  BY <1>3, SameSequences
     DEF Routing!Enabled, RP!Enabled, Routing!Insertion, RP!Insertion, Routing!Provider,
         RP!Provider, Routing!Block, RP!Block, Routing!Line, RP!Line, Routing!Marker,
         RP!Marker, Routing!Blank, RP!Blank
<1>6. \A doc, state : Routing!IsIntact(doc, state) <=> RP!IsIntact(doc, state)
  BY <1>2, SameSequences DEF Routing!IsIntact, RP!IsIntact
<1>7. \A doc, state : Routing!Restored(doc, state) = RP!Restored(doc, state)
  BY SameSequences
     DEF Routing!Restored, RP!Restored, Routing!Provider, RP!Provider, Routing!Line,
         RP!Line, Routing!Marker, RP!Marker, Routing!Blank, RP!Blank
<1>8. \A doc, kinds : Routing!OfKinds(doc, kinds) = RP!OfKinds(doc, kinds)
  BY DEF Routing!OfKinds, RP!OfKinds
<1>9. \A v : Routing!UserReroutes(v) <=> RP!UserReroutes(v)
  BY <1>2, <1>8, SameSequences
     DEF Routing!UserReroutes, RP!UserReroutes, Routing!Edit, RP!Edit, Routing!IsIdle,
         RP!IsIdle, Routing!Provider, RP!Provider, Routing!Line, RP!Line, Routing!Kinds,
         RP!Kinds
<1> QED
  BY <1>1, <1>2, <1>4, <1>5, <1>6, <1>7, <1>9

\* The steps of `codex enable` and `codex disable`, and the edits of the user.
LEMMA SameRouting ==
  /\ Routing!Init <=> RP!Init
  /\ Routing!DisableReads <=> RP!DisableReads
  /\ Routing!DisableWrites <=> RP!DisableWrites
  /\ Routing!Next <=> RP!Next
  /\ Routing!IsIdle <=> RP!IsIdle
<1>1. Routing!Init <=> RP!Init
  BY DEF Routing!Init, RP!Init, Routing!Idle, RP!Idle
<1>2. Routing!DisableReads <=> RP!DisableReads
  BY SameDocuments
     DEF Routing!DisableReads, RP!DisableReads, Routing!IsIdle, RP!IsIdle, Routing!Fail,
         RP!Fail
<1>3. Routing!DisableWrites <=> RP!DisableWrites
  BY DEF Routing!DisableWrites, RP!DisableWrites, Routing!Idle, RP!Idle
<1>4. Routing!IsIdle <=> RP!IsIdle
  BY DEF Routing!IsIdle, RP!IsIdle
<1>5. \A url : Routing!EnableReads(url) <=> RP!EnableReads(url)
  BY SameDocuments
     DEF Routing!EnableReads, RP!EnableReads, Routing!IsIdle, RP!IsIdle, Routing!Fail,
         RP!Fail
<1>6. Routing!EnableWritesConfig <=> RP!EnableWritesConfig
  BY DEF Routing!EnableWritesConfig, RP!EnableWritesConfig
<1>7. Routing!EnableWritesState <=> RP!EnableWritesState
  BY DEF Routing!EnableWritesState, RP!EnableWritesState, Routing!Idle, RP!Idle
<1>8. Routing!CommandDies <=> RP!CommandDies
  BY DEF Routing!CommandDies, RP!CommandDies, Routing!Idle, RP!Idle, Routing!IsIdle,
         RP!IsIdle
<1>9. \A doc : Routing!UserWrites(doc) <=> RP!UserWrites(doc)
  BY DEF Routing!UserWrites, RP!UserWrites, Routing!Edit, RP!Edit, Routing!IsIdle, RP!IsIdle
<1>10. Routing!UserAppends <=> RP!UserAppends
  BY DEF Routing!UserAppends, RP!UserAppends, Routing!Edit, RP!Edit, Routing!IsIdle,
         RP!IsIdle
<1>11. Routing!Next <=> RP!Next
  BY <1>2, <1>3, <1>5, <1>6, <1>7, <1>8, <1>9, <1>10, SameDocuments
     DEF Routing!Next, RP!Next
<1> QED
  BY <1>1, <1>2, <1>3, <1>4, <1>11

-----------------------------------------------------------------------------
(***************************************************************************)
(* The inductive invariant.                                                *)
(***************************************************************************)

\* What is known of the parts and of the commands that use them.
IInv ==
  /\ DaemonInv
  /\ PP!ProcessInv /\ RP!IInv
  /\ codexOutcome = "not enabled" => saved = None

\* Between two proxy commands, and with no proxy alive.
LEMMA SameAtRest ==
  /\ ProxyIsIdle <=> ~PP!IsBusy
  /\ Proxy!NoProxyLives <=> PP!NoProxyLives
<1>1. ProxyIsIdle <=> ~PP!IsBusy
  BY DEF ProxyIsIdle, PP!IsBusy, PP!At
<1>2. Proxy!NoProxyLives <=> PP!NoProxyLives
  BY DEF Proxy!NoProxyLives, PP!NoProxyLives, Proxy!Proxy, PP!Proxy
<1> QED
  BY <1>1, <1>2

\* The record of the running command, and the other variables of this module.
DaemonRecord == [step : Steps, op : Operations \cup {"none"}, pid : DashboardPids \cup {None},
                 outcome : {"none", "running", "stopped", "failed"}]

Services ==
  /\ dashboard \in [DashboardPids -> Lives]
  /\ daemonFile \in DashboardPids \cup {None}
  /\ strays \in SUBSET DashboardPids
  /\ issued \in 0..MaxDaemons /\ crashes \in 0..MaxCrashes

\* The types of this module.
LEMMA TypeInit == Init => TypeOK
<1> SUFFICES ASSUME Init PROVE TypeOK
  OBVIOUS
<1>1. daemon \in [step : Steps, op : Operations \cup {"none"}, pid : DashboardPids \cup {None},
                  outcome : {"none", "running", "stopped", "failed"}]
  BY DEF Init, Steps
<1> QED
  BY <1>1, DaemonsAssumption DEF Init, TypeOK, Lives

\* A command goes on, with the pid it has or with another one, or ends.
LEMMA DaemonGoes ==
  ASSUME daemon \in DaemonRecord
  PROVE  /\ \A step \in Steps : Goto(step) =>
              daemon' \in DaemonRecord /\ daemon'.step = step
              /\ daemon'.op = daemon.op /\ daemon'.pid = daemon.pid
         /\ \A step \in Steps : \A d \in DashboardPids \cup {None} : GotoWith(step, d) =>
              daemon' \in DaemonRecord /\ daemon'.step = step
              /\ daemon'.op = daemon.op /\ daemon'.pid = d
         /\ \A outcome \in {"running", "stopped", "failed"} : End(outcome) =>
              daemon' \in DaemonRecord /\ daemon'.step = "idle" /\ daemon'.outcome = outcome
BY DEF DaemonRecord, Goto, GotoWith, End, Steps

\* A command is issued when the one before has ended.
LEMMA DaemonBegins ==
  ASSUME issued \in 0..MaxDaemons, NEW op \in Operations, NEW step \in Steps, Issue(op, step)
  PROVE  /\ daemon' \in DaemonRecord /\ daemon'.step = step /\ daemon'.op = op
         /\ daemon'.outcome = "none" /\ daemon'.pid = None
         /\ At("idle") /\ ProxyIsIdle
         /\ issued' \in 0..MaxDaemons
         /\ UNCHANGED <<dashboard, daemonFile, strays, crashes>>
BY DaemonsAssumption DEF Issue, IsIdle, DaemonRecord, dashboardVars

\* What the steps do to the record of the command.
LEMMA RecordStep ==
  ASSUME daemon \in DaemonRecord, Services, [Next]_vars
  PROVE  daemon' \in DaemonRecord
<1>1. ASSUME NEW op \in Operations, StartDaemon(op) PROVE daemon' \in DaemonRecord
  BY <1>1, DaemonBegins DEF StartDaemon, Steps, Services
<1>2. ASSUME NEW op \in Operations, StopDaemon(op) PROVE daemon' \in DaemonRecord
  BY <1>2, DaemonBegins DEF StopDaemon, Steps, Services
<1>3. CASE EnsureProxy
  BY <1>3, DaemonGoes DEF EnsureProxy, Steps, Services
<1>4. CASE EnsureDashboard
  BY <1>4, DaemonGoes DEF EnsureDashboard, Steps, Services
<1>5. CASE DashboardPolls
  BY <1>5, DaemonGoes DEF DashboardPolls, Steps, Services
<1>6. CASE DashboardAnswers
  BY <1>6, DaemonGoes DEF DashboardAnswers, Steps, Services
<1>7. CASE DashboardTimesOut
  BY <1>7, DaemonGoes DEF DashboardTimesOut, Steps, Services
<1>8. CASE WriteDaemonState
  BY <1>8, DaemonGoes DEF WriteDaemonState, Steps, Services
<1>9. CASE DisableCodexRouting
  BY <1>9, DaemonGoes DEF DisableCodexRouting, Steps, Services
<1>10. CASE StopDashboard
  BY <1>10, DaemonGoes DEF StopDashboard, Steps, Services
<1>11. CASE StopDashboardTimesOut
  BY <1>11, DaemonGoes DEF StopDashboardTimesOut, Steps, Services
<1>12. CASE StopProxy
  BY <1>12, DaemonGoes DEF StopProxy, Steps, Services
<1>13. CASE RemoveDaemonState
  BY <1>13, DaemonGoes DEF RemoveDaemonState, Steps, Services
<1>14. CASE SubStep
  BY <1>14, DaemonGoes DEF SubStep, Steps, Services
<1>15. CASE UserStep
  BY <1>15, DaemonGoes DEF UserStep, Steps, Services
<1>16. CASE ProxyCrashes
  BY <1>16, DaemonGoes DEF ProxyCrashes, Steps, Services
<1>17. ASSUME NEW d \in DashboardPids, DashboardListens(d) PROVE daemon' \in DaemonRecord
  BY <1>17, DaemonGoes DEF DashboardListens, Steps, Services
<1>18. ASSUME NEW d \in DashboardPids, ServeByHand(d) PROVE daemon' \in DaemonRecord
  BY <1>18, DaemonGoes DEF ServeByHand, Steps, Services
<1>19. ASSUME NEW d \in DashboardPids, DashboardCrashes(d) PROVE daemon' \in DaemonRecord
  BY <1>19, DaemonGoes DEF DashboardCrashes, Steps, Services
<1>20. ASSUME NEW strangers \in SUBSET DashboardPids, Reboot(strangers)
       PROVE  daemon' \in DaemonRecord
  BY <1>20, DaemonGoes DEF Reboot, Steps, Services
<1>21. CASE UNCHANGED vars
  BY <1>21, DaemonGoes DEF vars, Steps, Services
<1> QED
  BY <1>1, <1>2, <1>3, <1>4, <1>5, <1>6, <1>7, <1>8, <1>9, <1>10, <1>11, <1>12, <1>13, <1>14,
     <1>15, <1>16, <1>17, <1>18, <1>19, <1>20, <1>21
     DEF Next

\* What the steps do to the rest.
LEMMA ServiceStep ==
  ASSUME Services, daemon \in DaemonRecord, RecordedDashboardRuns, [Next]_vars
  PROVE  Services'
<1> USE DaemonsAssumption DEF Lives
<1>1. ASSUME NEW op \in Operations, StartDaemon(op) PROVE Services'
  BY <1>1, DaemonBegins DEF StartDaemon, Services, Steps
<1>2. ASSUME NEW op \in Operations, StopDaemon(op) PROVE Services'
  BY <1>2, DaemonBegins DEF StopDaemon, Services, Steps
<1>3. CASE EnsureProxy
  BY <1>3 DEF EnsureProxy, Services, DaemonRecord, dashboardVars
<1>4. CASE EnsureDashboard
  BY <1>4 DEF EnsureDashboard, Services, DaemonRecord, dashboardVars
<1>5. CASE DashboardPolls
  BY <1>5 DEF DashboardPolls, Services, DaemonRecord, dashboardVars
<1>6. CASE DashboardAnswers
  BY <1>6 DEF DashboardAnswers, Services, DaemonRecord, dashboardVars
<1>7. CASE DashboardTimesOut
  BY <1>7 DEF DashboardTimesOut, RecordedDashboardRuns, At, Services
<1>8. CASE WriteDaemonState
  BY <1>8 DEF WriteDaemonState, Services, DaemonRecord, dashboardVars
<1>9. CASE DisableCodexRouting
  BY <1>9 DEF DisableCodexRouting, Services, DaemonRecord, dashboardVars
<1>10. CASE StopDashboard
  BY <1>10 DEF StopDashboard, Services, DaemonRecord, dashboardVars
<1>11. CASE StopDashboardTimesOut
  BY <1>11 DEF StopDashboardTimesOut, Services, DaemonRecord, dashboardVars
<1>12. CASE StopProxy
  BY <1>12 DEF StopProxy, Services, DaemonRecord, dashboardVars
<1>13. CASE RemoveDaemonState
  BY <1>13 DEF RemoveDaemonState, Services, DaemonRecord, dashboardVars
<1>14. CASE SubStep
  BY <1>14 DEF SubStep, Services, DaemonRecord, dashboardVars
<1>15. CASE UserStep
  BY <1>15 DEF UserStep, Services, DaemonRecord, dashboardVars
<1>16. CASE ProxyCrashes
  BY <1>16 DEF ProxyCrashes, Services, DaemonRecord, dashboardVars
<1>17. ASSUME NEW d \in DashboardPids, DashboardListens(d) PROVE Services'
  BY <1>17 DEF DashboardListens, Services, DaemonRecord, dashboardVars
<1>18. ASSUME NEW d \in DashboardPids, ServeByHand(d) PROVE Services'
  BY <1>18 DEF ServeByHand, Services, DaemonRecord, dashboardVars
<1>19. ASSUME NEW d \in DashboardPids, DashboardCrashes(d) PROVE Services'
  BY <1>19 DEF DashboardCrashes, Services, DaemonRecord, dashboardVars
<1>20. ASSUME NEW strangers \in SUBSET DashboardPids, Reboot(strangers) PROVE Services'
  BY <1>20 DEF Reboot, Services, DaemonRecord, dashboardVars
<1>21. CASE UNCHANGED vars
  BY <1>21 DEF vars, Services, DaemonRecord, dashboardVars
<1> QED
  BY <1>1, <1>2, <1>3, <1>4, <1>5, <1>6, <1>7, <1>8, <1>9, <1>10, <1>11, <1>12, <1>13, <1>14,
     <1>15, <1>16, <1>17, <1>18, <1>19, <1>20, <1>21
     DEF Next

\* The types of this module, of every step.
LEMMA TypeStep == TypeOK /\ RecordedDashboardRuns /\ [Next]_vars => TypeOK'
BY RecordStep, ServiceStep DEF TypeOK, Services, DaemonRecord

\* Every step is a step of the proxy commands and their processes, or leaves them alone.
LEMMA ProxySteps ==
  ASSUME [Next]_vars
  PROVE  [PP!Next]_(PP!vars)
<1> USE SameCommands, SameProcesses DEF PP!Next
<1>1. ASSUME NEW op \in Operations, StartDaemon(op) PROVE [PP!Next]_(PP!vars)
  BY <1>1 DEF StartDaemon, Issue, proxyVars, PP!vars
<1>2. ASSUME NEW op \in Operations, StopDaemon(op) PROVE [PP!Next]_(PP!vars)
  BY <1>2 DEF StopDaemon, Issue, proxyVars, PP!vars
<1>3. CASE EnsureProxy
  BY <1>3 DEF EnsureProxy, proxyVars, PP!vars
<1>4. CASE EnsureDashboard
  BY <1>4 DEF EnsureDashboard, proxyVars, PP!vars
<1>5. CASE DashboardPolls
  BY <1>5 DEF DashboardPolls, proxyVars, PP!vars
<1>6. CASE DashboardAnswers
  BY <1>6 DEF DashboardAnswers, proxyVars, PP!vars
<1>7. CASE DashboardTimesOut
  BY <1>7 DEF DashboardTimesOut, proxyVars, PP!vars
<1>8. CASE WriteDaemonState
  BY <1>8 DEF WriteDaemonState, proxyVars, PP!vars
<1>9. CASE DisableCodexRouting
  BY <1>9 DEF DisableCodexRouting, proxyVars, PP!vars
<1>10. CASE StopDashboard
  BY <1>10 DEF StopDashboard, proxyVars, PP!vars
<1>11. CASE StopDashboardTimesOut
  BY <1>11 DEF StopDashboardTimesOut, proxyVars, PP!vars
<1>12. CASE StopProxy
  BY <1>12 DEF StopProxy, proxyVars, PP!vars
<1>13. CASE RemoveDaemonState
  BY <1>13 DEF RemoveDaemonState, proxyVars, PP!vars
<1>14. CASE SubStep
  BY <1>14 DEF SubStep, proxyVars, PP!vars
<1>15. CASE UserStep
  BY <1>15 DEF UserStep, proxyVars, PP!vars
<1>16. CASE ProxyCrashes
  BY <1>16 DEF ProxyCrashes, proxyVars, PP!vars
<1>17. ASSUME NEW d \in DashboardPids, DashboardListens(d) PROVE [PP!Next]_(PP!vars)
  BY <1>17 DEF DashboardListens, proxyVars, PP!vars
<1>18. ASSUME NEW d \in DashboardPids, ServeByHand(d) PROVE [PP!Next]_(PP!vars)
  BY <1>18 DEF ServeByHand, proxyVars, PP!vars
<1>19. ASSUME NEW d \in DashboardPids, DashboardCrashes(d) PROVE [PP!Next]_(PP!vars)
  BY <1>19 DEF DashboardCrashes, proxyVars, PP!vars
<1>20. ASSUME NEW strangers \in SUBSET DashboardPids, Reboot(strangers)
       PROVE  [PP!Next]_(PP!vars)
  BY <1>20 DEF Reboot, proxyVars, PP!vars
<1>21. CASE UNCHANGED vars
  BY <1>21 DEF vars, proxyVars, PP!vars
<1> QED
  BY <1>1, <1>2, <1>3, <1>4, <1>5, <1>6, <1>7, <1>8, <1>9, <1>10, <1>11, <1>12, <1>13, <1>14,
     <1>15, <1>16, <1>17, <1>18, <1>19, <1>20, <1>21
     DEF Next

\* And of the routing.
LEMMA RoutingSteps ==
  ASSUME [Next]_vars
  PROVE  [RP!Next]_(RP!vars)
<1> USE SameRouting DEF RP!Next
<1>1. ASSUME NEW op \in Operations, StartDaemon(op) PROVE [RP!Next]_(RP!vars)
  BY <1>1 DEF StartDaemon, Issue, routingVars, RP!vars
<1>2. ASSUME NEW op \in Operations, StopDaemon(op) PROVE [RP!Next]_(RP!vars)
  BY <1>2 DEF StopDaemon, Issue, routingVars, RP!vars
<1>3. CASE EnsureProxy
  BY <1>3 DEF EnsureProxy, routingVars, RP!vars
<1>4. CASE EnsureDashboard
  BY <1>4 DEF EnsureDashboard, routingVars, RP!vars
<1>5. CASE DashboardPolls
  BY <1>5 DEF DashboardPolls, routingVars, RP!vars
<1>6. CASE DashboardAnswers
  BY <1>6 DEF DashboardAnswers, routingVars, RP!vars
<1>7. CASE DashboardTimesOut
  BY <1>7 DEF DashboardTimesOut, routingVars, RP!vars
<1>8. CASE WriteDaemonState
  BY <1>8 DEF WriteDaemonState, routingVars, RP!vars
<1>9. CASE DisableCodexRouting
  BY <1>9 DEF DisableCodexRouting, routingVars, RP!vars
<1>10. CASE StopDashboard
  BY <1>10 DEF StopDashboard, routingVars, RP!vars
<1>11. CASE StopDashboardTimesOut
  BY <1>11 DEF StopDashboardTimesOut, routingVars, RP!vars
<1>12. CASE StopProxy
  BY <1>12 DEF StopProxy, routingVars, RP!vars
<1>13. CASE RemoveDaemonState
  BY <1>13 DEF RemoveDaemonState, routingVars, RP!vars
<1>14. CASE SubStep
  BY <1>14 DEF SubStep, routingVars, RP!vars
<1>15. CASE UserStep
  BY <1>15 DEF UserStep, routingVars, RP!vars
<1>16. CASE ProxyCrashes
  BY <1>16 DEF ProxyCrashes, routingVars, RP!vars
<1>17. ASSUME NEW d \in DashboardPids, DashboardListens(d) PROVE [RP!Next]_(RP!vars)
  BY <1>17 DEF DashboardListens, routingVars, RP!vars
<1>18. ASSUME NEW d \in DashboardPids, ServeByHand(d) PROVE [RP!Next]_(RP!vars)
  BY <1>18 DEF ServeByHand, routingVars, RP!vars
<1>19. ASSUME NEW d \in DashboardPids, DashboardCrashes(d) PROVE [RP!Next]_(RP!vars)
  BY <1>19 DEF DashboardCrashes, routingVars, RP!vars
<1>20. ASSUME NEW strangers \in SUBSET DashboardPids, Reboot(strangers)
       PROVE  [RP!Next]_(RP!vars)
  BY <1>20 DEF Reboot, routingVars, RP!vars
<1>21. CASE UNCHANGED vars
  BY <1>21 DEF vars, routingVars, RP!vars
<1> QED
  BY <1>1, <1>2, <1>3, <1>4, <1>5, <1>6, <1>7, <1>8, <1>9, <1>10, <1>11, <1>12, <1>13, <1>14,
     <1>15, <1>16, <1>17, <1>18, <1>19, <1>20, <1>21
     DEF Next

\* The proxy command is at work only while the daemon command waits for it.
LEMMA IdleStep ==
  ASSUME TypeOK, ~At("proxy") => ProxyIsIdle, [Next]_vars
  PROVE  (~At("proxy") => ProxyIsIdle)'
<1> USE DEF At, ProxyIsIdle
<1>1. daemon \in DaemonRecord /\ issued \in 0..MaxDaemons
  BY DEF TypeOK, DaemonRecord
<1>2. ASSUME NEW op \in Operations, StartDaemon(op) PROVE (~At("proxy") => ProxyIsIdle)'
  BY <1>1, <1>2, DaemonBegins DEF StartDaemon, Steps
<1>3. ASSUME NEW op \in Operations, StopDaemon(op) PROVE (~At("proxy") => ProxyIsIdle)'
  BY <1>1, <1>3, DaemonBegins DEF StopDaemon, Steps, proxyVars
<1>4. CASE EnsureProxy
  BY <1>4, DaemonGoes DEF EnsureProxy, Steps, proxyVars
<1>5. CASE EnsureDashboard
  BY <1>5, DaemonGoes DEF EnsureDashboard, Steps, proxyVars
<1>6. CASE DashboardPolls
  BY <1>6, DaemonGoes DEF DashboardPolls, Steps, proxyVars
<1>7. CASE DashboardAnswers
  BY <1>7, DaemonGoes DEF DashboardAnswers, Steps, proxyVars
<1>8. CASE DashboardTimesOut
  BY <1>8, DaemonGoes DEF DashboardTimesOut, Steps, proxyVars
<1>9. CASE WriteDaemonState
  BY <1>9, DaemonGoes DEF WriteDaemonState, Steps, proxyVars
<1>10. CASE DisableCodexRouting
  BY <1>10, DaemonGoes DEF DisableCodexRouting, Steps, proxyVars
<1>11. CASE StopDashboard
  BY <1>1, <1>11, DaemonGoes DEF StopDashboard, Steps
<1>12. CASE StopDashboardTimesOut
  BY <1>12, DaemonGoes DEF StopDashboardTimesOut, Steps, proxyVars
<1>13. CASE StopProxy
  BY <1>13, DaemonGoes DEF StopProxy, Steps, proxyVars
<1>14. CASE RemoveDaemonState
  BY <1>14, DaemonGoes DEF RemoveDaemonState, Steps, proxyVars
<1>15. CASE SubStep
  BY <1>15
     DEF SubStep, proxyVars, Proxy!Serve, Proxy!Listen, Proxy!CloseServer,
         Proxy!FinishClosing
<1>16. CASE UserStep
  BY <1>16, DaemonGoes DEF UserStep, Steps, proxyVars
<1>17. CASE ProxyCrashes
  BY <1>17 DEF ProxyCrashes, Proxy!Kill
<1>18. ASSUME NEW d \in DashboardPids, DashboardListens(d) PROVE (~At("proxy") => ProxyIsIdle)'
  BY <1>18, DaemonGoes DEF DashboardListens, Steps, proxyVars
<1>19. ASSUME NEW d \in DashboardPids, ServeByHand(d) PROVE (~At("proxy") => ProxyIsIdle)'
  BY <1>19, DaemonGoes DEF ServeByHand, Steps, proxyVars
<1>20. ASSUME NEW d \in DashboardPids, DashboardCrashes(d)
       PROVE  (~At("proxy") => ProxyIsIdle)'
  BY <1>20, DaemonGoes DEF DashboardCrashes, Steps, proxyVars
<1>21. ASSUME NEW strangers \in SUBSET DashboardPids, Reboot(strangers)
       PROVE  (~At("proxy") => ProxyIsIdle)'
  BY <1>21 DEF Reboot, Proxy!Reboot
<1>22. CASE UNCHANGED vars
  BY <1>22, DaemonGoes DEF vars, Steps, proxyVars
<1> QED
  BY <1>2, <1>3, <1>4, <1>5, <1>6, <1>7, <1>8, <1>9, <1>10, <1>11, <1>12, <1>13, <1>14,
     <1>15, <1>16, <1>17, <1>18, <1>19, <1>20, <1>21, <1>22
     DEF Next

\* A dashboard that is alive and no stray stays the one of the file, or of the command.
LEMMA TrackedStep ==
  ASSUME TypeOK, DashboardIsTracked, RecordedDashboardRuns, [Next]_vars
  PROVE  DashboardIsTracked'
<1> USE DEF DashboardIsTracked, Alive, At, IsStop, Lives
<1>1. /\ daemon \in DaemonRecord /\ issued \in 0..MaxDaemons
      /\ dashboard \in [DashboardPids -> Lives]
      /\ daemonFile \in DashboardPids \cup {None} /\ None \notin DashboardPids
  BY DaemonsAssumption DEF TypeOK, DaemonRecord
<1>2. ASSUME NEW op \in Operations, StartDaemon(op) PROVE DashboardIsTracked'
  BY <1>1, <1>2, DaemonBegins DEF StartDaemon, Steps
<1>3. ASSUME NEW op \in Operations, StopDaemon(op) PROVE DashboardIsTracked'
  BY <1>1, <1>3, DaemonBegins DEF StopDaemon, Steps
<1>4. CASE EnsureProxy
  BY <1>1, <1>4, DaemonGoes DEF EnsureProxy, Steps, dashboardVars
<1>5. CASE EnsureDashboard
  BY <1>1, <1>5, DaemonGoes DEF EnsureDashboard, IsRunning, Steps
<1>6. CASE DashboardPolls
  BY <1>1, <1>6, DaemonGoes DEF DashboardPolls, Steps, dashboardVars
<1>7. CASE DashboardAnswers
  <2>1. At("fetch") /\ ~IsStop(daemon.op) /\ UNCHANGED dashboardVars
    BY <1>7 DEF DashboardAnswers, RecordedDashboardRuns
  <2>2. \E step \in {"record", "ready"} : Goto(step)
    BY <1>7 DEF DashboardAnswers
  <2>3. daemon'.step \in {"record", "ready"} /\ UNCHANGED <<daemon.op, daemon.pid>>
    BY <1>1, <2>2, DaemonGoes DEF Steps
  <2> QED
    BY <1>1, <2>1, <2>3 DEF dashboardVars
<1>8. CASE DashboardTimesOut
  BY <1>1, <1>8, DaemonGoes DEF DashboardTimesOut, Steps, dashboardVars
<1>9. CASE WriteDaemonState
  BY <1>1, <1>9, DaemonGoes DEF WriteDaemonState, Steps, dashboardVars
<1>10. CASE DisableCodexRouting
  BY <1>1, <1>10, DaemonGoes DEF DisableCodexRouting, Steps, dashboardVars
<1>11. CASE StopDashboard
  BY <1>1, <1>11, DaemonGoes DEF StopDashboard, IsRunning, Steps
<1>12. CASE StopDashboardTimesOut
  BY <1>1, <1>12, DaemonGoes DEF StopDashboardTimesOut, Steps, dashboardVars
<1>13. CASE StopProxy
  BY <1>1, <1>13, DaemonGoes DEF StopProxy, Steps, dashboardVars
<1>14. CASE RemoveDaemonState
  BY <1>1, <1>14, DaemonGoes DEF RemoveDaemonState, Steps, dashboardVars
<1>15. CASE SubStep
  BY <1>1, <1>15, DaemonGoes DEF SubStep, Steps, dashboardVars
<1>16. CASE UserStep
  BY <1>1, <1>16, DaemonGoes DEF UserStep, Steps, dashboardVars
<1>17. CASE ProxyCrashes
  BY <1>1, <1>17, DaemonGoes DEF ProxyCrashes, Steps, dashboardVars
<1>18. ASSUME NEW d \in DashboardPids, DashboardListens(d) PROVE DashboardIsTracked'
  BY <1>1, <1>18, DaemonGoes DEF DashboardListens, Steps, dashboardVars
<1>19. ASSUME NEW d \in DashboardPids, ServeByHand(d) PROVE DashboardIsTracked'
  BY <1>1, <1>19, DaemonGoes DEF ServeByHand, Steps, dashboardVars
<1>20. ASSUME NEW d \in DashboardPids, DashboardCrashes(d) PROVE DashboardIsTracked'
  BY <1>1, <1>20 DEF DashboardCrashes, IsIdle
<1>21. ASSUME NEW strangers \in SUBSET DashboardPids, Reboot(strangers)
       PROVE  DashboardIsTracked'
  BY <1>1, <1>21 DEF Reboot, IsIdle
<1>22. CASE UNCHANGED vars
  BY <1>1, <1>22, DaemonGoes DEF vars, Steps, dashboardVars
<1> QED
  BY <1>2, <1>3, <1>4, <1>5, <1>6, <1>7, <1>8, <1>9, <1>10, <1>11, <1>12, <1>13, <1>14,
     <1>15, <1>16, <1>17, <1>18, <1>19, <1>20, <1>21, <1>22
     DEF Next

\* The pid that is about to be recorded stays that of a process that runs, or a stray
\* serves in its place.
LEMMA RecordedStep ==
  ASSUME TypeOK, DashboardIsTracked, RecordedDashboardRuns, [Next]_vars
  PROVE  RecordedDashboardRuns'
<1> USE DEF RecordedDashboardRuns, StrayServes, Serving, At, IsStop, Lives
<1>1. /\ daemon \in DaemonRecord /\ issued \in 0..MaxDaemons
      /\ dashboard \in [DashboardPids -> Lives]
      /\ daemonFile \in DashboardPids \cup {None} /\ None \notin DashboardPids
  BY DaemonsAssumption DEF TypeOK, DaemonRecord
<1>2. ASSUME NEW op \in Operations, StartDaemon(op) PROVE RecordedDashboardRuns'
  BY <1>1, <1>2, DaemonBegins DEF StartDaemon, Steps
<1>3. ASSUME NEW op \in Operations, StopDaemon(op) PROVE RecordedDashboardRuns'
  BY <1>1, <1>3, DaemonBegins DEF StopDaemon, Steps
<1>4. CASE EnsureProxy
  BY <1>1, <1>4, DaemonGoes DEF EnsureProxy, Steps, dashboardVars
<1>5. CASE EnsureDashboard
  BY <1>1, <1>5, DaemonGoes DEF EnsureDashboard, IsRunning, Alive, Steps
<1>6. CASE DashboardPolls
  BY <1>1, <1>6, DaemonGoes DEF DashboardPolls, Steps, dashboardVars
<1>7. CASE DashboardAnswers
  <2>1. CASE Serving # {}
    <3>1. PICK d \in DashboardPids : dashboard[d] = "serving"
      BY <2>1
    <3>2. d = daemon.pid \/ d \in strays
      BY <1>7, <3>1 DEF DashboardAnswers, DashboardIsTracked, Alive
    <3>3. Goto("record") /\ UNCHANGED dashboardVars
      BY <1>7, <2>1 DEF DashboardAnswers
    <3> QED
      BY <1>1, <1>7, <3>1, <3>2, <3>3, DaemonGoes DEF DashboardAnswers, Steps, dashboardVars
  <2>2. CASE Serving = {}
    BY <1>1, <1>7, <2>2, DaemonGoes DEF DashboardAnswers, Steps, dashboardVars
  <2> QED
    BY <2>1, <2>2
<1>8. CASE DashboardTimesOut
  BY <1>1, <1>8, DaemonGoes DEF DashboardTimesOut, Steps, dashboardVars
<1>9. CASE WriteDaemonState
  BY <1>1, <1>9, DaemonGoes DEF WriteDaemonState, Steps, dashboardVars
<1>10. CASE DisableCodexRouting
  BY <1>1, <1>10, DaemonGoes DEF DisableCodexRouting, Steps, dashboardVars
<1>11. CASE StopDashboard
  BY <1>1, <1>11, DaemonGoes DEF StopDashboard, Steps, dashboardVars
<1>12. CASE StopDashboardTimesOut
  BY <1>1, <1>12, DaemonGoes DEF StopDashboardTimesOut, Steps, dashboardVars
<1>13. CASE StopProxy
  BY <1>1, <1>13, DaemonGoes DEF StopProxy, Steps, dashboardVars
<1>14. CASE RemoveDaemonState
  BY <1>1, <1>14, DaemonGoes DEF RemoveDaemonState, Steps, dashboardVars
<1>15. CASE SubStep
  BY <1>1, <1>15, DaemonGoes DEF SubStep, Steps, dashboardVars
<1>16. CASE UserStep
  BY <1>1, <1>16, DaemonGoes DEF UserStep, Steps, dashboardVars
<1>17. CASE ProxyCrashes
  BY <1>1, <1>17, DaemonGoes DEF ProxyCrashes, Steps, dashboardVars
<1>18. ASSUME NEW d \in DashboardPids, DashboardListens(d) PROVE RecordedDashboardRuns'
  <2>1. CASE Serving = {}
    BY <1>1, <1>18, <2>1 DEF DashboardListens
  <2>2. CASE Serving # {}
    <3>1. PICK e \in DashboardPids : dashboard[e] = "serving"
      BY <2>2
    <3>2. dashboard'[e] = "serving" /\ e # d
      BY <1>1, <1>18, <3>1 DEF DashboardListens
    <3>3. At("record") /\ ~IsStop(daemon.op) => e = daemon.pid \/ e \in strays
      BY <3>1 DEF DashboardIsTracked, Alive
    <3> QED
      BY <1>1, <1>18, <2>2, <3>1, <3>2, <3>3 DEF DashboardListens
  <2> QED
    BY <2>1, <2>2
<1>19. ASSUME NEW d \in DashboardPids, ServeByHand(d) PROVE RecordedDashboardRuns'
  BY <1>1, <1>19, DaemonGoes DEF ServeByHand, Steps, dashboardVars
<1>20. ASSUME NEW d \in DashboardPids, DashboardCrashes(d) PROVE RecordedDashboardRuns'
  BY <1>1, <1>20 DEF DashboardCrashes, IsIdle
<1>21. ASSUME NEW strangers \in SUBSET DashboardPids, Reboot(strangers)
       PROVE  RecordedDashboardRuns'
  BY <1>1, <1>21 DEF Reboot, IsIdle
<1>22. CASE UNCHANGED vars
  BY <1>1, <1>22, DaemonGoes DEF vars, Steps, dashboardVars
<1> QED
  BY <1>2, <1>3, <1>4, <1>5, <1>6, <1>7, <1>8, <1>9, <1>10, <1>11, <1>12, <1>13, <1>14,
     <1>15, <1>16, <1>17, <1>18, <1>19, <1>20, <1>21, <1>22
     DEF Next

\* A stop that has come to the services leaves the routing alone.
LEMMA RoutingStep ==
  ASSUME TypeOK, RoutingGoesFirst, RecordedDashboardRuns, RP!IInv,
         codexOutcome = "not enabled" => saved = None, [Next]_vars
  PROVE  RoutingGoesFirst'
<1> USE DEF RoutingGoesFirst, At, IsStop
<1>1. /\ daemon \in DaemonRecord /\ issued \in 0..MaxDaemons
      /\ dashboard \in [DashboardPids -> Lives]
      /\ daemonFile \in DashboardPids \cup {None} /\ None \notin DashboardPids
  BY DaemonsAssumption DEF TypeOK, DaemonRecord
<1>2. ASSUME NEW op \in Operations, StartDaemon(op) PROVE RoutingGoesFirst'
  BY <1>1, <1>2, DaemonBegins DEF StartDaemon, Steps
<1>3. ASSUME NEW op \in Operations, StopDaemon(op) PROVE RoutingGoesFirst'
  BY <1>1, <1>3, DaemonBegins DEF StopDaemon, Steps
<1>4. CASE EnsureProxy
  BY <1>1, <1>4, DaemonGoes DEF EnsureProxy, Steps, routingVars
<1>5. CASE EnsureDashboard
  BY <1>1, <1>5, DaemonGoes DEF EnsureDashboard, Steps, routingVars
<1>6. CASE DashboardPolls
  BY <1>1, <1>6, DaemonGoes DEF DashboardPolls, Steps, routingVars
<1>7. CASE DashboardAnswers
  <2>1. At("fetch") /\ ~IsStop(daemon.op) /\ UNCHANGED routingVars
    BY <1>7 DEF DashboardAnswers, RecordedDashboardRuns
  <2>2. \E step \in {"record", "ready"} : Goto(step)
    BY <1>7 DEF DashboardAnswers
  <2>3. daemon'.step \in {"record", "ready"} /\ UNCHANGED <<daemon.op, daemon.pid>>
    BY <1>1, <2>2, DaemonGoes DEF Steps
  <2> QED
    BY <1>1, <2>1, <2>3 DEF routingVars
<1>8. CASE DashboardTimesOut
  BY <1>1, <1>8, DaemonGoes DEF DashboardTimesOut, Steps, routingVars
<1>9. CASE WriteDaemonState
  BY <1>1, <1>9, DaemonGoes DEF WriteDaemonState, Steps, routingVars
<1>10. CASE DisableCodexRouting
  <2>1. codexCommand.step = "idle"
    BY <1>10 DEF DisableCodexRouting, Routing!IsIdle
  <2>2. deaths = 0 /\ codexOutcome \in {"disabled", "not enabled"} => ~Routing!IsRouted(config)
    BY <2>1, DaemonsAssumption, SameDocuments, RP!DisabledIsUnrouted
  <2> QED
    BY <1>1, <1>10, <2>2, DaemonGoes DEF DisableCodexRouting, Steps, routingVars
<1>11. CASE StopDashboard
  BY <1>1, <1>11, DaemonGoes DEF StopDashboard, Steps, routingVars
<1>12. CASE StopDashboardTimesOut
  BY <1>1, <1>12, DaemonGoes DEF StopDashboardTimesOut, Steps, routingVars
<1>13. CASE StopProxy
  BY <1>1, <1>13, DaemonGoes DEF StopProxy, Steps, routingVars
<1>14. CASE RemoveDaemonState
  BY <1>1, <1>14, DaemonGoes DEF RemoveDaemonState, Steps, routingVars
<1>15. CASE SubStep
  BY <1>1, <1>15, DaemonGoes DEF SubStep, Steps, routingVars
<1>16. CASE UserStep
  BY <1>1, <1>16, DaemonGoes DEF UserStep, Steps, routingVars
<1>17. CASE ProxyCrashes
  BY <1>1, <1>17, DaemonGoes DEF ProxyCrashes, Steps, routingVars
<1>18. ASSUME NEW d \in DashboardPids, DashboardListens(d) PROVE RoutingGoesFirst'
  BY <1>1, <1>18, DaemonGoes DEF DashboardListens, Steps, routingVars
<1>19. ASSUME NEW d \in DashboardPids, ServeByHand(d) PROVE RoutingGoesFirst'
  BY <1>1, <1>19, DaemonGoes DEF ServeByHand, Steps, routingVars
<1>20. ASSUME NEW d \in DashboardPids, DashboardCrashes(d) PROVE RoutingGoesFirst'
  BY <1>1, <1>20, DaemonGoes DEF DashboardCrashes, Steps, routingVars
<1>21. ASSUME NEW strangers \in SUBSET DashboardPids, Reboot(strangers)
       PROVE  RoutingGoesFirst'
  BY <1>1, <1>21, DaemonGoes DEF Reboot, Steps, routingVars
<1>22. CASE UNCHANGED vars
  BY <1>1, <1>22, DaemonGoes DEF vars, Steps, routingVars
<1> QED
  BY <1>2, <1>3, <1>4, <1>5, <1>6, <1>7, <1>8, <1>9, <1>10, <1>11, <1>12, <1>13, <1>14,
     <1>15, <1>16, <1>17, <1>18, <1>19, <1>20, <1>21, <1>22
     DEF Next

\* What the proxy command has reported stays so.
LEMMA ReportedStep ==
  ASSUME TypeOK, ~At("proxy") => ProxyIsIdle, RoutingGoesFirst, RecordedDashboardRuns,
         ProxyStaysAsReported, PP!ProcessInv, [Next]_vars
  PROVE  ProxyStaysAsReported'
<1>1. PP!IsPatient' => PP!IsPatient
  BY DaemonsAssumption, SameProcesses, ProxySteps, PP!PatienceStays
<1>2. (Proxy!IsPatient' <=> PP!IsPatient') /\ (Proxy!IsPatient <=> PP!IsPatient)
  BY DEF Proxy!IsPatient, PP!IsPatient, Proxy!IsInTurn, PP!IsInTurn
<1> SUFFICES ASSUME Proxy!IsPatient' PROVE ProxyStaysAsReported'
  BY DEF ProxyStaysAsReported
<1>3. /\ Proxy!IsPatient
      /\ daemon \in DaemonRecord /\ issued \in 0..MaxDaemons
      /\ DOMAIN proxyCommand = {Slot}
  <2>1. proxyCommand \in [{Slot} -> PP!Command]
    BY DaemonsAssumption, SameProcesses, PP!Knows
  <2> QED
    BY <1>1, <1>2, <2>1 DEF TypeOK, DaemonRecord
<1> USE
   DEF ProxyStaysAsReported, ProxySays, ProxyIsIdle, ProxyOutcome, At, IsStop,
       Proxy!NoProxyLives
<1>4. ASSUME NEW op \in Operations, StartDaemon(op) PROVE ProxyStaysAsReported'
  <2>1. ~ProxyIsIdle'
    BY <1>3, <1>4 DEF StartDaemon, Proxy!Begin
  <2> QED
    BY <1>3, <2>1, <1>4, DaemonBegins DEF StartDaemon, Steps, Operations
<1>5. ASSUME NEW op \in Operations, StopDaemon(op) PROVE ProxyStaysAsReported'
  BY <1>3, <1>5, DaemonBegins DEF StopDaemon, Steps
<1>6. CASE EnsureProxy
  BY <1>3, <1>6, DaemonGoes DEF EnsureProxy, Steps, proxyVars
<1>7. CASE EnsureDashboard
  <2>1. ~IsStop(daemon.op) /\ port # None /\ stateFile = port /\ UNCHANGED <<port, stateFile>>
    BY <1>3, <1>7 DEF EnsureDashboard, proxyVars
  <2>2. \/ \E d \in DashboardPids \cup {None} : GotoWith("record", d) \/ GotoWith("ready", d)
        \/ End("failed")
    BY <1>7 DEF EnsureDashboard, TypeOK
  <2>3. daemon'.op = daemon.op
    BY <1>3, <2>2 DEF DaemonRecord, GotoWith, End
  <2> QED
    BY <2>1, <2>3
<1>8. CASE DashboardPolls
  BY <1>3, <1>8, DaemonGoes DEF DashboardPolls, Steps, proxyVars
<1>9. CASE DashboardAnswers
  <2>1. At("fetch") /\ ~IsStop(daemon.op) /\ UNCHANGED proxyVars
    BY <1>9 DEF DashboardAnswers, RecordedDashboardRuns
  <2>2. \E step \in {"record", "ready"} : Goto(step)
    BY <1>9 DEF DashboardAnswers
  <2>3. daemon'.step \in {"record", "ready"} /\ UNCHANGED <<daemon.op, daemon.pid>>
    BY <1>3, <2>2, DaemonGoes DEF Steps
  <2> QED
    BY <1>3, <2>1, <2>3 DEF proxyVars
<1>10. CASE DashboardTimesOut
  BY <1>3, <1>10, DaemonGoes DEF DashboardTimesOut, Steps, proxyVars
<1>11. CASE WriteDaemonState
  BY <1>3, <1>11, DaemonGoes DEF WriteDaemonState, Steps, proxyVars
<1>12. CASE DisableCodexRouting
  BY <1>3, <1>12, DaemonGoes DEF DisableCodexRouting, RoutingGoesFirst, Steps, proxyVars
<1>13. CASE StopDashboard
  <2>1. ~ProxyIsIdle'
    BY <1>3, <1>13 DEF StopDashboard, Proxy!Begin
  <2>2. daemon'.step = "proxy"
    BY <1>3, <1>13, DaemonGoes DEF StopDashboard, Steps
  <2> QED
    BY <2>1, <2>2
<1>14. CASE StopDashboardTimesOut
  BY <1>3, <1>14, DaemonGoes DEF StopDashboardTimesOut, Steps, proxyVars
<1>15. CASE StopProxy
  BY <1>3, <1>15, DaemonGoes DEF StopProxy, Steps, proxyVars
<1>16. CASE RemoveDaemonState
  BY <1>3, <1>16, DaemonGoes DEF RemoveDaemonState, Steps, proxyVars
<1>17. CASE SubStep
  <2>1. UNCHANGED daemon
    BY <1>17 DEF SubStep
  <2>2. CASE At("routing") /\ UNCHANGED proxyVars
    BY <1>3, <2>1, <2>2 DEF proxyVars
  <2>3. CASE At("proxy") /\ (Proxy!Start(Slot) \/ Proxy!Stop(Slot))
    <3>1. proxyCommand[Slot].step # "idle"
      BY <2>3
      DEF Proxy!Start, Proxy!StartReads, Proxy!StartChecks, Proxy!StartClears,
          Proxy!StartSpawns, Proxy!StartRecords, Proxy!StartPolls, Proxy!StartFetches,
          Proxy!StartTimesOut, Proxy!StartRetracts, Proxy!Stop, Proxy!StopReads,
          Proxy!StopChecks, Proxy!StopSignals, Proxy!StopSeesExit, Proxy!StopTimesOut,
          Proxy!StopClears, Proxy!At
    <3>2. [PP!Next]_(PP!vars) /\ PP!IsPatient /\ PP!DaemonAssumption
      BY <1>2, <1>3, ProxySteps, DaemonsAssumption, SameProcesses
    <3>3. PP!Reports(Slot, {"started", "already running"}) => port' # None /\ stateFile' = port'
      BY <3>2, PP!FoundProxyIsTracked
    <3>4. PP!Reports(Slot, {"stopped", "not running"})
            => \A p \in Pids : process'[p] \notin PP!Proxy
      BY <3>2, PP!ReportStep
    <3>5. PP!Proxy = Proxy!Proxy
      BY SameProcesses
    <3> QED
      BY <2>1, <2>3, <3>1, <3>3, <3>4, <3>5 DEF PP!Reports, Proxy!Proxy
  <2>4. ASSUME NEW p \in Pids, Proxy!Serve(p) PROVE ProxyStaysAsReported'
    <3>1. UNCHANGED proxyCommand
      BY <2>4 DEF Proxy!Serve, Proxy!Listen, Proxy!CloseServer, Proxy!FinishClosing
    <3>2. ~ProxyIsIdle
      BY <1>2, <1>3, <2>4, DaemonsAssumption, SameProcesses, SameAtRest, PP!RestIsQuiet
    <3> QED
      BY <2>1, <3>1, <3>2
  <2> QED
    BY <1>17, <2>2, <2>3, <2>4 DEF SubStep
<1>18. CASE UserStep
  BY <1>3, <1>18, DaemonGoes DEF UserStep, Steps, proxyVars
<1>19. CASE ProxyCrashes
  BY <1>3, <1>19 DEF ProxyCrashes, IsIdle
<1>20. ASSUME NEW d \in DashboardPids, DashboardListens(d) PROVE ProxyStaysAsReported'
  BY <1>3, <1>20, DaemonGoes DEF DashboardListens, Steps, proxyVars
<1>21. ASSUME NEW d \in DashboardPids, ServeByHand(d) PROVE ProxyStaysAsReported'
  BY <1>3, <1>21, DaemonGoes DEF ServeByHand, Steps, proxyVars
<1>22. ASSUME NEW d \in DashboardPids, DashboardCrashes(d) PROVE ProxyStaysAsReported'
  BY <1>3, <1>22, DaemonGoes DEF DashboardCrashes, Steps, proxyVars
<1>23. ASSUME NEW strangers \in SUBSET DashboardPids, Reboot(strangers)
       PROVE  ProxyStaysAsReported'
  BY <1>3, <1>23 DEF Reboot, IsIdle
<1>24. CASE UNCHANGED vars
  BY <1>3, <1>24, DaemonGoes DEF vars, Steps, proxyVars
<1> QED
  BY <1>4, <1>5, <1>6, <1>7, <1>8, <1>9, <1>10, <1>11, <1>12, <1>13, <1>14, <1>15, <1>16,
     <1>17, <1>18, <1>19, <1>20, <1>21, <1>22, <1>23, <1>24
     DEF Next

\* All is off at first.
LEMMA InitInv == Init => IInv
<1> SUFFICES ASSUME Init PROVE IInv
  OBVIOUS
<1>1. TypeOK
  BY TypeInit
<1>2. daemon.step = "idle" /\ ProxyIsIdle /\ codexOutcome = "none"
  BY DEF Init, Proxy!Init, Routing!Init, ProxyIsIdle
<1>3. (\A d \in DashboardPids : ~Alive(d)) /\ daemonFile = None
  BY DEF Init, Alive
<1>4. DaemonInv
  BY <1>1, <1>2, <1>3
  DEF DaemonInv, DashboardIsTracked, RecordedDashboardRuns, ProxyStaysAsReported, ProxySays,
      RoutingGoesFirst, At
<1>5. PP!ProcessInv
  BY DaemonsAssumption, SameProcesses, PP!InitInv DEF Init
<1>6. RP!IInv
  BY DaemonsAssumption, SameDocuments, SameRouting, RP!Init1 DEF Init
<1> QED
  BY <1>2, <1>4, <1>5, <1>6 DEF IInv

\* Nothing breaks the invariant.
LEMMA NextInv == IInv /\ [Next]_vars => IInv'
<1> SUFFICES ASSUME IInv, [Next]_vars PROVE IInv'
  OBVIOUS
<1>1. /\ TypeOK /\ (~At("proxy") => ProxyIsIdle) /\ DashboardIsTracked
      /\ RecordedDashboardRuns /\ ProxyStaysAsReported /\ RoutingGoesFirst
      /\ PP!ProcessInv /\ RP!IInv /\ (codexOutcome = "not enabled" => saved = None)
  BY DEF IInv, DaemonInv
<1>2. DaemonInv'
  BY <1>1, TypeStep, IdleStep, TrackedStep, RecordedStep, ReportedStep, RoutingStep
  DEF DaemonInv
<1>3. PP!ProcessInv'
  BY <1>1, ProxySteps, DaemonsAssumption, SameProcesses, PP!NextInv
<1>4. RP!IInv'
  BY <1>1, RoutingSteps, DaemonsAssumption, SameDocuments, RP!Step
<1>5. (codexOutcome = "not enabled" => saved = None)'
  BY <1>1, RoutingSteps, DaemonsAssumption, SameDocuments, RP!NothingIsSaved
<1> QED
  BY <1>2, <1>3, <1>4, <1>5 DEF IInv

\* What the commands know of the services holds, with the invariants of the parts.
THEOREM Invariance == Spec => []IInv
BY InitInv, NextInv, PTL DEF Spec

\* A daemon command is right in what it takes for granted from one step to the next, of
\* both services and of the routing: startDaemon, ensureDaemon and stopDaemon.
THEOREM CommandsAreInformed == Spec => []DaemonInv
<1>1. IInv => DaemonInv
  BY DEF IInv
<1> QED
  BY <1>1, Invariance, PTL

-----------------------------------------------------------------------------
(***************************************************************************)
(* What the commands report.                                               *)
(***************************************************************************)

\* A command ends by a step of its own.
LEMMA CommandEnds ==
  ASSUME daemon \in DaemonRecord, issued \in 0..MaxDaemons, [Next]_vars,
         ~At("idle"), At("idle")'
  PROVE  \/ WriteDaemonState \/ RemoveDaemonState \/ daemon'.outcome = "failed"
<1> USE DEF At
<1>1. ASSUME NEW op \in Operations, StartDaemon(op)
      PROVE  WriteDaemonState \/ RemoveDaemonState \/ daemon'.outcome = "failed"
  BY <1>1, DaemonBegins DEF StartDaemon, Steps
<1>2. ASSUME NEW op \in Operations, StopDaemon(op)
      PROVE  WriteDaemonState \/ RemoveDaemonState \/ daemon'.outcome = "failed"
  BY <1>2, DaemonBegins DEF StopDaemon, Steps
<1>3. CASE EnsureProxy
  BY <1>3, DaemonGoes DEF EnsureProxy, Steps
<1>4. CASE EnsureDashboard
  <2>1. \/ daemon.op = "ensure" /\ GotoWith("record", daemonFile) /\ daemonFile # None
        \/ End("failed")
        \/ \E d \in DashboardPids : GotoWith("ready", d)
    BY <1>4 DEF EnsureDashboard, IsRunning
  <2> QED
    BY <2>1, DaemonGoes DEF GotoWith, Steps, DaemonRecord
<1>5. CASE DashboardPolls
  BY <1>5, DaemonGoes DEF DashboardPolls, Steps
<1>6. CASE DashboardAnswers
  BY <1>6, DaemonGoes DEF DashboardAnswers, Steps
<1>7. CASE DashboardTimesOut
  BY <1>7, DaemonGoes DEF DashboardTimesOut, Steps
<1>8. CASE WriteDaemonState
  BY <1>8, DaemonGoes DEF WriteDaemonState, Steps
<1>9. CASE DisableCodexRouting
  BY <1>9, DaemonGoes DEF DisableCodexRouting, Steps
<1>10. CASE StopDashboard
  BY <1>10, DaemonGoes DEF StopDashboard, Steps
<1>11. CASE StopDashboardTimesOut
  BY <1>11, DaemonGoes DEF StopDashboardTimesOut, Steps
<1>12. CASE StopProxy
  BY <1>12, DaemonGoes DEF StopProxy, Steps
<1>13. CASE RemoveDaemonState
  BY <1>13, DaemonGoes DEF RemoveDaemonState, Steps
<1>14. CASE SubStep
  BY <1>14, DaemonGoes DEF SubStep, Steps
<1>15. CASE UserStep
  BY <1>15, DaemonGoes DEF UserStep, Steps
<1>16. CASE ProxyCrashes
  BY <1>16, DaemonGoes DEF ProxyCrashes, Steps
<1>17. ASSUME NEW d \in DashboardPids, DashboardListens(d) PROVE WriteDaemonState \/ RemoveDaemonState \/ daemon'.outcome = "failed"
  BY <1>17, DaemonGoes DEF DashboardListens, Steps
<1>18. ASSUME NEW d \in DashboardPids, ServeByHand(d) PROVE WriteDaemonState \/ RemoveDaemonState \/ daemon'.outcome = "failed"
  BY <1>18, DaemonGoes DEF ServeByHand, Steps
<1>19. ASSUME NEW d \in DashboardPids, DashboardCrashes(d)
       PROVE  WriteDaemonState \/ RemoveDaemonState \/ daemon'.outcome = "failed"
  BY <1>19, DaemonGoes DEF DashboardCrashes, Steps
<1>20. ASSUME NEW strangers \in SUBSET DashboardPids, Reboot(strangers)
       PROVE  WriteDaemonState \/ RemoveDaemonState \/ daemon'.outcome = "failed"
  BY <1>20, DaemonGoes DEF Reboot, Steps
<1>21. CASE UNCHANGED vars
  BY <1>21, DaemonGoes DEF vars, Steps
<1> QED
  BY <1>1, <1>2, <1>3, <1>4, <1>5, <1>6, <1>7, <1>8, <1>9, <1>10, <1>11, <1>12, <1>13, <1>14,
     <1>15, <1>16, <1>17, <1>18, <1>19, <1>20, <1>21
     DEF Next

\* Both services of a daemon that is reported to run do run, and are recorded, if no
\* stray dashboard answered in place of the new one.
LEMMA RunningStep ==
  ASSUME IInv, [Next]_vars, Reports("running"), Proxy!IsPatient,
         \A d \in DashboardPids : dashboard[d] # "stranger"
  PROVE  /\ port' # None /\ stateFile' = port'
         /\ daemonFile' # None /\ (Alive(daemonFile)' \/ StrayServes')
         /\ strays = {} => dashboard'[daemonFile'] = "serving"
<1>1. /\ daemon \in DaemonRecord /\ issued \in 0..MaxDaemons /\ None \notin DashboardPids
      /\ RecordedDashboardRuns /\ ProxyStaysAsReported
  BY DaemonsAssumption DEF IInv, DaemonInv, TypeOK, DaemonRecord
<1>2. WriteDaemonState
  BY <1>1, CommandEnds, DaemonGoes DEF Reports, RemoveDaemonState
<1> QED
  BY <1>1, <1>2
  DEF WriteDaemonState, RecordedDashboardRuns, ProxyStaysAsReported, At, Alive, StrayServes,
      Serving, proxyVars

\* Neither service of a daemon that is reported to be stopped runs, but for strays.
LEMMA StoppedStep ==
  ASSUME IInv, [Next]_vars, Reports("stopped")
  PROVE  /\ Proxy!IsPatient => ~ProxyAlive'
         /\ \A d \in DashboardPids : Alive(d)' => d \in strays
         /\ daemon.op = "stop" /\ deaths = 0 => ~Routing!IsRouted(config')
<1>1. /\ daemon \in DaemonRecord /\ issued \in 0..MaxDaemons
      /\ DashboardIsTracked /\ ProxyStaysAsReported /\ RoutingGoesFirst
  BY DEF IInv, DaemonInv, TypeOK, DaemonRecord
<1>2. RemoveDaemonState
  BY <1>1, CommandEnds, DaemonGoes DEF Reports, WriteDaemonState
<1>3. At("record") /\ IsStop(daemon.op) /\ UNCHANGED <<routingVars, proxyVars, dashboard>>
  BY <1>2 DEF RemoveDaemonState
<1>4. Proxy!IsPatient => ~ProxyAlive'
  BY <1>1, <1>3 DEF ProxyStaysAsReported, Proxy!NoProxyLives, ProxyAlive, proxyVars
<1>5. \A d \in DashboardPids : Alive(d)' => d \in strays
  BY <1>1, <1>3 DEF DashboardIsTracked, Alive, At
<1>6. daemon.op = "stop" /\ deaths = 0 => ~Routing!IsRouted(config')
  BY <1>1, <1>3 DEF RoutingGoesFirst, At, routingVars
<1> QED
  BY <1>4, <1>5, <1>6

\* A daemon reported to run has both services, found by their files, unless a dashboard
\* that no command recorded serves in place of its own, and one reported to be stopped
\* has none but such a dashboard, and no routing (startDaemon, stopDaemon).
THEOREM ReportsHold == Spec => DaemonReportsAreTrue
<1>1. IInv /\ [Next]_vars =>
        [/\ Reports("running") /\ Proxy!IsPatient
         /\ \A d \in DashboardPids : dashboard[d] # "stranger"
         =>
           /\ port' # None /\ stateFile' = port'
           /\ daemonFile' # None /\ (Alive(daemonFile)' \/ StrayServes')
           /\ strays = {} => dashboard'[daemonFile'] = "serving"]_vars
  BY RunningStep
<1>2. IInv /\ [Next]_vars =>
        [Reports("stopped") =>
           /\ Proxy!IsPatient => ~ProxyAlive'
           /\ \A d \in DashboardPids : Alive(d)' => d \in strays
           /\ daemon.op = "stop" /\ deaths = 0 => ~Routing!IsRouted(config')]_vars
  BY StoppedStep
<1> QED
  BY <1>1, <1>2, Invariance, PTL
     DEF Spec, DaemonReportsAreTrue, EnsuredServicesRun, StoppedDaemonIsGone

\* A proxy that serves goes on serving, but for a stop or a crash.
LEMMA ServingStep ==
  ASSUME IInv, [Next]_vars, NEW p \in Pids,
         process[p] = "serving", process'[p] # "serving",
         daemon.op = "stop", ~At("idle"), deaths = 0
  PROVE  ~Routing!IsRouted(config)
<1>1. RoutingGoesFirst /\ process \in [Pids -> PP!Lives]
  BY DaemonsAssumption, SameProcesses, PP!Knows DEF IInv, DaemonInv
<1>2. CASE At("proxy")
  BY <1>1, <1>2 DEF RoutingGoesFirst, At
<1>3. CASE ~At("proxy")
  <2>1. process' # process
    OBVIOUS
  <2>2. ~IsIdle
    BY DEF IsIdle
  <2>3. ASSUME NEW q \in Pids, Proxy!Serve(q) PROVE FALSE
    BY <1>1, <2>3 DEF Proxy!Serve, Proxy!Listen, Proxy!CloseServer, Proxy!FinishClosing
  <2>4. ASSUME NEW step, Proxy!Begin(Slot, step) PROVE FALSE
    BY <2>1, <2>4 DEF Proxy!Begin
  <2>5. ~SubStep
    BY <1>3, <2>1, <2>3 DEF SubStep, proxyVars
  <2>6. \A op \in Operations : ~StartDaemon(op) /\ ~StopDaemon(op)
    BY <2>2 DEF StartDaemon, StopDaemon, Issue
  <2>7. ~StopDashboard
    BY <2>4 DEF StopDashboard
  <2> QED
    BY <2>1, <2>2, <2>5, <2>6, <2>7
    DEF Next, vars, proxyVars, EnsureProxy, EnsureDashboard, DashboardPolls,
        DashboardAnswers, DashboardTimesOut, DashboardListens, ServeByHand,
        StopDashboardTimesOut, WriteDaemonState, DisableCodexRouting, StopProxy, RemoveDaemonState, UserStep,
        ProxyCrashes, DashboardCrashes, Reboot, At
<1> QED
  BY <1>2, <1>3

\* A stop ends the proxy when Codex is off it (stopDaemon).
THEOREM ProxyGoesLast == Spec => ProxyOutlivesRouting
<1>1. IInv /\ [Next]_vars =>
        [\A p \in Pids :
           /\ process[p] = "serving" /\ process'[p] # "serving"
           /\ daemon.op = "stop" /\ ~At("idle") /\ deaths = 0
           => ~Routing!IsRouted(config)]_vars
  BY ServingStep
<1> QED
  BY <1>1, Invariance, PTL DEF Spec, ProxyOutlivesRouting

=============================================================================
