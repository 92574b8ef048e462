-------------------------- MODULE ProxyDaemonProofs --------------------------
(***************************************************************************)
(* Proofs about `proxy start` and `proxy stop`: for any number of          *)
(* commands, process ids, kills and reboots, what they report is so, no    *)
(* proxy is forgotten, and no process of another program is signalled.     *)
(***************************************************************************)
EXTENDS ProxyDaemon, TLAPS

-----------------------------------------------------------------------------
(***************************************************************************)
(* Type correctness.                                                       *)
(***************************************************************************)
Mishaps == [commands : 0..MaxCommands, overlaps : 0..MaxOverlaps,
            starts : 0..MaxSlowStarts, stops : 0..MaxSlowStops,
            kills : 0..MaxKills, reboots : 0..MaxReboots]

Command == [step : Steps, pid : Pids \cup {None}, outcome : Outcomes]

\* Counting a step that is below its bound keeps the counts typed.
LEMMA CountType ==
  ASSUME mishaps \in Mishaps,
         \/ mishaps.starts < MaxSlowStarts /\ Count("starts")
         \/ mishaps.stops < MaxSlowStops /\ Count("stops")
         \/ mishaps.kills < MaxKills /\ Count("kills")
         \/ mishaps.reboots < MaxReboots /\ Count("reboots")
  PROVE  /\ mishaps' \in Mishaps
         /\ mishaps'.overlaps = mishaps.overlaps
         /\ mishaps'.starts >= mishaps.starts
         /\ mishaps'.stops >= mishaps.stops
<1> USE DaemonAssumption DEF Mishaps
<1>1. CASE mishaps.starts < MaxSlowStarts /\ Count("starts")
  BY <1>1 DEF Count
<1>2. CASE mishaps.stops < MaxSlowStops /\ Count("stops")
  BY <1>2 DEF Count
<1>3. CASE mishaps.kills < MaxKills /\ Count("kills")
  BY <1>3 DEF Count
<1>4. CASE mishaps.reboots < MaxReboots /\ Count("reboots")
  BY <1>4 DEF Count
<1> QED
  BY <1>1, <1>2, <1>3, <1>4

\* A command moves to another step, or ends: the others stay where they are.
LEMMA CommandGoes ==
  ASSUME command \in [Commands -> Command], NEW c \in Commands,
         NEW step \in Steps, NEW p \in Pids \cup {None}, Go(c, step, p)
  PROVE  /\ command' \in [Commands -> Command]
         /\ command'[c].step = step /\ command'[c].pid = p
         /\ \A d \in Commands \ {c} : command'[d] = command[d]
BY DEF Go, Command

LEMMA CommandEnds ==
  ASSUME command \in [Commands -> Command], NEW c \in Commands,
         NEW outcome \in Outcomes, End(c, outcome)
  PROVE  /\ command' \in [Commands -> Command]
         /\ command'[c].step = "idle" /\ command'[c].pid = command[c].pid
         /\ command'[c].outcome = outcome
         /\ \A d \in Commands \ {c} : command'[d] = command[d]
BY DEF End, Command, Steps

\* A machine that starts runs no proxy and no command.
LEMMA InitInv == Init => ProcessInv
<1> SUFFICES ASSUME Init PROVE ProcessInv
  OBVIOUS
<1> USE DaemonAssumption
<1>1. TypeOK
  BY DEF Init, TypeOK, Lives, Proxy, Steps, Outcomes
<1>2. NoProxyLives /\ \A c \in Commands : command[c].step = "idle"
  BY DEF Init, NoProxyLives, Proxy
<1> QED
  BY <1>1, <1>2
  DEF ProcessInv, ProxyIsTracked, CommandsTakeTurns, StepsAreInformed, SignalsAreMeant,
      NoProxyLives, IsAtRest, StepInv, AtAnyOf, At

-----------------------------------------------------------------------------
(***************************************************************************)
(* The steps of the processes.                                             *)
(***************************************************************************)

\* What a process does of itself or a kill does to it (proxy serve).
LEMMA ProcessStep ==
  ASSUME TypeOK, NEW p \in Pids, Serve(p) \/ Kill(p)
  PROVE  /\ UNCHANGED command
         /\ mishaps' \in Mishaps
         /\ mishaps'.overlaps = mishaps.overlaps
         /\ mishaps'.starts >= mishaps.starts /\ mishaps'.stops >= mishaps.stops
         /\ process[p] \in Proxy
         /\ \E t \in {"serving", "closing", "exited"} :
              /\ process' = [process EXCEPT ![p] = t]
              /\ t = "serving" => process[p] = "starting" /\ port = None
              /\ t = "closing" => process[p] = "draining"
              /\ port' = IF t = "serving" THEN p ELSE IF port = p THEN None ELSE port
         /\ stateFile' \in Pids \cup {None}
         /\ stateFile' # stateFile => process[p] = "closing"
<1> USE DaemonAssumption
<1>1. /\ mishaps \in Mishaps /\ port \in Pids \cup {None} /\ stateFile \in Pids \cup {None}
      /\ process \in [Pids -> Lives]
      /\ \A q \in Pids : port = q <=> process[q] \in {"serving", "draining"}
  BY DEF TypeOK, Mishaps
<1>2. CASE Listen(p)
  <2>1. CASE port = None
    BY <1>1, <1>2, <2>1 DEF Listen, Proxy, Mishaps
  <2>2. CASE port # None
    <3>1. /\ process' = [process EXCEPT ![p] = "exited"]
          /\ port' = IF port = p THEN None ELSE port
          /\ process[p] = "starting" /\ UNCHANGED <<stateFile, command, mishaps>>
      BY <1>1, <1>2, <2>2 DEF Listen
    <3>2. \E t \in {"serving", "closing", "exited"} :
             /\ process' = [process EXCEPT ![p] = t]
             /\ t = "serving" => process[p] = "starting" /\ port = None
             /\ t = "closing" => process[p] = "draining"
             /\ port' = IF t = "serving" THEN p ELSE IF port = p THEN None ELSE port
      <4> WITNESS "exited" \in {"serving", "closing", "exited"}
      <4> QED
        BY <3>1
    <3> QED
      BY <1>1, <3>1, <3>2 DEF Proxy, Mishaps
  <2> QED
    BY <2>1, <2>2
<1>3. CASE CloseServer(p)
  BY <1>1, <1>3 DEF CloseServer, Proxy, Mishaps
<1>4. CASE FinishClosing(p)
  BY <1>1, <1>4 DEF FinishClosing, Proxy, Mishaps
<1>5. CASE Kill(p)
  BY <1>1, <1>5, CountType DEF Kill, Mishaps
<1> QED
  BY <1>2, <1>3, <1>4, <1>5 DEF Serve

\* One process at most holds the port after such a step.
LEMMA ProcessType ==
  ASSUME TypeOK, NEW p \in Pids, Serve(p) \/ Kill(p)
  PROVE  TypeOK'
<1> USE DaemonAssumption
<1>1. /\ port \in Pids \cup {None} /\ process \in [Pids -> Lives]
      /\ \A q \in Pids : port = q <=> process[q] \in {"serving", "draining"}
      /\ command \in [Commands -> Command]
  BY DEF TypeOK, Command
<1>2. PICK t \in {"serving", "closing", "exited"} :
        /\ process' = [process EXCEPT ![p] = t]
        /\ t = "serving" => process[p] = "starting" /\ port = None
        /\ t = "closing" => process[p] = "draining"
        /\ port' = IF t = "serving" THEN p ELSE IF port = p THEN None ELSE port
  BY ProcessStep
<1>3. process' \in [Pids -> Lives] /\ port' \in Pids \cup {None}
  BY <1>1, <1>2 DEF Lives, Proxy
<1>4. ASSUME NEW q \in Pids PROVE port' = q <=> process'[q] \in {"serving", "draining"}
  <2>1. CASE q = p
    BY <1>1, <1>2, <2>1
  <2>2. CASE q # p
    BY <1>1, <1>2, <2>2
  <2> QED
    BY <2>1, <2>2
<1> QED
  BY <1>1, <1>3, <1>4, ProcessStep DEF TypeOK, Command, Mishaps

\* A process that ends was not the one at rest, unless it was killed; what the
\* commands take for granted stays so.
LEMMA ProcessInvariant ==
  ASSUME ProcessInv, NEW p \in Pids, Serve(p) \/ Kill(p)
  PROVE  ProcessInv'
<1> USE DaemonAssumption
<1>1. TypeOK /\ TypeOK'
  BY ProcessType DEF ProcessInv
<1>2. /\ UNCHANGED command
      /\ mishaps' \in Mishaps /\ mishaps'.overlaps = mishaps.overlaps
      /\ mishaps'.starts >= mishaps.starts /\ mishaps'.stops >= mishaps.stops
      /\ process[p] \in Proxy
      /\ stateFile' # stateFile => process[p] = "closing"
  BY <1>1, ProcessStep
<1>3. PICK t \in {"serving", "closing", "exited"} :
        /\ process' = [process EXCEPT ![p] = t]
        /\ t = "serving" => process[p] = "starting"
        /\ t = "closing" => process[p] = "draining"
  BY <1>1, ProcessStep
<1>4. process \in [Pids -> Lives] /\ mishaps \in Mishaps
  BY <1>1 DEF TypeOK, Mishaps
<1>5. IsInTurn' => IsInTurn
  BY <1>2 DEF IsInTurn
<1>6. IsPatient' => IsPatient
  BY <1>2, <1>4 DEF IsPatient, IsInTurn, Mishaps
<1>7. \A q \in Pids \ {p} : process'[q] = process[q]
  BY <1>3, <1>4
<1>8. process'[p] = t
  BY <1>3, <1>4
<1>9. IsAtRest => IsAtRest'
  BY <1>2, <1>3, <1>7, <1>8 DEF IsAtRest, Proxy
<1>10. NoProxyLives => NoProxyLives'
  BY <1>2, <1>7, <1>8 DEF NoProxyLives
<1>11. ASSUME NEW c \in Commands, StepInv(c) PROVE StepInv(c)'
  <2>1. OwnsProxy(c, {"serving"}) => OwnsProxy(c, {"serving"})'
    BY <1>2, <1>3, <1>7, <1>8 DEF OwnsProxy, Proxy
  <2>2. OwnsProxy(c, {"starting", "serving"})
          => OwnsProxy(c, {"starting", "serving"})' /\ UNCHANGED stateFile
    BY <1>2, <1>3, <1>7, <1>8 DEF OwnsProxy, Proxy
  <2>3. OwnsProxy(c, Proxy) => OwnsProxy(c, Proxy)'
    BY <1>2, <1>3, <1>7, <1>8 DEF OwnsProxy, Proxy
  <2>4. \A steps : AtAnyOf(c, steps)' <=> AtAnyOf(c, steps)
    BY <1>2 DEF AtAnyOf
  <2> QED
    BY <1>2, <1>9, <1>10, <1>11, <2>1, <2>2, <2>3, <2>4 DEF StepInv, AtAnyOf
<1>12. IsBusy' <=> IsBusy
  BY <1>2 DEF IsBusy, At
<1>13. CommandsTakeTurns'
  BY <1>2, <1>5 DEF ProcessInv, CommandsTakeTurns, At
<1>14. StepsAreInformed'
  BY <1>6, <1>9, <1>11, <1>12 DEF ProcessInv, StepsAreInformed
<1>15. ProxyIsTracked'
  BY <1>14 DEF StepsAreInformed, IsAtRest, ProxyIsTracked
<1>16. SignalsAreMeant'
  BY <1>2, <1>3, <1>7, <1>8 DEF ProcessInv, SignalsAreMeant, AtAnyOf
<1> QED
  BY <1>1, <1>13, <1>14, <1>15, <1>16 DEF ProcessInv

\* After a reboot nothing runs.
LEMMA RebootInvariant ==
  ASSUME ProcessInv, NEW strangers \in SUBSET Pids, Reboot(strangers)
  PROVE  ProcessInv'
<1> USE DaemonAssumption
<1>1. /\ mishaps' \in Mishaps
      /\ stateFile' \in Pids \cup {None}
  BY CountType DEF Reboot, ProcessInv, TypeOK, Mishaps
<1>2. /\ process' \in [Pids -> Lives] /\ port' = None
      /\ \A p \in Pids : process'[p] \in {"stranger", "unborn", "exited"}
      /\ command' \in [Commands -> Command]
      /\ \A c \in Commands : command'[c].step = "idle"
  BY DEF Reboot, Lives, Command, Steps, Outcomes
<1>3. TypeOK'
  BY <1>1, <1>2 DEF TypeOK, Command, Mishaps
<1>4. NoProxyLives'
  BY <1>2 DEF NoProxyLives, Proxy
<1> QED
  BY <1>2, <1>3, <1>4
  DEF ProcessInv, ProxyIsTracked, CommandsTakeTurns, StepsAreInformed, SignalsAreMeant,
      NoProxyLives, IsAtRest, StepInv, AtAnyOf, At

-----------------------------------------------------------------------------
(***************************************************************************)
(* The steps of the commands.                                              *)
(***************************************************************************)

\* What is saved or signalled by one command.
SignalIsMeant(c) ==
  /\ AtAnyOf(c, {"start: check", "stop: check", "stop: signal"}) => command[c].pid \in Pids
  /\ AtAnyOf(c, {"stop: signal"}) => process[command[c].pid] # "stranger"

\* A step of a command that is running disturbs no other command: while commands take
\* turns there is none.
LEMMA CommandStep ==
  ASSUME ProcessInv, TypeOK', NEW c \in Commands, ~At(c, "idle"),
         \A d \in Commands \ {c} : command'[d] = command[d],
         mishaps'.overlaps = mishaps.overlaps,
         \A p \in Pids : process[p] # "stranger" => process'[p] # "stranger",
         IsPatient' => StepInv(c)' /\ (At(c, "idle")' => IsAtRest'),
         SignalIsMeant(c)'
  PROVE  ProcessInv'
<1>1. IsInTurn' => IsInTurn
  BY DEF IsInTurn
<1>2. CommandsTakeTurns'
  BY <1>1 DEF ProcessInv, CommandsTakeTurns, At
<1>3. ASSUME IsPatient', NEW d \in Commands \ {c} PROVE StepInv(d)'
  <2>1. command'[d].step = "idle"
    BY <1>1, <1>3 DEF ProcessInv, CommandsTakeTurns, At, IsPatient
  <2> QED
    BY <2>1 DEF StepInv, AtAnyOf
<1>4. StepsAreInformed'
  BY <1>3 DEF StepsAreInformed, IsBusy
<1>5. ProxyIsTracked'
  BY <1>4 DEF StepsAreInformed, IsAtRest, ProxyIsTracked
<1>6. SignalsAreMeant'
  BY DEF ProcessInv, SignalsAreMeant, SignalIsMeant, AtAnyOf
<1> QED
  BY <1>2, <1>4, <1>5, <1>6 DEF ProcessInv

\* A step that leaves the processes as they are.
LEMMA QuietStep ==
  ASSUME ProcessInv, NEW c \in Commands, ~At(c, "idle"),
         UNCHANGED <<process, port>>,
         command' \in [Commands -> Command],
         \A d \in Commands \ {c} : command'[d] = command[d],
         mishaps' \in Mishaps, mishaps'.overlaps = mishaps.overlaps,
         stateFile' \in Pids \cup {None},
         IsPatient' => StepInv(c)' /\ (At(c, "idle")' => IsAtRest'),
         SignalIsMeant(c)'
  PROVE  ProcessInv'
<1>1. TypeOK'
  BY DEF ProcessInv, TypeOK, Command, Mishaps
<1> QED
  BY <1>1, CommandStep

\* What a command that is running knows, spelled out for its steps.
LEMMA Knows ==
  ASSUME ProcessInv, NEW c \in Commands
  PROVE  /\ process \in [Pids -> Lives] /\ port \in Pids \cup {None}
         /\ \A p \in Pids : port = p <=> process[p] \in {"serving", "draining"}
         /\ stateFile \in Pids \cup {None}
         /\ command \in [Commands -> Command] /\ command[c].pid \in Pids \cup {None}
         /\ mishaps \in Mishaps
         /\ SignalIsMeant(c)
         /\ IsPatient => StepInv(c)
         /\ None \notin Pids
BY DaemonAssumption
   DEF ProcessInv, TypeOK, Command, Mishaps, SignalsAreMeant, SignalIsMeant, StepsAreInformed

\* startProxyDaemon, step by step.
LEMMA StartInvariant ==
  ASSUME ProcessInv, NEW c \in Commands, Start(c)
  PROVE  ProcessInv'
<1>1. /\ process \in [Pids -> Lives] /\ port \in Pids \cup {None}
      /\ \A p \in Pids : port = p <=> process[p] \in {"serving", "draining"}
      /\ stateFile \in Pids \cup {None}
      /\ command \in [Commands -> Command] /\ command[c].pid \in Pids \cup {None}
      /\ mishaps \in Mishaps
      /\ IsPatient => StepInv(c)
      /\ None \notin Pids
  BY Knows
<1>2. CASE StartReads(c)
  <2>1. /\ command' \in [Commands -> Command]
        /\ \A d \in Commands \ {c} : command'[d] = command[d]
        /\ command'[c].step = IF stateFile = None THEN "start: spawn" ELSE "start: check"
        /\ command'[c].pid = stateFile
    <3> DEFINE next == IF stateFile = None THEN "start: spawn" ELSE "start: check"
    <3>1. Go(c, next, stateFile) /\ next \in Steps
      BY <1>2 DEF StartReads, Steps
    <3> HIDE DEF next
    <3>2. /\ command' \in [Commands -> Command]
          /\ command'[c].step = next /\ command'[c].pid = stateFile
          /\ \A d \in Commands \ {c} : command'[d] = command[d]
      BY <1>1, <3>1, CommandGoes
    <3> QED
      BY <3>2 DEF next
  <2>2. IsPatient' => IsAtRest
    BY <1>1, <1>2 DEF StartReads, IsPatient, IsInTurn, StepInv, AtAnyOf, At
  <2>3. IsPatient' => StepInv(c)' /\ (At(c, "idle")' => IsAtRest')
    BY <1>1, <1>2, <2>1, <2>2
    DEF StartReads, StepInv, AtAnyOf, At, IsAtRest, NoProxyLives, OwnsProxy
  <2> QED
    BY <1>1, <1>2, <2>1, <2>3, QuietStep DEF StartReads, At, SignalIsMeant, AtAnyOf
<1>3. CASE StartChecks(c)
  <2>1. /\ command' \in [Commands -> Command]
        /\ \A d \in Commands \ {c} : command'[d] = command[d]
        /\ IF IsProxyHealthy(command[c].pid) THEN command'[c].step = "idle"
           ELSE command'[c].step = "start: clear"
    BY <1>1, <1>3, CommandGoes, CommandEnds DEF StartChecks, Steps, Outcomes
  <2>2. IsPatient' => IsAtRest /\ OwnsProxy(c, {"serving"})
    BY <1>1, <1>3 DEF StartChecks, IsPatient, IsInTurn, StepInv, AtAnyOf, At
  <2>3. ~IsProxyHealthy(command[c].pid) /\ OwnsProxy(c, {"serving"}) => NoProxyLives
    BY <1>1 DEF IsProxyHealthy, IsProcessRunning, OwnsProxy, NoProxyLives
  <2>4. IsPatient' => StepInv(c)' /\ (At(c, "idle")' => IsAtRest')
    BY <1>3, <2>1, <2>2, <2>3
    DEF StartChecks, StepInv, AtAnyOf, At, IsAtRest, NoProxyLives
  <2> QED
    BY <1>1, <1>3, <2>1, <2>4, QuietStep DEF StartChecks, At, SignalIsMeant, AtAnyOf
<1>4. CASE StartClears(c)
  <2>1. /\ command' \in [Commands -> Command]
        /\ \A d \in Commands \ {c} : command'[d] = command[d]
        /\ command'[c].step = "start: spawn"
    BY <1>1, <1>4, CommandGoes, CommandEnds DEF StartClears, Steps
  <2>2. IsPatient' => NoProxyLives
    BY <1>1, <1>4 DEF StartClears, IsPatient, IsInTurn, StepInv, AtAnyOf, At
  <2>3. IsPatient' => StepInv(c)' /\ (At(c, "idle")' => IsAtRest')
    BY <1>4, <2>1, <2>2 DEF StartClears, StepInv, AtAnyOf, At, NoProxyLives
  <2> QED
    BY <1>1, <1>4, <2>1, <2>3, QuietStep DEF StartClears, At, SignalIsMeant, AtAnyOf
<1>5. ASSUME NEW p \in Pids, StartSpawns(c, p) PROVE ProcessInv'
  <2>1. /\ command' \in [Commands -> Command]
        /\ \A d \in Commands \ {c} : command'[d] = command[d]
        /\ command'[c].step = "start: record" /\ command'[c].pid = p
    <3>1. Go(c, "start: record", p) /\ "start: record" \in Steps
      BY <1>5 DEF StartSpawns, Steps
    <3> QED
      BY <1>1, <3>1, CommandGoes
  <2>2. IsPatient' => NoProxyLives
    BY <1>1, <1>5 DEF StartSpawns, IsPatient, IsInTurn, StepInv, AtAnyOf, At
  <2>3. /\ process' \in [Pids -> Lives] /\ process'[p] = "starting"
        /\ process[p] = "unborn"
        /\ \A q \in Pids \ {p} : process'[q] = process[q]
    BY <1>1, <1>5 DEF StartSpawns, Lives, Proxy
  <2>4. IsPatient' => StepInv(c)' /\ (At(c, "idle")' => IsAtRest')
    BY <2>1, <2>2, <2>3 DEF StepInv, AtAnyOf, At, NoProxyLives, OwnsProxy
  <2>5. TypeOK'
    BY <1>1, <1>5, <2>1, <2>3 DEF StartSpawns, TypeOK, Command, Mishaps
  <2>6. \A q \in Pids : process[q] # "stranger" => process'[q] # "stranger"
    BY <2>3
  <2> QED
    BY <1>5, <2>1, <2>4, <2>5, <2>6, CommandStep DEF StartSpawns, At, SignalIsMeant, AtAnyOf
<1>6. CASE StartRecords(c)
  <2>1. /\ command' \in [Commands -> Command]
        /\ \A d \in Commands \ {c} : command'[d] = command[d]
        /\ command'[c].step = "start: wait" /\ command'[c].pid = command[c].pid
    <3>1. Go(c, "start: wait", command[c].pid) /\ "start: wait" \in Steps
      BY <1>6 DEF StartRecords, Steps
    <3> QED
      BY <1>1, <3>1, CommandGoes, CommandEnds
  <2>2. IsPatient' => OwnsProxy(c, {"starting", "serving"})
    BY <1>1, <1>6 DEF StartRecords, IsPatient, IsInTurn, StepInv, AtAnyOf, At
  <2>3. IsPatient' => StepInv(c)' /\ (At(c, "idle")' => IsAtRest')
    BY <1>6, <2>1, <2>2 DEF StartRecords, StepInv, AtAnyOf, At, OwnsProxy
  <2> QED
    BY <1>1, <1>6, <2>1, <2>3, QuietStep DEF StartRecords, At, SignalIsMeant, AtAnyOf
<1>7. CASE StartPolls(c)
  <2>1. /\ command' \in [Commands -> Command]
        /\ \A d \in Commands \ {c} : command'[d] = command[d]
        /\ command'[c].step = "start: fetch" /\ command'[c].pid = command[c].pid
    <3>1. Go(c, "start: fetch", command[c].pid) /\ "start: fetch" \in Steps
      BY <1>7 DEF StartPolls, Steps
    <3> QED
      BY <1>1, <3>1, CommandGoes, CommandEnds
  <2>2. IsPatient' => OwnsProxy(c, {"starting", "serving"}) /\ stateFile = command[c].pid
    BY <1>1, <1>7 DEF StartPolls, IsPatient, IsInTurn, StepInv, AtAnyOf, At
  <2>3. IsPatient' => StepInv(c)' /\ (At(c, "idle")' => IsAtRest')
    BY <1>7, <2>1, <2>2 DEF StartPolls, StepInv, AtAnyOf, At, OwnsProxy
  <2> QED
    BY <1>1, <1>7, <2>1, <2>3, QuietStep DEF StartPolls, At, SignalIsMeant, AtAnyOf
<1>8. CASE StartFetches(c)
  <2>1. /\ command' \in [Commands -> Command]
        /\ \A d \in Commands \ {c} : command'[d] = command[d]
        /\ command'[c].pid = command[c].pid
        /\ command'[c].step = IF port # None THEN "idle" ELSE "start: wait"
    <3>1. "start: wait" \in Steps /\ "started" \in Outcomes
      BY DEF Steps, Outcomes
    <3>2. CASE port # None /\ End(c, "started")
      BY <1>1, <3>1, <3>2, CommandGoes, CommandEnds
    <3>3. CASE port = None /\ Go(c, "start: wait", command[c].pid)
      BY <1>1, <3>1, <3>3, CommandGoes, CommandEnds
    <3> QED
      BY <1>8, <3>2, <3>3 DEF StartFetches
  <2>2. IsPatient' => OwnsProxy(c, {"starting", "serving"}) /\ stateFile = command[c].pid
    BY <1>1, <1>8 DEF StartFetches, IsPatient, IsInTurn, StepInv, AtAnyOf, At
  <2>3. OwnsProxy(c, {"starting", "serving"}) /\ stateFile = command[c].pid /\ port # None
          => IsAtRest
    BY <1>1 DEF OwnsProxy, IsAtRest, Proxy
  <2>4. IsPatient' => StepInv(c)' /\ (At(c, "idle")' => IsAtRest')
    BY <1>8, <2>1, <2>2, <2>3 DEF StartFetches, StepInv, AtAnyOf, At, OwnsProxy, IsAtRest
  <2> QED
    BY <1>1, <1>8, <2>1, <2>4, QuietStep DEF StartFetches, At, SignalIsMeant, AtAnyOf
<1>9. CASE StartTimesOut(c)
  <2>1. /\ command' \in [Commands -> Command]
        /\ \A d \in Commands \ {c} : command'[d] = command[d]
        /\ command'[c].step = "start: retract"
    <3>1. Go(c, "start: retract", command[c].pid) /\ "start: retract" \in Steps
      BY <1>9 DEF StartTimesOut, Steps
    <3> QED
      BY <1>1, <3>1, CommandGoes, CommandEnds
  <2>2. mishaps' \in Mishaps /\ mishaps'.overlaps = mishaps.overlaps
    BY <1>1, <1>9, CountType DEF StartTimesOut
  <2>3. IsPatient' => UNCHANGED mishaps /\ ~IsProcessRunning(command[c].pid)
    <3>1. CASE UNCHANGED mishaps /\ ~IsProcessRunning(command[c].pid)
      BY <3>1
    <3>2. CASE mishaps.starts < MaxSlowStarts /\ Count("starts")
      <4>1. mishaps'.starts = mishaps.starts + 1 /\ mishaps.starts \in Nat
        BY <1>1, <3>2 DEF Count, Mishaps
      <4> QED
        BY <4>1 DEF IsPatient
    <3> QED
      BY <1>9, <3>1, <3>2 DEF StartTimesOut
  <2>4. IsPatient' => OwnsProxy(c, {"starting", "serving"})
    BY <1>1, <1>9, <2>3 DEF StartTimesOut, IsPatient, IsInTurn, StepInv, AtAnyOf, At
  <2>5. ~IsProcessRunning(command[c].pid) /\ OwnsProxy(c, {"starting", "serving"})
          => NoProxyLives
    BY DEF IsProcessRunning, OwnsProxy, NoProxyLives
  <2>6. IsPatient' => StepInv(c)' /\ (At(c, "idle")' => IsAtRest')
    BY <1>9, <2>1, <2>3, <2>4, <2>5 DEF StartTimesOut, StepInv, AtAnyOf, At, NoProxyLives
  <2> QED
    BY <1>1, <1>9, <2>1, <2>2, <2>6, QuietStep DEF StartTimesOut, At, SignalIsMeant, AtAnyOf
<1>10. CASE StartRetracts(c)
  <2>1. /\ command' \in [Commands -> Command]
        /\ \A d \in Commands \ {c} : command'[d] = command[d]
        /\ command'[c].step = "idle"
    BY <1>1, <1>10, CommandGoes, CommandEnds DEF StartRetracts, Outcomes
  <2>2. IsPatient' => NoProxyLives
    BY <1>1, <1>10 DEF StartRetracts, IsPatient, IsInTurn, StepInv, AtAnyOf, At
  <2>3. IsPatient' => StepInv(c)' /\ (At(c, "idle")' => IsAtRest')
    BY <1>10, <2>1, <2>2 DEF StartRetracts, StepInv, AtAnyOf, NoProxyLives, IsAtRest
  <2> QED
    BY <1>1, <1>10, <2>1, <2>3, QuietStep DEF StartRetracts, At, SignalIsMeant, AtAnyOf
<1> QED
  BY <1>2, <1>3, <1>4, <1>5, <1>6, <1>7, <1>8, <1>9, <1>10 DEF Start

\* `proxy stop`, step by step.
LEMMA StopInvariant ==
  ASSUME ProcessInv, NEW c \in Commands, Stop(c)
  PROVE  ProcessInv'
<1>1. /\ process \in [Pids -> Lives] /\ port \in Pids \cup {None}
      /\ \A p \in Pids : port = p <=> process[p] \in {"serving", "draining"}
      /\ stateFile \in Pids \cup {None}
      /\ command \in [Commands -> Command] /\ command[c].pid \in Pids \cup {None}
      /\ mishaps \in Mishaps
      /\ SignalIsMeant(c)
      /\ IsPatient => StepInv(c)
      /\ None \notin Pids
  BY Knows
<1>2. CASE StopReads(c)
  <2>1. /\ command' \in [Commands -> Command]
        /\ \A d \in Commands \ {c} : command'[d] = command[d]
        /\ \/ command'[c].step = "idle" /\ stateFile = None
           \/ command'[c].step = "stop: check" /\ command'[c].pid = stateFile /\ stateFile # None
    <3>1. "stop: check" \in Steps /\ "not running" \in Outcomes
      BY DEF Steps, Outcomes
    <3>2. CASE stateFile = None /\ End(c, "not running")
      BY <1>1, <3>1, <3>2, CommandEnds
    <3>3. CASE stateFile # None /\ Go(c, "stop: check", stateFile)
      <4>1. /\ command' \in [Commands -> Command]
            /\ command'[c].step = "stop: check" /\ command'[c].pid = stateFile
            /\ \A d \in Commands \ {c} : command'[d] = command[d]
        BY <1>1, <3>1, <3>3, CommandGoes
      <4> QED
        BY <3>3, <4>1
    <3> QED
      BY <1>2, <3>2, <3>3 DEF StopReads
  <2>2. IsPatient' => IsAtRest
    BY <1>1, <1>2 DEF StopReads, IsPatient, IsInTurn, StepInv, AtAnyOf, At
  <2>3. IsPatient' => StepInv(c)' /\ (At(c, "idle")' => IsAtRest')
    BY <1>1, <1>2, <2>1, <2>2 DEF StopReads, StepInv, AtAnyOf, At, IsAtRest, OwnsProxy
  <2> QED
    BY <1>1, <1>2, <2>1, <2>3, QuietStep DEF StopReads, At, SignalIsMeant, AtAnyOf
<1>3. CASE StopChecks(c)
  <2>1. /\ command' \in [Commands -> Command]
        /\ \A d \in Commands \ {c} : command'[d] = command[d]
        /\ \/ /\ IsProxyHealthy(command[c].pid)
              /\ command'[c].step = "stop: signal" /\ command'[c].pid = command[c].pid
           \/ ~IsProxyHealthy(command[c].pid) /\ command'[c].step = "stop: clear"
    <3>1. "stop: signal" \in Steps /\ "stop: clear" \in Steps
      BY DEF Steps
    <3>2. CASE IsProxyHealthy(command[c].pid) /\ Go(c, "stop: signal", command[c].pid)
      BY <1>1, <3>1, <3>2, CommandGoes, CommandEnds
    <3>3. CASE ~IsProxyHealthy(command[c].pid) /\ Go(c, "stop: clear", None)
      BY <1>1, <3>1, <3>3, CommandGoes, CommandEnds
    <3> QED
      BY <1>3, <3>2, <3>3 DEF StopChecks
  <2>2. IsPatient' => IsAtRest /\ OwnsProxy(c, {"serving"})
    BY <1>1, <1>3 DEF StopChecks, IsPatient, IsInTurn, StepInv, AtAnyOf, At
  <2>3. ~IsProxyHealthy(command[c].pid) /\ OwnsProxy(c, {"serving"}) => NoProxyLives
    BY <1>1 DEF IsProxyHealthy, IsProcessRunning, OwnsProxy, NoProxyLives
  <2>4. IsPatient' => StepInv(c)' /\ (At(c, "idle")' => IsAtRest')
    BY <1>3, <2>1, <2>2, <2>3
    DEF StopChecks, StepInv, AtAnyOf, At, IsAtRest, NoProxyLives, OwnsProxy
  <2>5. command[c].pid \in Pids
    BY <1>1, <1>3 DEF StopChecks, At, SignalIsMeant, AtAnyOf
  <2>6. IsProxyHealthy(command[c].pid) => process[command[c].pid] # "stranger"
    BY <1>1, <2>5 DEF IsProxyHealthy
  <2>7. SignalIsMeant(c)'
    BY <1>3, <2>1, <2>5, <2>6 DEF StopChecks, SignalIsMeant, AtAnyOf
  <2> QED
    BY <1>1, <1>3, <2>1, <2>4, <2>7, QuietStep DEF StopChecks, At
<1>4. CASE StopSignals(c)
  <2> DEFINE p == command[c].pid
  <2>1. p \in Pids /\ process[p] # "stranger"
    BY <1>1, <1>4 DEF StopSignals, At, SignalIsMeant, AtAnyOf
  <2>2. IsPatient' => IsAtRest /\ OwnsProxy(c, {"serving"})
    BY <1>1, <1>4 DEF StopSignals, IsPatient, IsInTurn, StepInv, AtAnyOf, At
  <2>3. "stop: wait" \in Steps /\ "no such process" \in Outcomes
    BY DEF Steps, Outcomes
  <2>4. CASE IsProcessRunning(p)
    <3>1. /\ command' \in [Commands -> Command]
          /\ \A d \in Commands \ {c} : command'[d] = command[d]
          /\ command'[c].step = "stop: wait" /\ command'[c].pid = p
      <4>1. Go(c, "stop: wait", p)
        BY <1>4, <2>4 DEF StopSignals
      <4> QED
        BY <1>1, <2>3, <4>1, CommandGoes, CommandEnds
    <3>2. /\ process' = [process EXCEPT ![p] = Terminated(p)]
          /\ port' = IF port = p /\ Terminated(p) = "exited" THEN None ELSE port
          /\ UNCHANGED <<stateFile, mishaps>>
      BY <1>4, <2>4 DEF StopSignals
    <3>3. process[p] \in Proxy
      BY <2>1, <2>4 DEF IsProcessRunning
    <3>4. /\ process' \in [Pids -> Lives]
          /\ process'[p] = Terminated(p)
          /\ \A q \in Pids \ {p} : process'[q] = process[q]
      BY <1>1, <2>1, <3>2 DEF Terminated, Lives, Proxy
    <3>5. \A q \in Pids : port' = q <=> process'[q] \in {"serving", "draining"}
      BY <1>1, <2>1, <3>2, <3>4 DEF Terminated
    <3>6. TypeOK'
      BY <1>1, <3>1, <3>2, <3>4, <3>5 DEF TypeOK, Command, Mishaps
    <3>7. \A q \in Pids : process[q] # "stranger" => process'[q] # "stranger"
      BY <3>4 DEF Terminated
    <3>8. IsPatient' => OwnsProxy(c, Proxy)'
      BY <2>2, <3>1, <3>3, <3>4 DEF OwnsProxy
    <3>9. IsPatient' => StepInv(c)' /\ (At(c, "idle")' => IsAtRest')
      BY <3>1, <3>8 DEF StepInv, AtAnyOf, At
    <3> QED
      BY <1>4, <3>1, <3>2, <3>6, <3>7, <3>9, CommandStep DEF StopSignals, At, SignalIsMeant, AtAnyOf
  <2>5. CASE ~IsProcessRunning(p)
    <3>1. End(c, "no such process") /\ UNCHANGED <<process, port, stateFile, mishaps>>
      BY <1>4, <2>5 DEF StopSignals
    <3>2. /\ command' \in [Commands -> Command]
          /\ \A d \in Commands \ {c} : command'[d] = command[d]
          /\ command'[c].step = "idle"
      BY <1>1, <2>3, <3>1, CommandGoes, CommandEnds
    <3>3. IsPatient' => StepInv(c)' /\ (At(c, "idle")' => IsAtRest')
      BY <2>2, <3>1, <3>2 DEF StepInv, AtAnyOf, IsAtRest
    <3> QED
      BY <1>1, <1>4, <3>1, <3>2, <3>3, QuietStep DEF StopSignals, At, SignalIsMeant, AtAnyOf
  <2> QED
    BY <2>4, <2>5
<1>5. CASE StopSeesExit(c)
  <2>1. /\ command' \in [Commands -> Command]
        /\ \A d \in Commands \ {c} : command'[d] = command[d]
        /\ command'[c].step = "stop: clear"
    <3>1. Go(c, "stop: clear", command[c].pid) /\ "stop: clear" \in Steps
      BY <1>5 DEF StopSeesExit, Steps
    <3> QED
      BY <1>1, <3>1, CommandGoes, CommandEnds
  <2>2. IsPatient' => OwnsProxy(c, Proxy)
    BY <1>1, <1>5 DEF StopSeesExit, IsPatient, IsInTurn, StepInv, AtAnyOf, At
  <2>3. IsPatient' => NoProxyLives
    BY <1>5, <2>2 DEF StopSeesExit, IsProcessRunning, OwnsProxy, NoProxyLives
  <2>4. IsPatient' => StepInv(c)' /\ (At(c, "idle")' => IsAtRest')
    BY <1>5, <2>1, <2>3 DEF StopSeesExit, StepInv, AtAnyOf, At, NoProxyLives
  <2> QED
    BY <1>1, <1>5, <2>1, <2>4, QuietStep DEF StopSeesExit, At, SignalIsMeant, AtAnyOf
<1>6. CASE StopTimesOut(c)
  <2>1. /\ command' \in [Commands -> Command]
        /\ \A d \in Commands \ {c} : command'[d] = command[d]
        /\ command'[c].step = "idle"
    BY <1>1, <1>6, CommandGoes, CommandEnds DEF StopTimesOut, Outcomes
  <2>2. mishaps' \in Mishaps /\ mishaps'.overlaps = mishaps.overlaps
    BY <1>1, <1>6, CountType DEF StopTimesOut
  <2>3. ~IsPatient'
    <3>1. mishaps'.stops = mishaps.stops + 1 /\ mishaps.stops \in Nat
      <4>1. Count("stops")
        BY <1>6 DEF StopTimesOut
      <4> QED
        BY <1>1, <4>1 DEF Count, Mishaps
    <3> QED
      BY <3>1 DEF IsPatient
  <2> QED
    BY <1>1, <1>6, <2>1, <2>2, <2>3, QuietStep DEF StopTimesOut, At, SignalIsMeant, AtAnyOf
<1>7. CASE StopClears(c)
  <2>1. /\ command' \in [Commands -> Command]
        /\ \A d \in Commands \ {c} : command'[d] = command[d]
        /\ command'[c].step = "idle"
    BY <1>1, <1>7, CommandGoes, CommandEnds DEF StopClears, Outcomes
  <2>2. IsPatient' => NoProxyLives
    BY <1>1, <1>7 DEF StopClears, IsPatient, IsInTurn, StepInv, AtAnyOf, At
  <2>3. IsPatient' => StepInv(c)' /\ (At(c, "idle")' => IsAtRest')
    BY <1>7, <2>1, <2>2 DEF StopClears, StepInv, AtAnyOf, NoProxyLives, IsAtRest
  <2> QED
    BY <1>1, <1>7, <2>1, <2>3, QuietStep DEF StopClears, At, SignalIsMeant, AtAnyOf
<1> QED
  BY <1>2, <1>3, <1>4, <1>5, <1>6, <1>7 DEF Stop

\* Counting a command that is issued, and whether it overlaps with another one.
LEMMA CountBegin ==
  ASSUME mishaps \in Mishaps, mishaps.commands < MaxCommands
  PROVE  /\ mishaps' = [mishaps EXCEPT !.commands = @ + 1, !.overlaps = @ + 0] =>
              /\ mishaps' \in Mishaps
              /\ mishaps'.starts = mishaps.starts /\ mishaps'.stops = mishaps.stops
              /\ mishaps'.overlaps = mishaps.overlaps
         /\ (mishaps.overlaps < MaxOverlaps
             /\ mishaps' = [mishaps EXCEPT !.commands = @ + 1, !.overlaps = @ + 1]) =>
              /\ mishaps' \in Mishaps
              /\ mishaps'.starts = mishaps.starts /\ mishaps'.stops = mishaps.stops
              /\ mishaps'.overlaps # 0
<1> USE DaemonAssumption
<1>1. mishaps.commands + 1 \in 0..MaxCommands /\ mishaps.overlaps \in 0..MaxOverlaps
  BY DEF Mishaps
<1>2. ASSUME mishaps' = [mishaps EXCEPT !.commands = @ + 1, !.overlaps = @ + 0]
      PROVE  /\ mishaps' \in Mishaps
             /\ mishaps'.starts = mishaps.starts /\ mishaps'.stops = mishaps.stops
             /\ mishaps'.overlaps = mishaps.overlaps
  <2>1. mishaps.overlaps + 0 \in 0..MaxOverlaps
    BY <1>1
  <2>2. mishaps' \in Mishaps
    BY <1>1, <1>2, <2>1 DEF Mishaps
  <2>3. /\ mishaps'.starts = mishaps.starts /\ mishaps'.stops = mishaps.stops
        /\ mishaps'.overlaps = mishaps.overlaps + 0
    BY <1>2 DEF Mishaps
  <2> QED
    BY <1>1, <2>2, <2>3
<1>3. ASSUME mishaps.overlaps < MaxOverlaps,
             mishaps' = [mishaps EXCEPT !.commands = @ + 1, !.overlaps = @ + 1]
      PROVE  /\ mishaps' \in Mishaps
             /\ mishaps'.starts = mishaps.starts /\ mishaps'.stops = mishaps.stops
             /\ mishaps'.overlaps # 0
  <2>1. mishaps.overlaps + 1 \in 0..MaxOverlaps
    BY <1>1, <1>3
  <2>2. mishaps' \in Mishaps
    BY <1>1, <1>3, <2>1 DEF Mishaps
  <2>3. /\ mishaps'.starts = mishaps.starts /\ mishaps'.stops = mishaps.stops
        /\ mishaps'.overlaps = mishaps.overlaps + 1
    BY <1>3 DEF Mishaps
  <2> QED
    BY <1>1, <2>2, <2>3
<1> QED
  BY <1>2, <1>3

\* A command is issued: it finds things at rest, or it overlaps with another one.
LEMMA BeginInvariant ==
  ASSUME ProcessInv, NEW c \in Commands,
         UNCHANGED <<process, port, stateFile>>,
         mishaps' \in Mishaps,
         mishaps'.starts = mishaps.starts, mishaps'.stops = mishaps.stops,
         IsInTurn' => IsInTurn /\ ~IsBusy,
         command' \in [Commands -> Command],
         command'[c].step \in {"start: read", "stop: read"},
         \A d \in Commands \ {c} : command'[d] = command[d]
  PROVE  ProcessInv'
<1>2. IsPatient' => IsPatient /\ ~IsBusy
  BY DEF IsPatient
<1>3. TypeOK'
  BY DEF ProcessInv, TypeOK, Command, Mishaps
<1>4. ~IsBusy => \A d \in Commands \ {c} : command'[d].step = "idle"
  BY DEF IsBusy, At
<1>5. CommandsTakeTurns'
  BY <1>4 DEF CommandsTakeTurns, At
<1>6. IsPatient' => IsAtRest'
  <2>1. IsPatient' => IsAtRest
    BY <1>2 DEF ProcessInv, StepsAreInformed
  <2> QED
    BY <2>1 DEF IsAtRest
<1>7. IsPatient' => \A d \in Commands : StepInv(d)'
  BY <1>2, <1>4, <1>6 DEF StepInv, AtAnyOf
<1>8. IsBusy'
  BY DEF IsBusy, At
<1>9. StepsAreInformed' /\ ProxyIsTracked'
  BY <1>7, <1>8 DEF StepsAreInformed, ProxyIsTracked
<1>10. SignalsAreMeant'
  BY DEF ProcessInv, SignalsAreMeant, AtAnyOf
<1> QED
  BY <1>3, <1>5, <1>9, <1>10 DEF ProcessInv

\* Nothing breaks the invariant.
LEMMA NextInv == ProcessInv /\ [Next]_vars => ProcessInv'
<1>1. ASSUME ProcessInv, Next PROVE ProcessInv'
  <2>1. ASSUME NEW c \in Commands, Begin(c, "start: read") PROVE ProcessInv'
    <3>1. /\ command' \in [Commands -> Command]
          /\ command'[c].step = "start: read"
          /\ \A d \in Commands \ {c} : command'[d] = command[d]
          /\ UNCHANGED <<process, port, stateFile>>
          /\ mishaps \in Mishaps
      BY <1>1, <2>1, Knows DEF Begin, Command, Steps, Outcomes
    <3>2. CASE IsBusy
      <4>1. /\ mishaps.commands < MaxCommands /\ mishaps.overlaps < MaxOverlaps
            /\ mishaps' = [mishaps EXCEPT !.commands = @ + 1, !.overlaps = @ + 1]
        BY <2>1, <3>2 DEF Begin
      <4>2. /\ mishaps' \in Mishaps
            /\ mishaps'.starts = mishaps.starts /\ mishaps'.stops = mishaps.stops
            /\ ~IsInTurn'
        BY <3>1, <4>1, CountBegin DEF IsInTurn
      <4> QED
        BY <1>1, <3>1, <4>2, BeginInvariant
    <3>3. CASE ~IsBusy
      <4>1. /\ mishaps.commands < MaxCommands
            /\ mishaps' = [mishaps EXCEPT !.commands = @ + 1, !.overlaps = @ + 0]
        BY <2>1, <3>3 DEF Begin
      <4>2. /\ mishaps' \in Mishaps
            /\ mishaps'.starts = mishaps.starts /\ mishaps'.stops = mishaps.stops
            /\ IsInTurn' => IsInTurn
        BY <3>1, <4>1, CountBegin DEF IsInTurn
      <4> QED
        BY <1>1, <3>1, <3>3, <4>2, BeginInvariant
    <3> QED
      BY <3>2, <3>3
  <2>2. ASSUME NEW c \in Commands, Begin(c, "stop: read") PROVE ProcessInv'
    <3>1. /\ command' \in [Commands -> Command]
          /\ command'[c].step = "stop: read"
          /\ \A d \in Commands \ {c} : command'[d] = command[d]
          /\ UNCHANGED <<process, port, stateFile>>
          /\ mishaps \in Mishaps
      BY <1>1, <2>2, Knows DEF Begin, Command, Steps, Outcomes
    <3>2. CASE IsBusy
      <4>1. /\ mishaps.commands < MaxCommands /\ mishaps.overlaps < MaxOverlaps
            /\ mishaps' = [mishaps EXCEPT !.commands = @ + 1, !.overlaps = @ + 1]
        BY <2>2, <3>2 DEF Begin
      <4>2. /\ mishaps' \in Mishaps
            /\ mishaps'.starts = mishaps.starts /\ mishaps'.stops = mishaps.stops
            /\ ~IsInTurn'
        BY <3>1, <4>1, CountBegin DEF IsInTurn
      <4> QED
        BY <1>1, <3>1, <4>2, BeginInvariant
    <3>3. CASE ~IsBusy
      <4>1. /\ mishaps.commands < MaxCommands
            /\ mishaps' = [mishaps EXCEPT !.commands = @ + 1, !.overlaps = @ + 0]
        BY <2>2, <3>3 DEF Begin
      <4>2. /\ mishaps' \in Mishaps
            /\ mishaps'.starts = mishaps.starts /\ mishaps'.stops = mishaps.stops
            /\ IsInTurn' => IsInTurn
        BY <3>1, <4>1, CountBegin DEF IsInTurn
      <4> QED
        BY <1>1, <3>1, <3>3, <4>2, BeginInvariant
    <3> QED
      BY <3>2, <3>3
  <2>3. ASSUME NEW c \in Commands, Start(c) \/ Stop(c) PROVE ProcessInv'
    BY <1>1, <2>3, StartInvariant, StopInvariant
  <2>4. ASSUME NEW p \in Pids, Serve(p) \/ Kill(p) PROVE ProcessInv'
    BY <1>1, <2>4, ProcessInvariant
  <2>5. ASSUME NEW strangers \in SUBSET Pids, Reboot(strangers) PROVE ProcessInv'
    BY <1>1, <2>5, RebootInvariant
  <2> QED
    BY <1>1, <2>1, <2>2, <2>3, <2>4, <2>5 DEF Next
<1>2. ASSUME ProcessInv, UNCHANGED vars PROVE ProcessInv'
  BY <1>2
  DEF vars, ProcessInv, TypeOK, ProxyIsTracked, CommandsTakeTurns, StepsAreInformed,
      SignalsAreMeant, IsPatient, IsInTurn, IsBusy, At, AtAnyOf, IsAtRest, NoProxyLives,
      OwnsProxy, StepInv
<1> QED
  BY <1>1, <1>2

\* No proxy is alive that a later command could not find, and every command is right in
\* what it takes for granted from one await to the next (startProxyDaemon, stopProxy).
THEOREM ProcessesAreTracked == Spec => []ProcessInv
BY InitInv, NextInv, PTL DEF Spec

-----------------------------------------------------------------------------
(***************************************************************************)
(* What a command reports.                                                 *)
(***************************************************************************)

\* The steps at which a command ends, with what it then says.
Ends(c) ==
  \/ StartChecks(c) /\ IsProxyHealthy(command[c].pid) /\ command'[c].outcome = "already running"
  \/ StartFetches(c) /\ port # None /\ command'[c].outcome = "started"
  \/ StopReads(c) /\ stateFile = None /\ command'[c].outcome = "not running"
  \/ StopClears(c) /\ command'[c].outcome \in {"stopped", "not running"}
  \/ command'[c].outcome \in {"none", "did not start", "did not stop", "no such process"}

\* A step of one command is not a step of another.
LEMMA OthersStay ==
  ASSUME command \in [Commands -> Command], NEW c \in Commands, NEW d \in Commands \ {c},
         \/ Begin(c, "start: read") \/ Begin(c, "stop: read") \/ Start(c) \/ Stop(c)
  PROVE  command'[d] = command[d]
<1>1. CASE Begin(c, "start: read") \/ Begin(c, "stop: read")
  BY <1>1 DEF Begin
<1>2. CASE Start(c)
  BY <1>2
  DEF Start, StartReads, StartChecks, StartClears, StartSpawns, StartRecords, StartPolls,
      StartFetches, StartTimesOut, StartRetracts, Go, End
<1>3. CASE Stop(c)
  BY <1>3
  DEF Stop, StopReads, StopChecks, StopSignals, StopSeesExit, StopTimesOut, StopClears, Go, End
<1> QED
  BY <1>1, <1>2, <1>3

\* startProxyDaemon ends where it finds a proxy, sees one answer, or gives up.
LEMMA StartEnds ==
  ASSUME command \in [Commands -> Command], NEW c \in Commands, Start(c),
         command'[c].step = "idle"
  PROVE  Ends(c)
<1>1. CASE StartReads(c)
  BY <1>1 DEF StartReads, Go, Command
<1>2. CASE StartChecks(c)
  BY <1>2 DEF StartChecks, Go, End, Ends, Command
<1>3. CASE StartClears(c)
  BY <1>3 DEF StartClears, Go, Command
<1>4. ASSUME NEW p \in Pids, StartSpawns(c, p) PROVE FALSE
  BY <1>4 DEF StartSpawns, Go, Command
<1>5. CASE StartRecords(c)
  BY <1>5 DEF StartRecords, Go, Command
<1>6. CASE StartPolls(c)
  BY <1>6 DEF StartPolls, Go, Command
<1>7. CASE StartFetches(c)
  BY <1>7 DEF StartFetches, Go, End, Ends, Command
<1>8. CASE StartTimesOut(c)
  BY <1>8 DEF StartTimesOut, Go, Command
<1>9. CASE StartRetracts(c)
  BY <1>9 DEF StartRetracts, End, Ends, Command
<1> QED
  BY <1>1, <1>2, <1>3, <1>4, <1>5, <1>6, <1>7, <1>8, <1>9 DEF Start

\* `proxy stop` ends where it finds no file, has removed it, or gives up.
LEMMA StopEnds ==
  ASSUME command \in [Commands -> Command], NEW c \in Commands, Stop(c),
         command'[c].step = "idle"
  PROVE  Ends(c)
<1>1. CASE StopReads(c)
  BY <1>1 DEF StopReads, Go, End, Ends, Command
<1>2. CASE StopChecks(c)
  BY <1>2 DEF StopChecks, Go, Command
<1>3. CASE StopSignals(c)
  BY <1>3 DEF StopSignals, Go, End, Ends, Command
<1>4. CASE StopSeesExit(c)
  BY <1>4 DEF StopSeesExit, Go, Command
<1>5. CASE StopTimesOut(c)
  BY <1>5 DEF StopTimesOut, End, Ends, Command
<1>6. CASE StopClears(c)
  BY <1>6 DEF StopClears, End, Ends, Command
<1> QED
  BY <1>1, <1>2, <1>3, <1>4, <1>5, <1>6 DEF Stop

\* A command that ends, ends by a step of its own or with the machine.
LEMMA CommandEndsItself ==
  ASSUME ProcessInv, [Next]_vars, NEW c \in Commands,
         command[c].step # "idle", command'[c].step = "idle"
  PROVE  Ends(c)
<1>1. command \in [Commands -> Command]
  BY Knows
<1>2. ASSUME NEW d \in Commands,
             Begin(d, "start: read") \/ Begin(d, "stop: read") \/ Start(d) \/ Stop(d)
      PROVE  Ends(c)
  <2>1. CASE d # c
    BY <1>1, <1>2, <2>1, OthersStay
  <2>2. CASE d = c
    <3>1. ~(Begin(c, "start: read") \/ Begin(c, "stop: read"))
      BY DEF Begin, At
    <3> QED
      BY <1>1, <1>2, <2>2, <3>1, StartEnds, StopEnds
  <2> QED
    BY <2>1, <2>2
<1>3. ASSUME NEW p \in Pids, Serve(p) \/ Kill(p) PROVE FALSE
  <2>1. UNCHANGED command
    BY <1>3 DEF Serve, Listen, CloseServer, FinishClosing, Kill
  <2> QED
    BY <2>1
<1>4. ASSUME NEW strangers \in SUBSET Pids, Reboot(strangers) PROVE Ends(c)
  BY <1>4 DEF Reboot, Ends
<1>5. CASE UNCHANGED vars
  BY <1>5 DEF vars
<1> QED
  BY <1>2, <1>3, <1>4, <1>5 DEF Next

\* What a start and a stop report is so (proxy-commands.ts), of every step.
LEMMA ReportStep ==
  ASSUME ProcessInv, [Next]_vars, NEW c \in Commands, IsPatient
  PROVE  /\ SuccessIsTrue(c)
         /\ Reports(c, {"stopped", "not running"}) => \A p \in Pids : process'[p] \notin Proxy
<1>1. /\ port \in Pids \cup {None} /\ stateFile \in Pids \cup {None} /\ None \notin Pids
      /\ \A p \in Pids : port = p <=> process[p] \in {"serving", "draining"}
      /\ StepInv(c)
  BY Knows
<1>2. ASSUME Reports(c, {"started"})
      PROVE  port' = command[c].pid /\ stateFile' = command[c].pid
  <2>1. StartFetches(c) /\ port # None
    BY <1>2, CommandEndsItself DEF Reports, Ends
  <2>2. OwnsProxy(c, {"starting", "serving"}) /\ stateFile = command[c].pid
    BY <1>1, <2>1 DEF StartFetches, StepInv, AtAnyOf, At
  <2> QED
    BY <1>1, <2>1, <2>2 DEF StartFetches, OwnsProxy, Proxy
<1>3. ASSUME Reports(c, {"stopped", "not running"})
      PROVE  \A p \in Pids : process'[p] \notin Proxy
  <2>1. CASE StopReads(c) /\ stateFile = None
    BY <1>1, <2>1 DEF StopReads, StepInv, AtAnyOf, At, IsAtRest
  <2>2. CASE StopClears(c)
    BY <1>1, <2>2 DEF StopClears, StepInv, AtAnyOf, At, NoProxyLives
  <2> QED
    BY <1>3, <2>1, <2>2, CommandEndsItself DEF Reports, Ends
<1> QED
  BY <1>2, <1>3 DEF SuccessIsTrue

\* A start that reports success has started the process that answers and has saved its
\* pid; a stop that reports the proxy stopped, or not running, leaves none alive
\* (startProxyDaemon, stopProxy): while commands take turns and none gives up.
THEOREM ReportsHold == Spec => ReportsAreTrue
<1>1. ProcessInv /\ [Next]_vars
        => [IsPatient => \A c \in Commands : SuccessIsTrue(c)]_vars
  BY ReportStep
<1>2. ProcessInv /\ [Next]_vars
        => [\A c \in Commands : IsPatient /\ Reports(c, {"stopped", "not running"}) =>
              \A p \in Pids : process'[p] \notin Proxy]_vars
  BY ReportStep
<1> QED
  BY <1>1, <1>2, ProcessesAreTracked, PTL
  DEF Spec, ReportsAreTrue, StartedProxyAnswers, StopLeavesNoProxy

\* A process of another program that has got the pid in a stale state file is never
\* signalled, and never taken for a running proxy (isProxyHealthy).
THEOREM StrangersAreSafe == Spec => StrangersAreLeftAlone
<1>1. ASSUME ProcessInv, [Next]_vars, NEW c \in Commands
      PROVE  /\ At(c, "stop: signal") /\ At(c, "stop: wait")'
                  => process[command[c].pid] # "stranger"
             /\ Reports(c, {"already running"}) => \E p \in Pids : process[p] \in Proxy
  <2>1. At(c, "stop: signal") => process[command[c].pid] # "stranger"
    BY <1>1, Knows DEF At, SignalIsMeant, AtAnyOf
  <2>2. ASSUME Reports(c, {"already running"}) PROVE \E p \in Pids : process[p] \in Proxy
    <3>1. StartChecks(c) /\ IsProxyHealthy(command[c].pid)
      BY <1>1, <2>2, CommandEndsItself DEF Reports, Ends
    <3>2. command[c].pid \in Pids
      BY <1>1, <3>1, Knows DEF StartChecks, At, SignalIsMeant, AtAnyOf
    <3>3. process[command[c].pid] \in Proxy
      BY <1>1, <3>1, <3>2, Knows DEF IsProxyHealthy, Proxy
    <3> QED
      BY <3>2, <3>3
  <2> QED
    BY <2>1, <2>2
<1>2. ProcessInv /\ [Next]_vars
        => [\A c \in Commands :
              /\ At(c, "stop: signal") /\ At(c, "stop: wait")'
                   => process[command[c].pid] # "stranger"
              /\ Reports(c, {"already running"}) => \E p \in Pids : process[p] \in Proxy]_vars
  BY <1>1
<1> QED
  BY <1>2, ProcessesAreTracked, PTL DEF Spec, StrangersAreLeftAlone
-----------------------------------------------------------------------------
(***************************************************************************)
(* What a caller of these commands may rely on (`token-profiler daemon`).  *)
(***************************************************************************)

\* What has given up, or overlapped, stays so.
LEMMA PatienceStays == ProcessInv /\ [Next]_vars /\ IsPatient' => IsPatient
<1> SUFFICES ASSUME ProcessInv, [Next]_vars, IsPatient' PROVE IsPatient
  OBVIOUS
<1> USE DaemonAssumption DEF IsPatient, IsInTurn
<1>1. mishaps \in Mishaps
  BY DEF ProcessInv, TypeOK, Mishaps
<1>2. mishaps.overlaps \in Nat /\ mishaps.starts \in Nat /\ mishaps.stops \in Nat
  BY <1>1 DEF Mishaps
<1>3. ASSUME NEW c \in Commands, NEW step, Begin(c, step) PROVE IsPatient
  <2>1. mishaps'.overlaps = mishaps.overlaps + (IF IsBusy THEN 1 ELSE 0)
        /\ mishaps'.starts = mishaps.starts /\ mishaps'.stops = mishaps.stops
    BY <1>1, <1>3 DEF Begin, Mishaps
  <2> QED
    BY <1>2, <2>1
<1>4. ASSUME UNCHANGED mishaps PROVE IsPatient
  BY <1>4
<1>5. ASSUME NEW what \in {"starts", "stops", "kills", "reboots"}, Count(what) PROVE IsPatient
  <2>1. mishaps'.overlaps = mishaps.overlaps /\ mishaps'.starts >= mishaps.starts
        /\ mishaps'.stops >= mishaps.stops
    BY <1>1, <1>2, <1>5 DEF Count, Mishaps
  <2> QED
    BY <1>2, <2>1
<1>6. ASSUME NEW c \in Commands, Start(c) PROVE IsPatient
  BY <1>4, <1>5, <1>6
  DEF Start, StartReads, StartChecks, StartClears, StartSpawns, StartRecords, StartPolls,
      StartFetches, StartTimesOut, StartRetracts
<1>7. ASSUME NEW c \in Commands, Stop(c) PROVE IsPatient
  BY <1>4, <1>5, <1>7
  DEF Stop, StopReads, StopChecks, StopSignals, StopSeesExit, StopTimesOut, StopClears
<1>8. ASSUME NEW p \in Pids, Serve(p) \/ Kill(p) PROVE IsPatient
  BY <1>4, <1>5, <1>8 DEF Serve, Listen, CloseServer, FinishClosing, Kill
<1>9. ASSUME NEW strangers \in SUBSET Pids, Reboot(strangers) PROVE IsPatient
  BY <1>5, <1>9 DEF Reboot
<1> QED
  BY <1>3, <1>4, <1>6, <1>7, <1>8, <1>9 DEF Next, vars

\* Between commands a proxy does nothing of itself but serve.
LEMMA RestIsQuiet ==
  ASSUME ProcessInv, IsPatient, ~IsBusy, NEW p \in Pids
  PROVE  ~Serve(p)
<1>1. IsAtRest
  BY DEF ProcessInv, StepsAreInformed
<1> QED
  BY <1>1 DEF IsAtRest, Serve, Listen, CloseServer, FinishClosing, Proxy

\* A start that finds a proxy, or has one answer, leaves it on the port and in the file.
LEMMA FoundProxyIsTracked ==
  ASSUME ProcessInv, [Next]_vars, NEW c \in Commands, IsPatient,
         Reports(c, {"started", "already running"})
  PROVE  port' # None /\ stateFile' = port'
<1>1. /\ port \in Pids \cup {None} /\ stateFile \in Pids \cup {None} /\ None \notin Pids
      /\ \A p \in Pids : port = p <=> process[p] \in {"serving", "draining"}
      /\ StepInv(c)
  BY Knows
<1>2. CASE Reports(c, {"started"})
  <2>1. StartFetches(c) /\ port # None
    BY <1>2, CommandEndsItself DEF Reports, Ends
  <2> QED
    BY <1>2, <2>1, ReportStep DEF SuccessIsTrue, StartFetches
<1>3. CASE Reports(c, {"already running"})
  <2>1. StartChecks(c) /\ IsProxyHealthy(command[c].pid)
    BY <1>3, CommandEndsItself DEF Reports, Ends
  <2>2. command[c].pid \in Pids
    BY <2>1, Knows DEF StartChecks, At, SignalIsMeant, AtAnyOf
  <2>3. IsAtRest
    BY <1>1, <2>1 DEF StartChecks, StepInv, AtAnyOf, At
  <2> QED
    BY <1>1, <2>1, <2>2, <2>3 DEF StartChecks, IsProxyHealthy, IsAtRest, Proxy
<1> QED
  BY <1>2, <1>3 DEF Reports

=============================================================================
