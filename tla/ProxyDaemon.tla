----------------------------- MODULE ProxyDaemon -----------------------------
(***************************************************************************)
(* `token-profiler proxy start` and `proxy stop`, the background process   *)
(* `proxy serve` they control, and proxy-state.json, the file that is all  *)
(* they know of it (src/surfaces/cli/proxy-commands.ts).                   *)
(*                                                                         *)
(* A command gives control back at each await, so the steps of the process *)
(* and of other commands come between any two of its own.  What the proxy  *)
(* does with requests is LiveProxy; here a process only starts, listens,   *)
(* drains and ends.                                                        *)
(***************************************************************************)
EXTENDS Naturals, FiniteSets

CONSTANTS
  Commands,       \* slots for commands: as many run at the same time
  Pids,           \* process ids of the proxies, used once each, one per start
  MaxCommands,    \* bound on the commands issued
  MaxOverlaps,    \* bound on commands issued while another one runs
  MaxSlowStarts,  \* bound on starts that give up on a process that is alive
  MaxSlowStops,   \* bound on stops that give up on a process that is draining
  MaxKills,       \* bound on proxies that crash or are killed
  MaxReboots,     \* bound on restarts of the machine
  None

ASSUME DaemonAssumption ==
  /\ None \notin Pids
  /\ MaxCommands \in Nat /\ MaxOverlaps \in Nat /\ MaxSlowStarts \in Nat /\ MaxSlowStops \in Nat
  /\ MaxKills \in Nat /\ MaxReboots \in Nat

VARIABLES
  process,    \* the life of the process of each pid
  port,       \* the process that listens on the port of the proxy, or None
  stateFile,  \* the pid in proxy-state.json, or None when there is no file
  command,    \* each command: its step, the pid it works on, how it ended
  mishaps     \* the bounded steps, counted

vars == <<process, port, stateFile, command, mishaps>>

(***************************************************************************)
(* A proxy holds its port while it serves and while it drains, that is     *)
(* waits for observations; it gives the port up when it is closing, that   *)
(* is waits for its connections to end.  A stranger is a process of        *)
(* another program that has got the pid of a proxy that is gone.           *)
(***************************************************************************)
Proxy == {"starting", "serving", "draining", "closing"}
Lives == {"unborn", "exited", "stranger"} \cup Proxy

IsProcessRunning(p) == process[p] \in Proxy \cup {"stranger"}

\* Slip: the pid of the answer is not compared with the saved one.
IsProxyRunning(p) == IsProcessRunning(p)

\* The health endpoint answers, and answers with the saved pid.
IsProxyHealthy(p) == IsProcessRunning(p) /\ port = p

Steps == {"idle", "start: read", "start: check", "start: clear", "start: spawn",
          "start: record", "start: wait", "start: fetch", "start: retract",
          "stop: read", "stop: check", "stop: signal", "stop: wait", "stop: clear"}

Outcomes == {"none", "started", "already running", "did not start", "stopped",
             "not running", "did not stop", "no such process"}

Init ==
  /\ process = [p \in Pids |-> "unborn"]
  /\ port = None
  /\ stateFile = None
  /\ command = [c \in Commands |-> [step |-> "idle", pid |-> None, outcome |-> "none"]]
  /\ mishaps = [commands |-> 0, overlaps |-> 0, starts |-> 0, stops |-> 0, kills |-> 0, reboots |-> 0]

Count(what) == mishaps' = [mishaps EXCEPT ![what] = @ + 1]

At(c, step) == command[c].step = step

Go(c, step, p) == command' = [command EXCEPT ![c].step = step, ![c].pid = p]

End(c, outcome) == command' = [command EXCEPT ![c].step = "idle", ![c].outcome = outcome]

-----------------------------------------------------------------------------
(***************************************************************************)
(* startProxyDaemon.                                                       *)
(***************************************************************************)
IsBusy == \E c \in Commands : ~At(c, "idle")

Begin(c, step) ==
  /\ At(c, "idle")
  /\ mishaps.commands < MaxCommands /\ (IsBusy => mishaps.overlaps < MaxOverlaps)
  /\ mishaps' = [mishaps EXCEPT !.commands = @ + 1, !.overlaps = @ + IF IsBusy THEN 1 ELSE 0]
  /\ command' = [command EXCEPT ![c] = [step |-> step, pid |-> None, outcome |-> "none"]]
  /\ UNCHANGED <<process, port, stateFile>>

StartReads(c) ==
  /\ At(c, "start: read")
  /\ Go(c, IF stateFile = None THEN "start: spawn" ELSE "start: check", stateFile)
  /\ UNCHANGED <<process, port, stateFile, mishaps>>

StartChecks(c) ==
  /\ At(c, "start: check")
  /\ IF IsProxyHealthy(command[c].pid) THEN End(c, "already running")
     ELSE Go(c, "start: clear", None)
  /\ UNCHANGED <<process, port, stateFile, mishaps>>

StartClears(c) ==
  /\ At(c, "start: clear")
  /\ stateFile' = None
  /\ Go(c, "start: spawn", None)
  /\ UNCHANGED <<process, port, mishaps>>

StartSpawns(c, p) ==
  /\ At(c, "start: spawn") /\ process[p] = "unborn"
  /\ process' = [process EXCEPT ![p] = "starting"]
  /\ Go(c, "start: record", p)
  /\ UNCHANGED <<port, stateFile, mishaps>>

StartRecords(c) ==
  /\ At(c, "start: record")
  /\ stateFile' = command[c].pid
  /\ Go(c, "start: wait", command[c].pid)
  /\ UNCHANGED <<process, port, mishaps>>

\* One round of the ready check: is the child alive, then does the port answer.
\* It does not ask who answers.
StartPolls(c) ==
  /\ At(c, "start: wait") /\ IsProcessRunning(command[c].pid)
  /\ Go(c, "start: fetch", command[c].pid)
  /\ UNCHANGED <<process, port, stateFile, mishaps>>

\* Slip: a child that is alive is ready.
StartFetchesNothing(c) ==
  /\ At(c, "start: fetch")
  /\ End(c, "started")
  /\ UNCHANGED <<process, port, stateFile, mishaps>>

StartFetches(c) ==
  /\ At(c, "start: fetch")
  /\ IF port # None THEN End(c, "started") ELSE Go(c, "start: wait", command[c].pid)
  /\ UNCHANGED <<process, port, stateFile, mishaps>>

\* Three seconds have passed: because the child is gone, or it is slow.
StartTimesOut(c) ==
  /\ At(c, "start: wait")
  /\ \/ ~IsProcessRunning(command[c].pid) /\ UNCHANGED mishaps
     \/ /\ IsProcessRunning(command[c].pid)
        /\ mishaps.starts < MaxSlowStarts /\ Count("starts")
  /\ Go(c, "start: retract", command[c].pid)
  /\ UNCHANGED <<process, port, stateFile>>

\* The file is removed; a child that is only slow is left alone.
StartRetracts(c) ==
  /\ At(c, "start: retract")
  /\ stateFile' = None
  /\ End(c, "did not start")
  /\ UNCHANGED <<process, port, mishaps>>

-----------------------------------------------------------------------------
(***************************************************************************)
(* `proxy stop`.                                                           *)
(***************************************************************************)
StopReads(c) ==
  /\ At(c, "stop: read")
  /\ IF stateFile = None THEN End(c, "not running") ELSE Go(c, "stop: check", stateFile)
  /\ UNCHANGED <<process, port, stateFile, mishaps>>

StopChecks(c) ==
  /\ At(c, "stop: check")
  /\ IF IsProxyHealthy(command[c].pid) THEN Go(c, "stop: signal", command[c].pid)
     ELSE Go(c, "stop: clear", None)
  /\ UNCHANGED <<process, port, stateFile, mishaps>>

\* SIGTERM runs the stop handler of a serving proxy once; with no handler, before
\* it listens or after the first signal, it ends the process.
Terminated(p) == IF process[p] = "serving" THEN "draining" ELSE "exited"

StopSignals(c) ==
  /\ At(c, "stop: signal")
  /\ LET p == command[c].pid
     IN  IF IsProcessRunning(p)
         THEN /\ process' = [process EXCEPT ![p] = Terminated(p)]
              /\ port' = IF port = p /\ Terminated(p) = "exited" THEN None ELSE port
              /\ Go(c, "stop: wait", p)
         ELSE /\ End(c, "no such process")
              /\ UNCHANGED <<process, port>>
  /\ UNCHANGED <<stateFile, mishaps>>

\* Slip: stop does not wait for the process to end.
StopSeesSignal(c) ==
  /\ At(c, "stop: wait")
  /\ Go(c, "stop: clear", command[c].pid)
  /\ UNCHANGED <<process, port, stateFile, mishaps>>

\* Slip: stop waits for the handler of the process to have removed the file.
StopSeesFileGone(c) ==
  /\ At(c, "stop: wait") /\ stateFile = None
  /\ Go(c, "stop: clear", command[c].pid)
  /\ UNCHANGED <<process, port, stateFile, mishaps>>

StopSeesExit(c) ==
  /\ At(c, "stop: wait") /\ ~IsProcessRunning(command[c].pid)
  /\ Go(c, "stop: clear", command[c].pid)
  /\ UNCHANGED <<process, port, stateFile, mishaps>>

StopTimesOut(c) ==
  /\ At(c, "stop: wait") /\ IsProcessRunning(command[c].pid)
  /\ mishaps.stops < MaxSlowStops /\ Count("stops")
  /\ End(c, "did not stop")
  /\ UNCHANGED <<process, port, stateFile>>

StopClears(c) ==
  /\ At(c, "stop: clear")
  /\ stateFile' = None
  /\ End(c, IF command[c].pid = None THEN "not running" ELSE "stopped")
  /\ UNCHANGED <<process, port, mishaps>>

-----------------------------------------------------------------------------
(***************************************************************************)
(* `proxy serve`, and what befalls it.                                     *)
(***************************************************************************)

\* Listening fails when another process holds the port, and ends the process.
Listen(p) ==
  /\ process[p] = "starting"
  /\ process' = [process EXCEPT ![p] = IF port = None THEN "serving" ELSE "exited"]
  /\ port' = IF port = None THEN p ELSE port
  /\ UNCHANGED <<stateFile, command, mishaps>>

CloseServer(p) ==
  /\ process[p] = "draining"
  /\ process' = [process EXCEPT ![p] = "closing"]
  /\ port' = None
  /\ UNCHANGED <<stateFile, command, mishaps>>

\* The last connection has ended.  The handler removes the state file, whatever
\* process it names, and exits.
FinishClosing(p) ==
  /\ process[p] = "closing"
  /\ process' = [process EXCEPT ![p] = "exited"]
  /\ stateFile' = None
  /\ UNCHANGED <<port, command, mishaps>>

Kill(p) ==
  /\ process[p] \in Proxy
  /\ mishaps.kills < MaxKills /\ Count("kills")
  /\ process' = [process EXCEPT ![p] = "exited"]
  /\ port' = IF port = p THEN None ELSE port
  /\ UNCHANGED <<stateFile, command>>

\* The files are all that survives, and pids are given out anew.
Reboot(strangers) ==
  /\ mishaps.reboots < MaxReboots /\ Count("reboots")
  /\ \A p \in strangers : process[p] # "unborn"
  /\ process' = [p \in Pids |-> IF p \in strangers THEN "stranger"
                                ELSE IF process[p] = "unborn" THEN "unborn" ELSE "exited"]
  /\ port' = None
  /\ command' = [c \in Commands |-> [step |-> "idle", pid |-> None, outcome |-> "none"]]
  /\ UNCHANGED stateFile

Start(c) ==
  \/ StartReads(c) \/ StartChecks(c) \/ StartClears(c)
  \/ \E p \in Pids : StartSpawns(c, p)
  \/ StartRecords(c) \/ StartPolls(c) \/ StartFetches(c)
  \/ StartTimesOut(c) \/ StartRetracts(c)

Stop(c) ==
  \/ StopReads(c) \/ StopChecks(c) \/ StopSignals(c)
  \/ StopSeesExit(c) \/ StopTimesOut(c) \/ StopClears(c)

Serve(p) == Listen(p) \/ CloseServer(p) \/ FinishClosing(p)

Next ==
  \/ \E c \in Commands : \/ Begin(c, "start: read") \/ Begin(c, "stop: read")
                         \/ Start(c) \/ Stop(c)
  \/ \E p \in Pids : Serve(p) \/ Kill(p)
  \/ \E strangers \in SUBSET Pids : Reboot(strangers)

Spec == Init /\ [][Next]_vars

(***************************************************************************)
(* A command goes on when what it awaits has come, and a process that was  *)
(* started listens, drains and closes: LiveProxy shows when it can.        *)
(***************************************************************************)
FairSpec ==
  /\ Spec
  /\ \A c \in Commands : WF_vars(Start(c)) /\ WF_vars(Stop(c))
  /\ \A p \in Pids : WF_vars(Serve(p))

-----------------------------------------------------------------------------
(***************************************************************************)
(* Correctness.                                                            *)
(***************************************************************************)

\* Types of the variables; one process at most holds the port, and it is alive.
TypeOK ==
  /\ process \in [Pids -> Lives]
  /\ port \in Pids \cup {None}
  /\ \A p \in Pids : port = p <=> process[p] \in {"serving", "draining"}
  /\ stateFile \in Pids \cup {None}
  /\ command \in [Commands -> [step : Steps, pid : Pids \cup {None}, outcome : Outcomes]]
  /\ mishaps \in [commands : 0..MaxCommands, overlaps : 0..MaxOverlaps,
                  starts : 0..MaxSlowStarts, stops : 0..MaxSlowStops,
                  kills : 0..MaxKills, reboots : 0..MaxReboots]

\* No two commands have overlapped.  What the commands promise holds under this
\* only: two starts race for the state file, and one of their proxies is forgotten.
IsInTurn == mishaps.overlaps = 0

\* No command has given up on a process that was only slow either.
IsPatient == IsInTurn /\ mishaps.starts = 0 /\ mishaps.stops = 0

\* Between commands, a proxy that is alive is the one the state file names: it is
\* the only thing by which a later command can find it.
ProxyIsTracked ==
  IsPatient /\ ~IsBusy => \A p \in Pids : process[p] \in Proxy => stateFile = p

(***************************************************************************)
(* What a command knows at each of its steps, while commands are issued    *)
(* one after the other and none gives up: the invariant behind the above.  *)
(***************************************************************************)
AtAnyOf(c, steps) == command[c].step \in steps

NoProxyLives == \A p \in Pids : process[p] \notin Proxy

\* At rest, a proxy serves and is the one in the state file.
IsAtRest == \A p \in Pids : process[p] \in Proxy => process[p] = "serving" /\ stateFile = p

\* No proxy lives but that of the command, and it is where its life has brought it.
OwnsProxy(c, lives) ==
  \A p \in Pids : process[p] \in Proxy => p = command[c].pid /\ process[p] \in lives

StepInv(c) ==
  /\ AtAnyOf(c, {"start: read", "stop: read"}) => IsAtRest
  /\ AtAnyOf(c, {"start: check", "stop: check", "stop: signal"})
       => IsAtRest /\ OwnsProxy(c, {"serving"})
  /\ AtAnyOf(c, {"start: clear", "start: spawn", "start: retract", "stop: clear"})
       => NoProxyLives
  /\ AtAnyOf(c, {"start: record", "start: wait", "start: fetch"})
       => OwnsProxy(c, {"starting", "serving"})
  /\ AtAnyOf(c, {"start: wait", "start: fetch"}) => stateFile = command[c].pid
  /\ AtAnyOf(c, {"stop: wait"}) => OwnsProxy(c, Proxy)

CommandsTakeTurns ==
  IsInTurn => \A c, d \in Commands : ~At(c, "idle") /\ ~At(d, "idle") => c = d

StepsAreInformed ==
  IsPatient => (~IsBusy => IsAtRest) /\ \A c \in Commands : StepInv(c)

\* What is checked is a saved pid, and what is signalled has answered as the proxy.
SignalsAreMeant ==
  \A c \in Commands :
    /\ AtAnyOf(c, {"start: check", "stop: check", "stop: signal"}) => command[c].pid \in Pids
    /\ AtAnyOf(c, {"stop: signal"}) => process[command[c].pid] # "stranger"

\* Typed, no proxy alive that a later command could not find, and every command right
\* in what it takes for granted from one await to the next.
ProcessInv ==
  TypeOK /\ ProxyIsTracked /\ CommandsTakeTurns /\ StepsAreInformed /\ SignalsAreMeant

Reports(c, outcomes) ==
  command[c].step # "idle" /\ command'[c].step = "idle" /\ command'[c].outcome \in outcomes

SuccessIsTrue(c) ==
  Reports(c, {"started"}) => port' = command[c].pid /\ stateFile' = command[c].pid

\* A start that reports success has started the process that answers on the port,
\* and has saved its pid.
StartedProxyAnswers == [][IsPatient => \A c \in Commands : SuccessIsTrue(c)]_vars

\* What test/proxy-daemon.test.js says of a start and the code does not do: it holds
\* also when an earlier start gave up on a proxy that was only slow.
StartReportsItsOwnProxy == [][IsInTurn => \A c \in Commands : SuccessIsTrue(c)]_vars

\* A stop that reports the proxy stopped, or not running, leaves no proxy alive.
StopLeavesNoProxy ==
  [][\A c \in Commands : IsPatient /\ Reports(c, {"stopped", "not running"}) =>
       \A p \in Pids : process'[p] \notin Proxy]_vars

\* What a start and a stop report is so.
ReportsAreTrue == StartedProxyAnswers /\ StopLeavesNoProxy

\* A process of another program that has got the pid in a stale state file is
\* never signalled, and never taken for a running proxy.
StrangersAreLeftAlone ==
  [][\A c \in Commands :
       /\ At(c, "stop: signal") /\ At(c, "stop: wait")' => process[command[c].pid] # "stranger"
       /\ Reports(c, {"already running"}) => \E p \in Pids : process[p] \in Proxy]_vars

\* Every command ends, whatever the other commands and the processes do.
CommandsFinish == \A c \in Commands : ~At(c, "idle") ~> At(c, "idle")
=============================================================================
