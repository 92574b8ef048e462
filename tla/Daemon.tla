-------------------------------- MODULE Daemon --------------------------------
(***************************************************************************)
(* `token-profiler daemon start | ensure | stop`                           *)
(* (src/surfaces/cli/daemon-commands.ts): one command over three things    *)
(* that fail on their own, the routing of Codex (CodexRouting), the proxy  *)
(* process (ProxyDaemon) and the dashboard API process, which is here.     *)
(*                                                                         *)
(* Users run one command at a time, and processes crash and machines       *)
(* restart between two commands: what happens during one is the subject    *)
(* of the two modules this one composes.                                   *)
(***************************************************************************)
EXTENDS Naturals, Sequences, FiniteSets

CONSTANTS
  Providers, Managed, Urls, Documents, Extra, MaxEdits, MaxDeaths,
  Pids, MaxCommands, MaxOverlaps, MaxSlowStarts, MaxSlowStops, MaxKills, MaxReboots,
  DashboardPids,  \* process ids of the dashboard API, used once each
  MaxDaemons,     \* bound on the daemon commands issued
  MaxCrashes,     \* bound on dashboard processes that crash
  MaxStrays,      \* bound on dashboards that no command records, between two reboots
  None

VARIABLES
  config, saved, codexCommand, codexOutcome, own, edits, deaths,  \* CodexRouting
  process, port, stateFile, proxyCommand, mishaps,                \* ProxyDaemon
  dashboard,   \* the life of the process of each dashboard pid
  daemonFile,  \* the dashboard pid in daemon-state.json, or None
  strays,      \* the dashboards that no command records: one that a start gave up
               \* on, and one that the user serves by hand
  daemon,      \* the running daemon command: what it does, where it is
  issued, crashes

routingVars == <<config, saved, codexCommand, codexOutcome, own, edits, deaths>>
proxyVars == <<process, port, stateFile, proxyCommand, mishaps>>
dashboardVars == <<dashboard, daemonFile, strays>>
vars == <<routingVars, proxyVars, dashboardVars, daemon, issued, crashes>>

Slot == "the command"

Routing == INSTANCE CodexRouting WITH command <- codexCommand, outcome <- codexOutcome
Proxy == INSTANCE ProxyDaemon WITH command <- proxyCommand, Commands <- {Slot}

ASSUME DaemonsAssumption ==
  /\ Routing!RoutingAssumption /\ Proxy!DaemonAssumption
  /\ None \notin DashboardPids
  /\ MaxDaemons \in Nat /\ MaxCrashes \in Nat /\ MaxStrays \in Nat

ProxyOutcome == proxyCommand[Slot].outcome
ProxyIsIdle == proxyCommand[Slot].step = "idle"

Operations == {"start", "ensure", "stop", "stop --keep-codex-routing"}
IsStop(op) == op \in {"stop", "stop --keep-codex-routing"}

Steps == {"idle", "routing", "proxy", "dashboard", "ready", "fetch", "record"}

\* A dashboard boots, and serves when it has got the port, which one at a time has.
\* A stranger is another program that a reboot gave the pid.
Lives == {"unborn", "booting", "serving", "exited", "stranger"}

Alive(d) == dashboard[d] \in {"booting", "serving"}
IsRunning(d) == d # None /\ (Alive(d) \/ dashboard[d] = "stranger")
Serving == {d \in DashboardPids : dashboard[d] = "serving"}

Init ==
  /\ Routing!Init
  /\ Proxy!Init
  /\ dashboard = [d \in DashboardPids |-> "unborn"]
  /\ daemonFile = None
  /\ strays = {}
  /\ daemon = [step |-> "idle", op |-> "none", pid |-> None, outcome |-> "none"]
  /\ issued = 0 /\ crashes = 0

At(step) == daemon.step = step

Goto(step) == daemon' = [daemon EXCEPT !.step = step]
GotoWith(step, d) == daemon' = [daemon EXCEPT !.step = step, !.pid = d]
End(outcome) == daemon' = [daemon EXCEPT !.step = "idle", !.outcome = outcome]

IsIdle == At("idle") /\ Routing!IsIdle /\ ProxyIsIdle

Issue(op, step) ==
  /\ IsIdle
  /\ issued < MaxDaemons /\ issued' = issued + 1
  /\ daemon' = [step |-> step, op |-> op, pid |-> None, outcome |-> "none"]
  /\ UNCHANGED <<dashboardVars, crashes>>

-----------------------------------------------------------------------------
(***************************************************************************)
(* startDaemon: first the proxy, then the dashboard.                       *)
(***************************************************************************)
StartDaemon(op) ==
  /\ op \in {"start", "ensure"}
  /\ Issue(op, "proxy")
  /\ Proxy!Begin(Slot, "start: read")
  /\ UNCHANGED routingVars

\* ensureProxy: a proxy that runs already is what ensure asks for.
EnsureProxy ==
  /\ At("proxy") /\ ~IsStop(daemon.op) /\ ProxyIsIdle
  /\ IF \/ ProxyOutcome = "started"
        \/ ProxyOutcome = "already running" /\ daemon.op = "ensure"
     THEN Goto("dashboard") ELSE End("failed")
  /\ UNCHANGED <<routingVars, proxyVars, dashboardVars, issued, crashes>>

\* Slip: a dashboard with a pid in the file is taken to run.
EnsureDashboardRecorded ==
  /\ At("dashboard") /\ ~IsStop(daemon.op)
  /\ \/ /\ daemonFile # None
        /\ IF daemon.op = "ensure" THEN GotoWith("record", daemonFile) ELSE End("failed")
        /\ UNCHANGED dashboard
     \/ /\ daemonFile = None
        /\ \E d \in DashboardPids :
             /\ dashboard[d] = "unborn"
             /\ dashboard' = [dashboard EXCEPT ![d] = "booting"]
             /\ GotoWith("ready", d)
  /\ UNCHANGED <<routingVars, proxyVars, daemonFile, strays, issued, crashes>>

\* ensureDashboardApi: a process with the pid in the file is taken to be it.
EnsureDashboard ==
  /\ At("dashboard") /\ ~IsStop(daemon.op)
  /\ \/ /\ IsRunning(daemonFile)
        /\ IF daemon.op = "ensure" THEN GotoWith("record", daemonFile) ELSE End("failed")
        /\ UNCHANGED dashboard
     \/ /\ ~IsRunning(daemonFile)
        /\ \E d \in DashboardPids :
             /\ dashboard[d] = "unborn"
             /\ dashboard' = [dashboard EXCEPT ![d] = "booting"]
             /\ GotoWith("ready", d)
  /\ UNCHANGED <<routingVars, proxyVars, daemonFile, strays, issued, crashes>>

\* The wait for the new dashboard: it must run, and then the port must answer, which
\* is not to say that the new dashboard answers.
DashboardPolls ==
  /\ At("ready") /\ IsRunning(daemon.pid)
  /\ Goto("fetch")
  /\ UNCHANGED <<routingVars, proxyVars, dashboardVars, issued, crashes>>

\* Slip: a dashboard that runs is taken to be ready.
DashboardAnswersNothing ==
  /\ At("fetch")
  /\ Goto("record")
  /\ UNCHANGED <<routingVars, proxyVars, dashboardVars, issued, crashes>>

DashboardAnswers ==
  /\ At("fetch")
  /\ Goto(IF Serving # {} THEN "record" ELSE "ready")
  /\ UNCHANGED <<routingVars, proxyVars, dashboardVars, issued, crashes>>

\* Three seconds pass: the start fails, and a dashboard that is only slow goes on.
DashboardTimesOut ==
  /\ At("ready")
  /\ \/ /\ Alive(daemon.pid) /\ Cardinality(strays) < MaxStrays
        /\ strays' = strays \cup {daemon.pid}
     \/ /\ ~Alive(daemon.pid)
        /\ UNCHANGED strays
  /\ End("failed")
  /\ UNCHANGED <<routingVars, proxyVars, dashboard, daemonFile, issued, crashes>>

WriteDaemonState ==
  /\ At("record") /\ ~IsStop(daemon.op)
  /\ daemonFile' = daemon.pid
  /\ End("running")
  /\ UNCHANGED <<routingVars, proxyVars, dashboard, strays, issued, crashes>>

-----------------------------------------------------------------------------
(***************************************************************************)
(* stopDaemon: first the routing, then the dashboard, last the proxy.      *)
(***************************************************************************)

\* Slip: the services go first, and the routing when they are gone.
StopDaemonServicesFirst(op) ==
  /\ IsStop(op)
  /\ Issue(op, "dashboard")
  /\ UNCHANGED <<routingVars, proxyVars>>

StopDaemon(op) ==
  /\ IsStop(op)
  /\ \/ /\ op = "stop" /\ Issue(op, "routing")
        /\ Routing!DisableReads
     \/ /\ op # "stop" /\ Issue(op, "dashboard")
        /\ UNCHANGED routingVars
  /\ UNCHANGED proxyVars

\* A routing that was never enabled is fine; any other failure ends the command.
DisableCodexRouting ==
  /\ At("routing") /\ Routing!IsIdle
  /\ IF codexOutcome \in {"disabled", "not enabled"} THEN Goto("dashboard")
     ELSE End("failed")
  /\ UNCHANGED <<routingVars, proxyVars, dashboardVars, issued, crashes>>

\* The process with the pid in the file is ended, whatever it is; a dashboard has no
\* signal handler, so SIGTERM ends it at once.
StopDashboard ==
  /\ At("dashboard") /\ IsStop(daemon.op)
  /\ dashboard' = [d \in DashboardPids |->
                     IF d = daemonFile /\ IsRunning(d) THEN "exited" ELSE dashboard[d]]
  /\ Goto("proxy")
  /\ Proxy!Begin(Slot, "stop: read")
  /\ UNCHANGED <<routingVars, daemonFile, strays, issued, crashes>>

\* Another program that has got the pid need not end: after three seconds the command
\* does.
StopDashboardTimesOut ==
  /\ At("dashboard") /\ IsStop(daemon.op)
  /\ daemonFile # None /\ dashboard[daemonFile] = "stranger"
  /\ End("failed")
  /\ UNCHANGED <<routingVars, proxyVars, dashboardVars, issued, crashes>>

StopProxy ==
  /\ At("proxy") /\ IsStop(daemon.op) /\ ProxyIsIdle
  /\ IF ProxyOutcome \in {"stopped", "not running"} THEN Goto("record") ELSE End("failed")
  /\ UNCHANGED <<routingVars, proxyVars, dashboardVars, issued, crashes>>

RemoveDaemonState ==
  /\ At("record") /\ IsStop(daemon.op)
  /\ daemonFile' = None
  /\ End("stopped")
  /\ UNCHANGED <<routingVars, proxyVars, dashboard, strays, issued, crashes>>

-----------------------------------------------------------------------------
(***************************************************************************)
(* What goes on around the daemon commands.                                *)
(***************************************************************************)

\* The steps of the commands the daemon runs, and of the proxy process.
SubStep ==
  \/ /\ At("routing") /\ Routing!DisableWrites
     /\ UNCHANGED <<proxyVars, dashboardVars, daemon, issued, crashes>>
  \/ /\ \/ At("proxy") /\ (Proxy!Start(Slot) \/ Proxy!Stop(Slot))
        \/ \E p \in Pids : Proxy!Serve(p)
     /\ UNCHANGED <<routingVars, dashboardVars, daemon, issued, crashes>>

\* The user enables and disables the routing alone, and edits the config.
UserStep ==
  /\ At("idle") /\ ProxyIsIdle
  /\ Routing!Next
  /\ UNCHANGED <<proxyVars, dashboardVars, daemon, issued, crashes>>

ProxyCrashes ==
  /\ IsIdle
  /\ \E p \in Pids : Proxy!Kill(p)
  /\ UNCHANGED <<routingVars, dashboardVars, daemon, issued, crashes>>

\* startDashboardApiServer: the port is had, or another dashboard has it and the
\* process ends on the error.
DashboardListens(d) ==
  /\ dashboard[d] = "booting"
  /\ dashboard' = [dashboard EXCEPT ![d] = IF Serving = {} THEN "serving" ELSE "exited"]
  /\ UNCHANGED <<routingVars, proxyVars, daemonFile, strays, daemon, issued, crashes>>

\* `token-profiler dashboard-api serve`, in a terminal of the user.
ServeByHand(d) ==
  /\ IsIdle /\ dashboard[d] = "unborn"
  /\ Cardinality(strays) < MaxStrays
  /\ dashboard' = [dashboard EXCEPT ![d] = "booting"]
  /\ strays' = strays \cup {d}
  /\ UNCHANGED <<routingVars, proxyVars, daemonFile, daemon, issued, crashes>>

\* Between two commands, and while one waits for the new dashboard.
DashboardCrashes(d) ==
  /\ IsIdle \/ daemon.step \in {"ready", "fetch"}
  /\ Alive(d) /\ crashes < MaxCrashes
  /\ crashes' = crashes + 1
  /\ dashboard' = [dashboard EXCEPT ![d] = "exited"]
  /\ UNCHANGED <<routingVars, proxyVars, daemonFile, strays, daemon, issued>>

Reboot(strangers) ==
  /\ IsIdle
  /\ Proxy!Reboot({})
  /\ \A d \in strangers : dashboard[d] # "unborn"
  /\ dashboard' = [d \in DashboardPids |->
                     IF d \in strangers THEN "stranger"
                     ELSE IF dashboard[d] = "unborn" THEN "unborn" ELSE "exited"]
  /\ strays' = {}
  /\ UNCHANGED <<routingVars, daemonFile, daemon, issued, crashes>>

Next ==
  \/ \E op \in Operations : StartDaemon(op) \/ StopDaemon(op)
  \/ EnsureProxy \/ EnsureDashboard \/ WriteDaemonState
  \/ DashboardPolls \/ DashboardAnswers \/ DashboardTimesOut
  \/ DisableCodexRouting \/ StopDashboard \/ StopDashboardTimesOut
  \/ StopProxy \/ RemoveDaemonState
  \/ SubStep \/ UserStep \/ ProxyCrashes
  \/ \E d \in DashboardPids : DashboardListens(d) \/ ServeByHand(d) \/ DashboardCrashes(d)
  \/ \E strangers \in SUBSET DashboardPids : Reboot(strangers)

Spec == Init /\ [][Next]_vars

-----------------------------------------------------------------------------
(***************************************************************************)
(* Correctness.                                                            *)
(***************************************************************************)

\* Types of the variables of this module.
TypeOK ==
  /\ dashboard \in [DashboardPids -> Lives]
  /\ daemonFile \in DashboardPids \cup {None}
  /\ strays \in SUBSET DashboardPids
  /\ daemon \in [step : Steps, op : Operations \cup {"none"},
                 pid : DashboardPids \cup {None},
                 outcome : {"none", "running", "stopped", "failed"}]
  /\ issued \in 0..MaxDaemons /\ crashes \in 0..MaxCrashes

(***************************************************************************)
(* What a daemon command knows at each of its steps, of the services and   *)
(* of the routing: the invariant behind what it reports.                   *)
(***************************************************************************)

\* A dashboard that is alive is a stray, or the one in the state file, or the one that
\* the command is about to record; a stop that has come to the proxy has left none
\* alive but the strays.
DashboardIsTracked ==
  \A d \in DashboardPids \ strays : Alive(d) =>
    IF daemon.step \in {"ready", "fetch", "record"} /\ ~IsStop(daemon.op)
    THEN d = daemon.pid
    ELSE d = daemonFile /\ ~(daemon.step \in {"proxy", "record"} /\ IsStop(daemon.op))

StrayServes == strays \cap Serving # {}

\* The pid in the state file is that of a process which was up when the port answered:
\* of a dashboard that serves, or of one that boots when the answer was a stray's. A
\* pid about to be recorded still has the process, or a stray serves in its place.
RecordedDashboardRuns ==
  /\ daemonFile # None =>
       /\ dashboard[daemonFile] # "unborn"
       /\ dashboard[daemonFile] = "booting" => strays # {}
  /\ daemon.step \in {"ready", "fetch"} => ~IsStop(daemon.op)
  /\ daemon.step \in {"ready", "fetch", "record"} /\ ~IsStop(daemon.op) =>
       daemon.pid \in DashboardPids /\ dashboard[daemon.pid] # "unborn"
  /\ At("record") /\ ~IsStop(daemon.op) =>
       \/ dashboard[daemon.pid] \in {"serving", "stranger"}
       \/ dashboard[daemon.pid] = "booting" /\ strays # {}
       \/ StrayServes

ProxySays(outcomes) == At("proxy") /\ ProxyIsIdle /\ ProxyOutcome \in outcomes

\* What the proxy command has said stays so until the daemon command ends.
ProxyStaysAsReported ==
  Proxy!IsPatient =>
    /\ /\ ~IsStop(daemon.op)
       /\ \/ ProxySays({"started", "already running"})
          \/ daemon.step \in {"dashboard", "ready", "fetch", "record"}
       => port # None /\ stateFile = port
    /\ IsStop(daemon.op) /\ (ProxySays({"stopped", "not running"}) \/ At("record"))
       => Proxy!NoProxyLives

\* A stop comes to the services when Codex is on a provider of the user.
RoutingGoesFirst ==
  /\ At("routing") => daemon.op = "stop"
  /\ deaths = 0 /\ daemon.op = "stop" /\ daemon.step \in {"dashboard", "proxy", "record"}
       => ~Routing!IsRouted(config)

\* Typed, and right in what the commands take for granted from one step to the next.
DaemonInv ==
  /\ TypeOK
  /\ ~At("proxy") => ProxyIsIdle
  /\ DashboardIsTracked /\ RecordedDashboardRuns
  /\ ProxyStaysAsReported /\ RoutingGoesFirst

Reports(outcome) == ~At("idle") /\ At("idle")' /\ daemon'.outcome = outcome

ProxyAlive == \E p \in Pids : process[p] \in Proxy!Proxy
DashboardAlive == \E d \in DashboardPids : Alive(d)

\* A start or an ensure that reports the daemon running leaves a proxy on the port and
\* a dashboard that serves, found again by the state files, whatever was there before.
\* With a stray about, the dashboard in the file may still boot, or the stray serves in
\* its place; a dashboard pid that another program has got is taken for a dashboard;
\* and a proxy that an earlier start gave up on can hold the port.
EnsuredServicesRun ==
  [][/\ Reports("running") /\ Proxy!IsPatient
     /\ \A d \in DashboardPids : dashboard[d] # "stranger"
     =>
       /\ port' # None /\ stateFile' = port'
       /\ daemonFile' # None /\ (Alive(daemonFile)' \/ StrayServes')
       /\ strays = {} => dashboard'[daemonFile'] = "serving"]_vars

\* What a start says of its dashboard, and what need not be so: the dashboard in the
\* state file serves, though another one is about that no command recorded.
RecordedDashboardServes ==
  [][Reports("running") /\ (\A d \in DashboardPids : dashboard[d] # "stranger") =>
       dashboard'[daemonFile'] = "serving"]_vars

\* A stop that reports the daemon stopped leaves neither service alive, and leaves
\* Codex on its own provider unless it was told to keep the routing: the proxy, if no
\* command gave up on a slow one, the dashboard, if it is no stray, the provider, if no
\* codex command died.
StoppedDaemonIsGone ==
  [][Reports("stopped") =>
       /\ Proxy!IsPatient => ~ProxyAlive'
       /\ \A d \in DashboardPids : Alive(d)' => d \in strays
       /\ daemon.op = "stop" /\ deaths = 0 => ~Routing!IsRouted(config')]_vars

\* What the daemon commands report is so.
DaemonReportsAreTrue == EnsuredServicesRun /\ StoppedDaemonIsGone

\* The daemon never ends the proxy under a Codex that is still routed to it, unless
\* it was told to: the routing is restored before any service is stopped, if no codex
\* command died.
ProxyOutlivesRouting ==
  [][\A p \in Pids :
       /\ process[p] = "serving" /\ process'[p] # "serving"
       /\ daemon.op = "stop" /\ ~At("idle") /\ deaths = 0
       => ~Routing!IsRouted(config)]_vars

\* What docs/privacy-and-trust.md says of `daemon stop` and the code does not do: at
\* the end of the command the services are stopped, if none of them is slow to.
StopStopsServices ==
  [][daemon.op = "stop" /\ ~At("idle") /\ At("idle")' =>
       ~ProxyAlive' /\ ~DashboardAlive']_vars
=============================================================================
