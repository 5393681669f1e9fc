---------------------------- MODULE AgentProofs ----------------------------
(***************************************************************************)
(* Agent for any number of Envoy processes and /watch streams, any set of  *)
(* faults, with Envoy managed or not: the control plane outlives Envoy,    *)
(* and an exit without an error has released everything.  What             *)
(* EnvoyManagerProofs shows of the manager alone carries over, because     *)
(* whatever the agent does is a step of the manager or none of its         *)
(* business.                                                               *)
(***************************************************************************)
EXTENDS Agent, TLAPS

Manager == INSTANCE EnvoyManagerProofs WITH Faults <- EnvoyFaults

-----------------------------------------------------------------------------
(* The manager inside the agent.                                           *)

\* A step of the agent lets the manager do one of its own, or nothing.
LEMMA AgentStepIsManagerStep == [Next]_vars => [Envoy!Next]_envoyVars
<1> SUFFICES ASSUME [Next]_vars PROVE Envoy!Next \/ UNCHANGED envoyVars
  OBVIOUS
<1>1. CASE StartEnvoy \/ Signal \/ EnvoyStep \/ StopEnvoy
  BY <1>1 DEF StartEnvoy, Signal, EnvoyStep, StopEnvoy, Envoy!Next
<1>2. CASE StartStep /\ ~StartEnvoy
  BY <1>2 DEF StartStep, StartRegistry, StartXDS, PublishEmpty, StartFails, Spawn
<1>3. CASE ShutdownStep /\ ~StopEnvoy
  BY <1>3 DEF ShutdownStep, StopAdmin, StopRegistry, StopDNS, StopXDS, StopTelemetry
<1>4. CASE ServeDNS \/ Serve \/ Strand \/ Reap \/ OpenWatch \/ CloseWatch \/ AdsConnects \/ AdsBreaks
             \/ SecondSignal \/ Deadline
  BY <1>4 DEF ServeDNS, Serve, Strand, Reap, OpenWatch, CloseWatch, AdsConnects, AdsBreaks,
              SecondSignal, Deadline
<1>5. CASE UNCHANGED vars
  BY <1>5 DEF vars, envoyVars
<1> QED
  BY <1>1, <1>2, <1>3, <1>4, <1>5 DEF Next

\* Both instances of EnvoyManager are the same one.
LEMMA SameInvariant == Envoy!EnvoyInv <=> Manager!EnvoyInv
BY DEF Envoy!EnvoyInv, Envoy!TypeOK, Envoy!ProcessInv, Envoy!WatchInv, Envoy!StopInv,
       Envoy!ProcState, Envoy!WaiterState, Envoy!WatchPC, Envoy!Proc, Envoy!ProcOrNone,
       Envoy!NoProc, Envoy!Running, Envoy!Closed, Envoy!Cancelled,
       Manager!EnvoyInv, Manager!TypeOK, Manager!ProcessInv, Manager!WatchInv, Manager!StopInv,
       Manager!ProcState, Manager!WaiterState, Manager!WatchPC, Manager!Proc, Manager!ProcOrNone,
       Manager!NoProc, Manager!Running, Manager!Closed, Manager!Cancelled

LEMMA SameInvariantNext == Envoy!EnvoyInv' <=> Manager!EnvoyInv'
BY DEF Envoy!EnvoyInv, Envoy!TypeOK, Envoy!ProcessInv, Envoy!WatchInv, Envoy!StopInv,
       Envoy!ProcState, Envoy!WaiterState, Envoy!WatchPC, Envoy!Proc, Envoy!ProcOrNone,
       Envoy!NoProc, Envoy!Running, Envoy!Closed, Envoy!Cancelled,
       Manager!EnvoyInv, Manager!TypeOK, Manager!ProcessInv, Manager!WatchInv, Manager!StopInv,
       Manager!ProcState, Manager!WaiterState, Manager!WatchPC, Manager!Proc, Manager!ProcOrNone,
       Manager!NoProc, Manager!Running, Manager!Closed, Manager!Cancelled

LEMMA SameSteps == Envoy!Next => Manager!Next
<1>1. Envoy!Start => Manager!Start
  BY DEF Envoy!Start, Envoy!WatchAt, Envoy!Cancelled, Envoy!StartProcess, Envoy!Unused, Envoy!Proc,
         Envoy!WatchGoto,
         Manager!Start, Manager!WatchAt, Manager!Cancelled, Manager!StartProcess, Manager!Unused,
         Manager!Proc, Manager!WatchGoto
<1>2. Envoy!Signal => Manager!Signal
  BY DEF Envoy!Signal, Envoy!Cancelled, Envoy!managerVars,
         Manager!Signal, Manager!Cancelled, Manager!managerVars
<1>3. Envoy!Processes => Manager!Processes
  BY DEF Envoy!Processes, Envoy!Crashes, Envoy!Killed, Envoy!Exit, Envoy!Cancelled, Envoy!Proc,
         Envoy!managerVars,
         Manager!Processes, Manager!Crashes, Manager!Killed, Manager!Exit, Manager!Cancelled,
         Manager!Proc, Manager!managerVars
<1>4. Envoy!Waiters => Manager!Waiters
  BY DEF Envoy!Waiters, Envoy!WaitReturns, Envoy!StoreWaitErr, Envoy!CloseDone, Envoy!Waiter,
         Envoy!Free, Envoy!Proc, Envoy!managerVars,
         Manager!Waiters, Manager!WaitReturns, Manager!StoreWaitErr, Manager!CloseDone,
         Manager!Waiter, Manager!Free, Manager!Proc, Manager!managerVars
<1>5. Envoy!WatchLoop => Manager!WatchLoop
  BY DEF Envoy!WatchLoop, Envoy!WatchRead, Envoy!WatchChannel, Envoy!WatchWait, Envoy!WatchClean,
         Envoy!WatchBackoff, Envoy!WatchRestart, Envoy!WatchRestartFails, Envoy!WatchAt,
         Envoy!WatchGoto, Envoy!WatchReturns, Envoy!Free, Envoy!Closed, Envoy!Cancelled,
         Envoy!StartProcess, Envoy!Unused, Envoy!Proc, Envoy!NoProc, Envoy!managerVars,
         Manager!WatchLoop, Manager!WatchRead, Manager!WatchChannel, Manager!WatchWait,
         Manager!WatchClean, Manager!WatchBackoff, Manager!WatchRestart,
         Manager!WatchRestartFails, Manager!WatchAt, Manager!WatchGoto, Manager!WatchReturns,
         Manager!Free, Manager!Closed, Manager!Cancelled, Manager!StartProcess, Manager!Unused,
         Manager!Proc, Manager!NoProc, Manager!managerVars
<1>6. Envoy!StopStep => Manager!StopStep
  BY DEF Envoy!StopStep, Envoy!StopBegin, Envoy!StopDone, Envoy!StopFails, Envoy!StopTimesOut,
         Envoy!WatchAt, Envoy!Closed, Envoy!NoProc, Envoy!managerVars,
         Manager!StopStep, Manager!StopBegin, Manager!StopDone, Manager!StopFails,
         Manager!StopTimesOut, Manager!WatchAt, Manager!Closed, Manager!NoProc,
         Manager!managerVars
<1> QED
  BY <1>1, <1>2, <1>3, <1>4, <1>5, <1>6 DEF Envoy!Next, Manager!Next

\* So the invariant of the manager survives every step of the agent.
LEMMA ManagerInvKept == Envoy!EnvoyInv /\ [Next]_vars => Envoy!EnvoyInv'
<1>1. Manager!EnvoyInv /\ [Manager!Next]_envoyVars => Manager!EnvoyInv'
  BY Manager!StepKeepsInv, AgentConstants DEF Manager!vars, envoyVars, EnvoyFaults
<1> QED
  BY <1>1, AgentStepIsManagerStep, SameInvariant, SameInvariantNext, SameSteps

LEMMA ManagerInvInit == Envoy!Init => Envoy!EnvoyInv
<1>1. Envoy!Init => Manager!Init
  BY DEF Envoy!Init, Envoy!Proc, Envoy!NoProc, Manager!Init, Manager!Proc, Manager!NoProc
<1>2. Manager!Init => Manager!EnvoyInv
  BY Manager!InitEnvoyInv, AgentConstants DEF EnvoyFaults
<1> QED
  BY <1>1, <1>2, SameInvariant

\* The agent uses the manager as EnvoyManager assumes: Start once, the cancel
\* of the signal, Stop, and nothing else touches it.  All that is proved of
\* the manager holds of it inside the agent.
THEOREM DrivesEnvoyManager == Spec => Envoy!Spec
<1>1. Init => Envoy!Init
  BY DEF Init
<1>2. [Next]_vars => [Envoy!Next]_Envoy!vars
  BY AgentStepIsManagerStep DEF Envoy!vars, envoyVars
<1> QED
  BY <1>1, <1>2, PTL DEF Spec, Envoy!Spec

-----------------------------------------------------------------------------
(* The DNS server.                                                         *)

LEMMA DnsInvKept ==
  ASSUME DNS!DnsInv, DNS!StarterStep \/ DNS!ShutdownStep(deadline) \/ UNCHANGED dnsVars
  PROVE  DNS!DnsInv'
<1> USE DEF DNS!DnsInv, DNS!DnsTypeOK, DNS!Net, DNS!Becomes
<1>1. CASE DNS!Make
  BY <1>1 DEF DNS!Make
<1>2. CASE \E n \in DNS!Net : DNS!Listen(n)
  BY <1>2 DEF DNS!Listen
<1>3. CASE DNS!TCPFails
  BY <1>3 DEF DNS!TCPFails
<1>4. CASE DNS!TCPEnds \/ DNS!UDPEnds
  BY <1>4 DEF DNS!TCPEnds, DNS!UDPEnds
<1>5. CASE DNS!ShutdownStep(deadline)
  BY <1>5 DEF DNS!ShutdownStep, DNS!ShutServer, DNS!Following
<1>6. CASE UNCHANGED dnsVars
  BY <1>6 DEF dnsVars
<1> QED
  BY <1>1, <1>2, <1>3, <1>4, <1>5, <1>6 DEF DNS!StarterStep

LEMMA AgentStepKeepsDns == DNS!DnsInv /\ [Next]_vars => DNS!DnsInv'
<1> SUFFICES ASSUME DNS!DnsInv, [Next]_vars PROVE DNS!DnsInv'
  OBVIOUS
<1>1. CASE StartStep
  BY <1>1, DnsInvKept DEF StartStep, StartRegistry, StartXDS, PublishEmpty, StartEnvoy,
                          StartFails, Spawn, Servers
<1>2. CASE ShutdownStep
  BY <1>2, DnsInvKept DEF ShutdownStep, StopAdmin, StopRegistry, StopDNS, StopXDS, StopEnvoy,
                          StopTelemetry, Servers
<1>3. CASE ServeDNS
  BY <1>3, DnsInvKept DEF ServeDNS
<1>4. CASE Serve \/ Strand \/ Reap \/ OpenWatch \/ CloseWatch \/ AdsConnects \/ AdsBreaks
             \/ Signal \/ SecondSignal \/ Deadline \/ EnvoyStep \/ UNCHANGED vars
  BY <1>4, DnsInvKept DEF Serve, Strand, Reap, OpenWatch, CloseWatch, AdsConnects, AdsBreaks, Signal,
                          SecondSignal, Deadline, EnvoyStep, Servers, dnsVars, vars
<1> QED
  BY <1>1, <1>2, <1>3, <1>4 DEF Next

-----------------------------------------------------------------------------
(* What the stage of the main goroutine says.                              *)

LEMMA NoEnvoyBefore ==
  ASSUME Envoy!EnvoyInv, Envoy!WatchAt("off")
  PROVE  Envoy!Running = {}
BY DEF Envoy!EnvoyInv, Envoy!ProcessInv, Envoy!WatchInv, Envoy!WatchAt, Envoy!Running,
       Envoy!Proc, Envoy!NoProc

\* Only Start gets the watch loop going, and only the signal and Stop cancel.
LEMMA EnvoyRunsOn ==
  ASSUME Envoy!Processes \/ Envoy!Waiters \/ Envoy!WatchLoop
  PROVE  /\ UNCHANGED <<context, stopped>>
         /\ Envoy!WatchAt("off") => Envoy!WatchAt("off")'
<1>1. CASE Envoy!Processes \/ Envoy!Waiters
  BY <1>1 DEF Envoy!Processes, Envoy!Crashes, Envoy!Killed, Envoy!Exit, Envoy!Waiters,
              Envoy!WaitReturns, Envoy!StoreWaitErr, Envoy!CloseDone, Envoy!Waiter, Envoy!WatchAt
<1>2. CASE Envoy!WatchLoop
  BY <1>2 DEF Envoy!WatchLoop, Envoy!WatchRead, Envoy!WatchChannel, Envoy!WatchWait,
              Envoy!WatchClean, Envoy!WatchBackoff, Envoy!WatchRestart, Envoy!WatchRestartFails,
              Envoy!WatchAt
<1> QED
  BY <1>1, <1>2

LEMMA EnvoyStops ==
  ASSUME Envoy!StopStep
  PROVE  watch' = watch /\ (context = "cancelled" => context' = "cancelled")
BY DEF Envoy!StopStep, Envoy!StopBegin, Envoy!StopDone, Envoy!StopFails, Envoy!StopTimesOut

StageInv ==
  /\ (outcome = "") <=> (stage # "exited")
  /\ XdsInv /\ ProcessInv /\ ShutdownInv

RunnerTypeOK ==
  /\ stage \in Stage
  /\ outcome \in {"", "clean", "failed", "forced"}
  /\ xds \in {"off", "listening", "ready"}
  /\ ads \in BOOLEAN /\ known \in BOOLEAN /\ stray \in BOOLEAN
  /\ deadline \in BOOLEAN /\ flushed \in BOOLEAN
  /\ streams \in 0..MaxStreams

LEMMA StartKeepsStage ==
  ASSUME RunnerTypeOK, StageInv, StartStep
  PROVE  RunnerTypeOK' /\ StageInv'
<1> USE DEF RunnerTypeOK, StageInv, XdsInv, ProcessInv, ShutdownInv, Stage, Starting, ShuttingDown,
            At, Goto, Exit, Envoy!WatchAt, Envoy!Cancelled, envoyVars, dnsVars, Servers, Clients
<1>1. CASE StartRegistry \/ StartXDS \/ PublishEmpty \/ Spawn
  BY <1>1 DEF StartRegistry, StartXDS, PublishEmpty, Spawn
<1>2. CASE StartEnvoy
  <2>1. UNCHANGED <<context, stopped>> /\ (~Managed => watch' = watch)
    BY <1>2 DEF StartEnvoy, Envoy!Start
  <2> QED
    BY <1>2, <2>1 DEF StartEnvoy
<1>3. CASE StartFails
  BY <1>3 DEF StartFails
<1> QED
  BY <1>1, <1>2, <1>3 DEF StartStep

LEMMA ShutdownKeepsStage ==
  ASSUME RunnerTypeOK, StageInv, ShutdownStep
  PROVE  RunnerTypeOK' /\ StageInv'
<1> USE DEF RunnerTypeOK, StageInv, XdsInv, ProcessInv, ShutdownInv, Stage, Starting, ShuttingDown,
            At, Goto, Exit, Envoy!WatchAt, Envoy!Cancelled, envoyVars, Servers, Clients
<1>1. CASE StopAdmin \/ StopRegistry
  BY <1>1 DEF StopAdmin, StopRegistry, dnsVars
<1>2. CASE StopDNS
  BY <1>2 DEF StopDNS, dnsVars
<1>3. CASE StopXDS
  BY <1>3 DEF StopXDS, dnsVars
<1>4. CASE StopEnvoy
  BY <1>4, EnvoyStops DEF StopEnvoy, dnsVars
<1>5. CASE StopTelemetry
  BY <1>5 DEF StopTelemetry, dnsVars
<1> QED
  BY <1>1, <1>2, <1>3, <1>4, <1>5 DEF ShutdownStep

LEMMA RunningKeepsStage ==
  ASSUME RunnerTypeOK, StageInv,
         \/ ServeDNS \/ Serve \/ Strand \/ Reap \/ OpenWatch \/ CloseWatch \/ AdsConnects \/ AdsBreaks
         \/ Signal \/ SecondSignal \/ Deadline \/ EnvoyStep \/ UNCHANGED vars
  PROVE  RunnerTypeOK' /\ StageInv'
<1> USE DEF RunnerTypeOK, StageInv, XdsInv, ProcessInv, ShutdownInv, Stage, Starting, ShuttingDown,
            At, Goto, Exit, Envoy!WatchAt, Envoy!Cancelled, envoyVars, Servers, Clients
<1>1. CASE ServeDNS
  <2>1. shutdown' = shutdown
    BY <1>1 DEF ServeDNS, DNS!StarterStep, DNS!Make, DNS!Listen, DNS!TCPFails, DNS!TCPEnds,
                DNS!UDPEnds
  <2> QED
    BY <1>1, <2>1 DEF ServeDNS
<1>2. CASE Serve
  BY <1>2 DEF Serve, dnsVars
<1>11. CASE Strand
  BY <1>11 DEF Strand, dnsVars
<1>12. CASE Reap
  BY <1>12 DEF Reap, dnsVars
<1>3. CASE OpenWatch \/ CloseWatch
  <2>1. streams' \in 0..MaxStreams
    <3>1. \/ streams < MaxStreams /\ streams' = streams + 1
          \/ streams > 0 /\ streams' = streams - 1
      BY <1>3 DEF OpenWatch, CloseWatch
    <3>2. streams \in 0..MaxStreams /\ MaxStreams \in Nat
      BY AgentConstants
    <3> QED
      BY ONLY <3>1, <3>2
  <2>2. UNCHANGED <<stage, outcome, xds, ads, known, stray, deadline, flushed, context, watch, stopped,
                    shutdown>>
    <3>1. CASE OpenWatch
      BY <3>1 DEF OpenWatch, dnsVars
    <3>2. CASE CloseWatch
      BY <3>2 DEF CloseWatch, dnsVars
    <3> QED
      BY <1>3, <3>1, <3>2
  <2> QED
    BY <2>1, <2>2
<1>4. CASE AdsConnects
  BY <1>4 DEF AdsConnects, dnsVars
<1>5. CASE AdsBreaks
  BY <1>5 DEF AdsBreaks, dnsVars
<1>6. CASE Signal
  BY <1>6 DEF Signal, Envoy!Signal, dnsVars
<1>7. CASE SecondSignal
  BY <1>7 DEF SecondSignal, dnsVars
<1>8. CASE Deadline
  BY <1>8 DEF Deadline, dnsVars
<1>9. CASE UNCHANGED vars
  BY <1>9 DEF dnsVars, vars
<1>10. CASE EnvoyStep
  <2>1. UNCHANGED <<context, stopped>> /\ (Envoy!WatchAt("off") => Envoy!WatchAt("off")')
    BY <1>10, EnvoyRunsOn DEF EnvoyStep
  <2>2. UNCHANGED <<stage, outcome, xds, ads, known, stray, streams, deadline, flushed, shutdown>>
    BY <1>10 DEF EnvoyStep, runnerVars, dnsVars
  <2> QED
    BY <2>1, <2>2
<1> QED
  BY <1>1, <1>2, <1>3, <1>4, <1>5, <1>6, <1>7, <1>8, <1>9, <1>10, <1>11, <1>12

LEMMA NextKeepsStage ==
  ASSUME RunnerTypeOK, StageInv, [Next]_vars
  PROVE  RunnerTypeOK' /\ StageInv'
BY StartKeepsStage, ShutdownKeepsStage, RunningKeepsStage DEF Next

-----------------------------------------------------------------------------
(* The last step.                                                          *)

\* The exit itself changes nothing, and only StopTelemetry makes it a clean one.
LEMMA ExitStep ==
  ASSUME RunnerTypeOK, StageInv, [Next]_vars, stage # "exited", stage' = "exited"
  PROVE  /\ UNCHANGED <<envoyVars, dnsVars, xds, known>>
         /\ outcome' = "clean" => stage = "telemetry" /\ flushed'
<1> USE DEF At, Goto, Exit, Servers, Clients
<1>1. CASE StartFails \/ SecondSignal
  BY <1>1 DEF StartFails, SecondSignal
<1>2. CASE StopAdmin
  BY <1>2 DEF StopAdmin
<1>3. CASE StopRegistry
  BY <1>3 DEF StopRegistry
<1>4. CASE StopDNS
  BY <1>4 DEF StopDNS
<1>5. CASE StopEnvoy
  BY <1>5 DEF StopEnvoy
<1>6. CASE StopTelemetry
  BY <1>6 DEF StopTelemetry
<1>7. ~(StartRegistry \/ StartXDS \/ PublishEmpty \/ StartEnvoy \/ Spawn \/ StopXDS \/ Signal)
  BY DEF StartRegistry, StartXDS, PublishEmpty, StartEnvoy, Spawn, StopXDS, Signal
<1>8. ~(ServeDNS \/ Serve \/ Strand \/ Reap \/ OpenWatch \/ CloseWatch \/ AdsConnects \/ AdsBreaks \/ Deadline
          \/ EnvoyStep \/ UNCHANGED vars)
  BY DEF ServeDNS, Serve, Strand, Reap, OpenWatch, CloseWatch, AdsConnects, AdsBreaks, Deadline, EnvoyStep,
         runnerVars, vars
<1> QED
  BY <1>1, <1>2, <1>3, <1>4, <1>5, <1>6, <1>7, <1>8 DEF Next, StartStep, ShutdownStep

\* After the exit nothing moves.
LEMMA ExitedStays ==
  ASSUME RunnerTypeOK, StageInv, [Next]_vars, stage = "exited"
  PROVE  UNCHANGED vars
<1>1. outcome # ""
  BY DEF StageInv
<1> USE DEF At, Starting, ShuttingDown
<1>2. ~StartStep
  BY DEF StartStep, StartRegistry, StartXDS, PublishEmpty, StartEnvoy, StartFails, Spawn
<1>3. ~ShutdownStep
  BY DEF ShutdownStep, StopAdmin, StopRegistry, StopDNS, StopXDS, StopEnvoy, StopTelemetry
<1>4. ~(ServeDNS \/ Serve \/ Strand \/ Reap \/ OpenWatch \/ CloseWatch \/ AdsConnects \/ AdsBreaks
          \/ Signal \/ SecondSignal \/ Deadline \/ EnvoyStep)
  BY <1>1 DEF ServeDNS, Serve, Strand, Reap, OpenWatch, CloseWatch, AdsConnects, AdsBreaks, Signal,
              SecondSignal, Deadline, EnvoyStep
<1> QED
  BY <1>2, <1>3, <1>4 DEF Next

Exited == stage = "exited"

EndInv == ControlPlaneFirst /\ CleanShutdown /\ DNSReleased

LEMMA AgentInvParts ==
  AgentInv <=> Envoy!EnvoyInv /\ DNS!DnsInv /\ RunnerTypeOK /\ StageInv /\ EndInv
<1>1. Envoy!EnvoyInv => Envoy!TypeOK
  BY DEF Envoy!EnvoyInv
<1>2. DNS!DnsInv => DNS!DnsTypeOK
  BY DEF DNS!DnsInv
<1> QED
  BY <1>1, <1>2 DEF AgentInv, TypeOK, RunnerTypeOK, StageInv, EndInv

\* Before the exit the stage decides: as long as there can be an Envoy the
\* snapshot is there, or the context is cancelled.
LEMMA StageDecides ==
  ASSUME Envoy!EnvoyInv, RunnerTypeOK, StageInv, ~Exited
  PROVE  EndInv
<1> USE DEF Exited
<1>1. outcome = ""
  BY DEF StageInv
<1>2. CASE stage \in {"registry", "xds", "publish", "envoy"}
  BY <1>1, <1>2, NoEnvoyBefore DEF StageInv, ProcessInv, EndInv, ControlPlaneFirst, CleanShutdown,
                                   DNSReleased
<1>3. CASE stage \in {"spawn", "up", "admin", "deregister", "dns", "xdsStop"}
  BY <1>1, <1>3 DEF StageInv, XdsInv, EndInv, ControlPlaneFirst, CleanShutdown, DNSReleased
<1>4. CASE stage \in {"envoyStop", "telemetry"}
  BY <1>1, <1>4 DEF StageInv, ProcessInv, ShuttingDown, EndInv, ControlPlaneFirst, CleanShutdown,
                    DNSReleased
<1> QED
  BY <1>2, <1>3, <1>4 DEF RunnerTypeOK, Stage, Starting, ShuttingDown

\* The last step takes over what the stages before it have left behind.
LEMMA ExitKeepsEnd ==
  ASSUME Envoy!EnvoyInv, DNS!DnsInv, RunnerTypeOK, StageInv, EndInv, [Next]_vars, Exited'
  PROVE  EndInv'
<1>1. CASE Exited
  <2>1. UNCHANGED vars
    BY <1>1, ExitedStays DEF Exited
  <2> QED
    BY <2>1 DEF EndInv, ControlPlaneFirst, CleanShutdown, DNSReleased, vars,
                Envoy!Running, Envoy!Proc, Envoy!Cancelled
<1>2. CASE ~Exited
  <2>1. /\ UNCHANGED <<envoyVars, dnsVars, xds, known>>
        /\ outcome' = "clean" => stage = "telemetry" /\ flushed'
    BY <1>2, ExitStep DEF Exited
  <2>2. /\ UNCHANGED <<Envoy!Running, Envoy!Cancelled>>
        /\ UNCHANGED <<listener, found, xds, known>>
    BY <2>1 DEF envoyVars, dnsVars, Envoy!Running, Envoy!Proc, Envoy!Cancelled
  <2>3. ControlPlaneFirst'
    BY <2>2 DEF EndInv, ControlPlaneFirst
  <2>4. ASSUME stage = "telemetry" PROVE ~known /\ xds = "off" /\ shutdown = "ok"
    BY <2>4 DEF StageInv, XdsInv, ShutdownInv
  <2>5. ASSUME stage = "telemetry" PROVE Envoy!Running = {}
    <3>1. ~Managed => Envoy!WatchAt("off")
      BY DEF StageInv, ProcessInv
    <3>2. stopped = "ok" => Envoy!Running = {}
      BY DEF Envoy!EnvoyInv, Envoy!StopInv
    <3> QED
      BY <2>5, <3>1, <3>2, NoEnvoyBefore DEF StageInv, ShutdownInv
  <2>6. ASSUME stage = "telemetry" PROVE \A n \in found : listener[n] = "closed"
    BY <2>4, <2>6 DEF DNS!DnsInv
  <2>7. CleanShutdown'
    BY <2>1, <2>2, <2>4, <2>5 DEF CleanShutdown
  <2>8. DNSReleased'
    BY <2>1, <2>2, <2>6 DEF DNSReleased
  <2> QED
    BY <2>3, <2>7, <2>8 DEF EndInv
<1> QED
  BY <1>1, <1>2

LEMMA InitStage == Init => Envoy!EnvoyInv /\ DNS!DnsInv /\ RunnerTypeOK /\ StageInv /\ ~Exited
<1> SUFFICES ASSUME Init PROVE Envoy!EnvoyInv /\ DNS!DnsInv /\ RunnerTypeOK /\ StageInv /\ ~Exited
  OBVIOUS
<1>1. Envoy!EnvoyInv
  BY ManagerInvInit DEF Init
<1>2. DNS!DnsInv
  BY DEF Init, DNS!DnsInit, DNS!DnsInv, DNS!DnsTypeOK, DNS!Net
<1>3. RunnerTypeOK
  <2>1. streams \in 0..MaxStreams
    <3>1. streams = 0
      BY DEF Init
    <3>2. MaxStreams \in Nat
      BY AgentConstants
    <3> QED
      BY ONLY <3>1, <3>2
  <2>2. ads \in BOOLEAN /\ known \in BOOLEAN /\ stray \in BOOLEAN
       /\ deadline \in BOOLEAN /\ flushed \in BOOLEAN
    BY DEF Init
  <2> QED
    BY <2>1, <2>2 DEF Init, RunnerTypeOK, Stage, Starting
<1>4. StageInv /\ ~Exited
  BY DEF Init, Envoy!Init, StageInv, XdsInv, ProcessInv, ShutdownInv, Starting, ShuttingDown,
         Envoy!WatchAt, Envoy!Cancelled, Exited
<1> QED
  BY <1>1, <1>2, <1>3, <1>4

\* The inductive invariant of the agent: the stage of the main goroutine tells
\* the state of every module it starts and stops.
THEOREM AgentInvariance == Spec => []AgentInv
<1> DEFINE Stages == Envoy!EnvoyInv /\ DNS!DnsInv /\ RunnerTypeOK /\ StageInv
<1>1. Init => Stages /\ ~Exited
  BY InitStage
<1>2. Stages /\ [Next]_vars => Stages'
  BY ManagerInvKept, AgentStepKeepsDns, NextKeepsStage
<1>3. Stages /\ ~Exited => EndInv
  BY StageDecides
<1>4. Stages /\ EndInv /\ [Next]_vars /\ Exited' => EndInv'
  BY ExitKeepsEnd
<1>5. Stages /\ EndInv => AgentInv
  BY AgentInvParts
<1> HIDE DEF Stages
<1> QED
  BY <1>1, <1>2, <1>3, <1>4, <1>5, PTL DEF Spec

\* The agent's own variables keep their types, and those of the manager and of
\* the DNS server inside it.
THEOREM TypeCorrectness == Spec => []TypeOK
<1>1. AgentInv => TypeOK
  BY DEF AgentInv
<1> QED
  BY <1>1, AgentInvariance, PTL

\* Whenever an Envoy runs, also one restarted while the agent shuts down, the
\* xDS server has a snapshot for it, or the context that kills it is cancelled.
THEOREM ControlPlaneFirstHolds == Spec => []ControlPlaneFirst
<1>1. AgentInv => ControlPlaneFirst
  BY DEF AgentInv
<1> QED
  BY <1>1, AgentInvariance, PTL

\* Shutdown reports success only if every entry of the registry's table has
\* been deregistered, Envoy is gone, the xDS server is down and telemetry is
\* flushed.  Of an instance no entry names it says nothing.
THEOREM CleanShutdownHolds == Spec => []CleanShutdown
<1>1. AgentInv => CleanShutdown
  BY DEF AgentInv
<1> QED
  BY <1>1, AgentInvariance, PTL

\* After a successful Shutdown every DNS server it found is closed, however
\* Start was interleaved with it.
THEOREM DNSReleasedHolds == Spec => []DNSReleased
<1>1. AgentInv => DNSReleased
  BY DEF AgentInv
<1> QED
  BY <1>1, AgentInvariance, PTL
====
