------------------------------- MODULE Agent -------------------------------
(***************************************************************************)
(* app.Runner and main: the order in which the modules of the agent start, *)
(* what SIGTERM sets off, and the order in which Shutdown takes the        *)
(* modules down within its ten seconds, around the Envoy process that      *)
(* EnvoyManager describes and the DNS server that Dns does.                *)
(*                                                                         *)
(* The registry is reduced to whether there are services it knows and      *)
(* whether there are instances it does not know (module Registry has the   *)
(* rest), the xDS server to whether it listens and has a snapshot, and     *)
(* whether Envoy holds its ADS stream.                                     *)
(***************************************************************************)
EXTENDS Naturals

CONSTANTS
  Managed,     \* envoy.enabled: the agent starts Envoy itself
  MaxStreams,  \* bound: /watch streams open at once
  MaxProcs,    \* bound: Envoy processes started
  Faults       \* those of EnvoyManager, and "start" (a module does not
               \* start), "dns" (port in use), "consul" (a call to Consul
               \* fails), "slow" (ten seconds pass for no other reason),
               \* "signal" (a second signal), "export" (an exporter fails)

EnvoyFaults == Faults \cap {"fork", "crash", "exit0", "timeout", "sigterm"}

ASSUME AgentConstants ==
  /\ Managed \in BOOLEAN /\ MaxStreams \in Nat /\ MaxProcs \in Nat
  /\ Faults \subseteq {"fork", "crash", "exit0", "timeout", "sigterm",
                      "start", "dns", "consul", "slow", "signal", "export"}

VARIABLES
  proc, waiter, cmd, waitDone, context, watch, stop, stopped,
  listener, starter, started, shutdown, found,
  stage,       \* what the main goroutine is about to do
  outcome,     \* how the process ended ("": it has not)
  xds,         \* the xDS server
  ads,         \* Envoy holds an ADS stream
  known,       \* localServices has entries that are not deregistered
  stray,       \* Consul has an instance of this run no such entry names
  streams,     \* open /watch streams
  deadline,    \* the ten seconds of WaitForShutdown are over
  flushed      \* telemetry is shut down

envoyVars == <<proc, waiter, cmd, waitDone, context, watch, stop, stopped>>
dnsVars == <<listener, starter, started, shutdown, found>>
runnerVars == <<stage, outcome, xds, ads, known, stray, streams, deadline, flushed>>
vars == <<proc, waiter, cmd, waitDone, context, watch, stop, stopped,
          listener, starter, started, shutdown, found,
          stage, outcome, xds, ads, known, stray, streams, deadline, flushed>>

Envoy == INSTANCE EnvoyManager WITH Faults <- EnvoyFaults
DNS == INSTANCE Dns WITH Faults <- Faults \cap {"dns"}

Starting == {"registry", "xds", "publish", "envoy", "spawn"}
ShuttingDown == {"admin", "deregister", "dns", "xdsStop", "envoyStop", "telemetry"}
Stage == Starting \cup ShuttingDown \cup {"up", "exited"}

TypeOK ==
  /\ Envoy!TypeOK /\ DNS!DnsTypeOK
  /\ stage \in Stage
  /\ outcome \in {"", "clean", "failed", "forced"}
  /\ xds \in {"off", "listening", "ready"}
  /\ ads \in BOOLEAN /\ known \in BOOLEAN /\ stray \in BOOLEAN
  /\ deadline \in BOOLEAN /\ flushed \in BOOLEAN
  /\ streams \in 0..MaxStreams

Init ==
  /\ Envoy!Init /\ DNS!DnsInit
  /\ stage = "registry" /\ outcome = ""
  /\ xds = "off" /\ ads = FALSE
  /\ known = FALSE /\ stray = FALSE /\ streams = 0
  /\ deadline = FALSE /\ flushed = FALSE

-----------------------------------------------------------------------------

At(s) == stage = s
Goto(s) == stage' = s /\ UNCHANGED outcome
Exit(how) == stage' = "exited" /\ outcome' = how

Servers == <<xds, ads, dnsVars>>
Clients == <<known, stray, streams>>

-----------------------------------------------------------------------------
(* Runner.Start                                                            *)

StartRegistry ==
  /\ At("registry") /\ Goto("xds")
  /\ UNCHANGED <<envoyVars, Servers, Clients, deadline, flushed>>

StartXDS ==
  /\ At("xds") /\ Goto("publish")
  /\ xds' = "listening"
  /\ UNCHANGED <<envoyVars, dnsVars, ads, Clients, deadline, flushed>>

\* Variant with a mistake: Envoy is started first and the snapshot follows.
PublishEmptyLate ==
  /\ At("publish") /\ Goto("envoy")
  /\ UNCHANGED <<envoyVars, Servers, Clients, deadline, flushed>>

PublishEmpty ==
  /\ At("publish") /\ Goto("envoy")
  /\ xds' = "ready"
  /\ UNCHANGED <<envoyVars, dnsVars, ads, Clients, deadline, flushed>>

StartEnvoy ==
  /\ At("envoy") /\ Goto("spawn")
  /\ IF Managed THEN Envoy!Start ELSE UNCHANGED envoyVars
  /\ UNCHANGED <<Servers, Clients, deadline, flushed>>

\* An error of any of the four ends the process.
StartFails ==
  /\ stage \in {"registry", "xds", "publish"} \/ (At("envoy") /\ Managed)
  /\ "start" \in Faults /\ Exit("failed")
  /\ UNCHANGED <<envoyVars, Servers, Clients, deadline, flushed>>

\* The DNS and admin servers and the watcher get a goroutine each, and what
\* they return is logged.
Spawn ==
  /\ At("spawn") /\ Goto("up")
  /\ UNCHANGED <<envoyVars, Servers, Clients, deadline, flushed>>

\* dns.Server.Start in its goroutine.
ServeDNS ==
  /\ stage \in ShuttingDown \cup {"up"} /\ DNS!StarterStep
  /\ UNCHANGED <<envoyVars, stage, outcome, xds, ads, Clients, deadline, flushed>>

StartStep == StartRegistry \/ StartXDS \/ PublishEmpty \/ StartEnvoy \/ StartFails \/ Spawn

-----------------------------------------------------------------------------
(* While the agent is up.                                                  *)

\* Handlers register and deregister services.
Serve ==
  /\ At("up") /\ known' = ~known
  /\ UNCHANGED <<envoyVars, stage, outcome, Servers, stray, streams, deadline, flushed>>

\* Register returns an error and stores nothing, and Consul has the instance:
\* passLease failed, or ServiceRegister timed out, to be handled at any time.
Strand ==
  /\ stage \in ShuttingDown \cup {"up"} /\ "consul" \in Faults
  /\ stray' = TRUE
  /\ UNCHANGED <<envoyVars, stage, outcome, Servers, known, streams, deadline, flushed>>

\* Consul drops an instance whose lease has been critical for long enough.
Reap ==
  /\ stray /\ outcome = ""
  /\ stray' = FALSE
  /\ UNCHANGED <<envoyVars, stage, outcome, Servers, known, streams, deadline, flushed>>

OpenWatch ==
  /\ At("up") /\ streams < MaxStreams /\ streams' = streams + 1
  /\ UNCHANGED <<envoyVars, stage, outcome, Servers, known, stray, deadline, flushed>>

\* Only the client ends a /watch stream.
CloseWatch ==
  /\ outcome = "" /\ streams > 0 /\ streams' = streams - 1
  /\ UNCHANGED <<envoyVars, stage, outcome, Servers, known, stray, deadline, flushed>>

EnvoyUp == ~Managed \/ Envoy!Running # {}

AdsConnects ==
  /\ xds = "ready" /\ ~ads /\ EnvoyUp /\ outcome = ""
  /\ stage # "xdsStop"  \* GracefulStop takes no new stream
  /\ ads' = TRUE
  /\ UNCHANGED <<envoyVars, stage, outcome, xds, dnsVars, Clients, deadline, flushed>>

\* The stream of a dead Envoy breaks; a living one keeps its own.
AdsBreaks ==
  /\ ads /\ ~EnvoyUp /\ outcome = ""
  /\ ads' = FALSE
  /\ UNCHANGED <<envoyVars, stage, outcome, xds, dnsVars, Clients, deadline, flushed>>

\* The first signal cancels the context of the watcher and of Envoy; the wait
\* for it is over and Shutdown begins.
Signal ==
  /\ At("up") /\ Goto("admin")
  /\ Envoy!Signal
  /\ UNCHANGED <<Servers, Clients, deadline, flushed>>

SecondSignal ==
  /\ stage \in ShuttingDown /\ "signal" \in Faults
  /\ Exit("forced")
  /\ UNCHANGED <<envoyVars, Servers, Clients, deadline, flushed>>

\* Ten seconds pass while something is waited for.
Deadline ==
  /\ stage \in ShuttingDown /\ ~deadline
  /\ (At("admin") /\ streams > 0) \/ "slow" \in Faults
  /\ deadline' = TRUE
  /\ UNCHANGED <<envoyVars, stage, outcome, Servers, Clients, flushed>>

EnvoyStep ==
  /\ outcome = "" /\ (Envoy!Processes \/ Envoy!Waiters \/ Envoy!WatchLoop)
  /\ UNCHANGED <<dnsVars, runnerVars>>

-----------------------------------------------------------------------------
(* Runner.Shutdown: the first error ends it, and the process.              *)

\* Variant with a mistake: the admin server is waited for without a limit.
StopAdminPatiently ==
  /\ At("admin") /\ streams = 0 /\ Goto("deregister")
  /\ UNCHANGED <<envoyVars, Servers, Clients, deadline, flushed>>

\* http.Server.Shutdown waits for every connection that is not idle.
StopAdmin ==
  /\ At("admin")
  /\ IF streams = 0 THEN Goto("deregister") ELSE deadline /\ Exit("failed")
  /\ UNCHANGED <<envoyVars, Servers, Clients, deadline, flushed>>

\* Variant with a mistake: a failed deregistration does not end Shutdown.
StopRegistryAnyway ==
  /\ At("deregister") /\ Goto("dns")
  /\ known' = FALSE \/ ("consul" \in Faults /\ UNCHANGED known)
  /\ UNCHANGED <<envoyVars, Servers, stray, streams, deadline, flushed>>

\* Client.Shutdown does not look at its context: only a failed call ends it.
\* It goes through the entries; an instance no entry names stays.
StopRegistry ==
  /\ At("deregister")
  /\ \/ known' = FALSE /\ Goto("dns")
     \/ known /\ "consul" \in Faults /\ UNCHANGED known /\ Exit("failed")
  /\ UNCHANGED <<envoyVars, Servers, stray, streams, deadline, flushed>>

StopDNS ==
  /\ At("dns")
  /\ IF shutdown = "ok" THEN UNCHANGED dnsVars /\ Goto("xdsStop")
     ELSE IF shutdown = "error" THEN UNCHANGED dnsVars /\ Exit("failed")
     ELSE DNS!ShutdownStep(deadline) /\ UNCHANGED <<stage, outcome>>
  /\ UNCHANGED <<envoyVars, xds, ads, Clients, deadline, flushed>>

\* GracefulStop waits until the last stream is gone, for as long as it takes.
StopXDS ==
  /\ At("xdsStop") /\ ~ads
  /\ xds' = "off" /\ Goto("envoyStop")
  /\ UNCHANGED <<envoyVars, dnsVars, ads, Clients, deadline, flushed>>

StopEnvoy ==
  /\ At("envoyStop")
  /\ IF ~Managed \/ stopped = "ok" THEN UNCHANGED envoyVars /\ Goto("telemetry")
     ELSE IF stopped \in {"error", "timeout"} THEN UNCHANGED envoyVars /\ Exit("failed")
     ELSE Envoy!StopStep /\ UNCHANGED <<stage, outcome>>
  /\ UNCHANGED <<Servers, Clients, deadline, flushed>>

StopTelemetry ==
  /\ At("telemetry")
  /\ \/ flushed' = TRUE /\ Exit("clean")
     \/ (deadline \/ "export" \in Faults) /\ UNCHANGED flushed /\ Exit("failed")
  /\ UNCHANGED <<envoyVars, Servers, Clients, deadline>>

ShutdownStep ==
  StopAdmin \/ StopRegistry \/ StopDNS \/ StopXDS \/ StopEnvoy \/ StopTelemetry

Next ==
  \/ StartStep \/ ShutdownStep
  \/ ServeDNS \/ Serve \/ Strand \/ Reap \/ OpenWatch \/ CloseWatch \/ AdsConnects \/ AdsBreaks
  \/ Signal \/ SecondSignal \/ Deadline \/ EnvoyStep

Spec == Init /\ [][Next]_vars

\* The main goroutine runs on, time passes, a killed Envoy dies and its
\* connections break.  Clients and signals come when they like.
Fairness ==
  /\ WF_vars(StartStep) /\ WF_vars(ShutdownStep) /\ WF_vars(Deadline) /\ WF_vars(AdsBreaks)
  /\ \A p \in Envoy!Proc :
       /\ WF_vars(outcome = "" /\ Envoy!Killed(p) /\ UNCHANGED <<dnsVars, runnerVars>>)
       /\ WF_vars(EnvoyStep /\ (Envoy!WaitReturns(p) \/ Envoy!StoreWaitErr(p) \/ Envoy!CloseDone(p)))
  /\ WF_vars(EnvoyStep /\ Envoy!WatchLoop)

FairSpec == Spec /\ Fairness
-----------------------------------------------------------------------------
\* No Envoy, first or restarted, runs before there is a snapshot to fetch, or
\* after the xDS server is gone, unless it has already been told to die.
ControlPlaneFirst == Envoy!Running # {} => xds = "ready" \/ Envoy!Cancelled

\* An exit without an error leaves nothing behind that the agent knows of: no
\* service in its table that is not deregistered, no Envoy, no xDS server, no
\* telemetry that is not flushed.  A stray instance may be left, and only its
\* lease ends it.
CleanShutdown ==
  outcome = "clean" =>
    ~known /\ Envoy!Running = {} /\ xds = "off" /\ flushed

\* An exit without an error has closed both DNS listeners, whichever of them
\* was slow or had no port: only those Start had not even made when Shutdown
\* looked at them escape.  It is the first time a failed UDP listener shows.
DNSReleased == outcome = "clean" => \A n \in DNS!Net : listener[n] = "closed" \/ n \notin found

\* Shutdown runs under a deadline of ten seconds: once SIGTERM has arrived
\* the process ends, whatever streams and connections are open.
ShutdownEnds == (Envoy!Cancelled /\ outcome = "") ~> (outcome # "")
-----------------------------------------------------------------------------
\* Why: what the main goroutine is about to do tells what it has done.  The
\* last word is with main alone: after the exit no goroutine takes a step.

\* The xDS server is up and has its snapshot from PublishEmpty to GracefulStop.
XdsInv ==
  /\ stage \in {"registry", "xds", "envoyStop", "telemetry"} => xds = "off"
  /\ stage = "publish" => xds = "listening"
  /\ stage \in {"envoy", "spawn", "up", "admin", "deregister", "dns", "xdsStop"} => xds = "ready"

\* There is no Envoy before the agent starts one, or if it is not to; the
\* context is cancelled by the signal that begins Shutdown, not earlier.
ProcessInv ==
  /\ ~Managed \/ stage \in {"registry", "xds", "publish", "envoy"} => Envoy!WatchAt("off")
  /\ stage \in Starting \cup {"up"} => ~Envoy!Cancelled
  /\ stage \in ShuttingDown => Envoy!Cancelled

\* Shutdown leaves no stage behind that has not succeeded.
ShutdownInv ==
  /\ stage \in {"dns", "xdsStop", "envoyStop", "telemetry"} => ~known
  /\ stage \in {"xdsStop", "envoyStop", "telemetry"} => shutdown = "ok"
  /\ stage = "telemetry" => ~Managed \/ stopped = "ok"

AgentInv ==
  /\ TypeOK /\ Envoy!EnvoyInv /\ DNS!DnsInv
  /\ (outcome = "") <=> (stage # "exited")
  /\ XdsInv /\ ProcessInv /\ ShutdownInv
  /\ ControlPlaneFirst /\ CleanShutdown /\ DNSReleased
=============================================================================
