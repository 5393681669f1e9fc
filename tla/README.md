# A formal model of sidecar-agent

TLA+ specifications of the sidecar agent in `src/`, the TLC configurations that
check them on small instances, and proofs, checked by TLAPS, for all instances.

The agent runs once per host. Business processes tell it over a local HTTP
interface which services they offer; it registers them at Consul, keeps an
ownership lease alive for each, discovers the instances of all hosts, turns
them into xDS snapshots and runs the Envoy that is served from them.

## 1. The system

| component | state | operations |
|---|---|---|
| registry client (`registry/consul.go`) | `localServices` under `mu`; `runID` | `Start` with `cleanupPreviousRuns`, `Register`, `Drain`, `Deregister`, `leaseLoop`, `Shutdown`, `Discover` |
| Consul (external) | instances, TTL checks, maintenance flags, route documents | what the interfaces `agentAPI`, `catalogAPI`, `healthAPI`, `kvAPI` ask of it |
| discovery watcher (`discovery/watcher.go`) | `lastFingerprint`, `lastPublishAt` under `mu` | `Run`, `RefreshNow` (both `refreshOnce`) |
| snapshot builder (`xds/snapshot.go`) | `version`, `summary` | `Build`, `Summary` |
| xDS server (`xds/server.go`) | snapshot cache, gRPC server, `started` | `Start`, `Stop`, `Publish` |
| Envoy manager (`envoy/manager.go`) | `cmd`, `waitDone`, `waitErr`, `ctx`, `cancel` under `mu` | `Start`, `Stop`, `watchLoop`, `startProcessLocked` |
| admin server (`admin/server.go`) | open connections | register, drain, deregister (registry call, then `RefreshNow`), `/watch`, debug reads |
| runner and main (`app/app.go`, `cmd/`) | which module is up | `Start`, `Shutdown`, `WaitForShutdown`, signals |
| DNS server (`dns/server.go`) | two listeners | `Start`, `Shutdown`, answers |
| model (`model/types.go`) | none; types and comparisons | request validation, route documents, prefixes |
| config, bootstrap, telemetry | none that changes while the agent runs | parsing, validation, counters |

How they interact. Every admin request is a goroutine. It calls the registry
client, whose calls to Consul are made partly with its mutex held (`Drain`,
`Deregister`) and partly without (`Register`), and then `RefreshNow`. That
races the watcher's own poller: both read Consul without a lock, then compare
and publish under the watcher's mutex. The lease loop is a third goroutine over
the registry's state. The Envoy manager has a watch loop and one goroutine per
process that waits for it; `Stop` runs in the main goroutine. One context,
cancelled by the first signal, ends the watcher and kills Envoy, while the
runner's `Shutdown` takes the modules down one after the other within ten
seconds and stops at the first error.

What is hard: check-then-act across Consul calls; calls that time out here and
take effect there later; crashes, and what the next run finds; stale reads;
views read outside a lock and published inside it; a debounce that drops work;
a watch loop, a waiting goroutine and `Stop` on three shared fields; a shutdown
whose steps fail; two listeners that come up while they are shut down; agents
of several hosts that share route documents but no lock; a ticker that drops
ticks while calls are slow or the mutex is taken. `PROJECT.json` lists these under `hazards`, with their lines.

What makes each component correct:

- registry: an entry that says `Draining` or `Deregistered` says the truth; the
  agent loses sight of an instance, or an entry goes back, only where two
  handlers overlap or a call fails; no instance outlives the agent that owns it
  for long, whether it stops, crashes or loses an answer; an instance id lives
  once; only first registrations that overlap can disagree on a route document.
- watcher and xDS: one publication at a time, versions that only grow, a
  fingerprint and a summary that belong to what is served, and convergence to
  Consul once Consul is quiet.
- Envoy manager: one Envoy at a time, restarted when it dies, none after `Stop`.
- snapshot builder and route documents: Envoy takes every snapshot, requests
  reach the healthy instances of the service they name, in the own cluster
  first, and the order of instances does not depend on that of answers.
- DNS server: a shutdown that succeeds has closed what `Start` has opened.
- runner: no Envoy without a control plane, a shutdown that ends, and nothing
  left behind by one that reports no error.

## 2. Modules

| module | models | extends / instantiates |
|---|---|---|
| `Consul` | external: calls and how they end, timers, late calls, stale reads | |
| `Registry` | `registry.Client` of one host, start to shutdown, with Consul | EXTENDS `Consul`; INSTANCE `InstanceLife` |
| `InstanceLife` | abstract: what others may rely on about an instance id | |
| `MCRegistry` | request sets and symmetry for TLC | EXTENDS `Registry` |
| `RegistryProofs` | theorems about `Registry` under every fault | EXTENDS `Registry` |
| `RegistryInstanceProofs` | theorems about what becomes of registered instances | EXTENDS `RegistryProofs` |
| `Watcher` | poller, handlers' refreshes, `Discover`, builder version, cache | |
| `MCWatcher` / `WatcherProofs` | instances for TLC / theorems | EXTENDS `Watcher` |
| `EnvoyManager` / `EnvoyManagerProofs` | process, waiting goroutines, watch loop, `Stop` / theorems | INSTANCE `Supervisor` |
| `Supervisor` | abstract: what `Start` and `Stop` promise about processes | |
| `Dns` | the two listeners, `Start` against `Shutdown` | |
| `Agent` | `Runner.Start`, `Shutdown`, `main`, with a managed Envoy and DNS | INSTANCE `EnvoyManager`, `Dns` |
| `AgentProofs` | theorems about `Agent`, with those of `EnvoyManager` carried over | EXTENDS `Agent`; INSTANCE `EnvoyManagerProofs` |
| `RouteDoc` | requests, route documents and how they are compared | |
| `Snapshot` | `Builder.Build` as a function of the instances; what Envoy makes of it | EXTENDS `RouteDoc` |
| `Mesh` | handlers of agents of several hosts on one Consul, each agent with its snapshot | EXTENDS `Snapshot` |
| `MCMesh` / `MeshProofs` | hosts and requests for TLC / theorems | EXTENDS `Mesh` |
| `Lease` | the clock of `leaseLoop`, and the mutex it shares with handlers, against Consul's TTL | |
| `MCLease` / `LeaseProofs` | configurations for TLC / theorems, for every valid configuration | EXTENDS `Lease` |

### Registry and Consul

`local` is `Client.localServices`, `run` the run id, `h[c]` the local variables
of a handler goroutine and where it is inside `Register`. An action is one
Consul call or one locked section: `Begin` (lookup under the read lock),
`Replay`/`ReplayStore` (same request again), `Replace`/`ReplaceStore` (changed
request), `CheckDoc`/`PutDoc` (`ensureRouteDocument`), `RegisterService`,
`FirstLease`, `Store`. `Drain` and `Deregister` hold the lock throughout and are
one action each. `LeaseTick` takes the snapshot of a tick and `LeaseRefresh`
makes its calls. `Boot`, `CatalogRead`, `SweepQuery`, `SweepDeregister` are
`Start`; `Terminate`, `StopLeaseLoop`, `ShutdownDeregister` and `ShutdownDone` are
the shutdown as far as the client is concerned; `Crash` can come anywhere.

A request is a record: its `key` ("name:port"), service `name`, the route
document `doc` it builds, and the `rest` that only `sameRegisterRequest` looks
at. A call `Succeeds`, or `Fails`: refused, lost, or timed out with Consul still
to handle it (`late`). `Refused` covers unknown ids. Removing an unknown id may
also succeed, since Consul versions differ.

The catalog here holds the instances of this agent only: others carry another
`agent_id` and `cleanupPreviousRuns` passes over them.

### Watcher

`rd[r]` is where a goroutine is inside `refreshOnce` and what it has read. The
healthy instances of a service are abstracted to the number of changes they
went through, so that a view can be older than another, and a view read query
by query can be torn. `Compare`, `Build`, `SetSnapshot` are the locked part;
the mutex is "somebody is at build or set". The publish mutex of the runner is
always taken inside it and adds nothing. A view stands for its own fingerprint.

### EnvoyManager

Processes are numbered. `proc` is what the operating system knows, `waiter` the
goroutine that calls `cmd.Wait` (its store under the mutex and its `close` are two
steps), `watch` the local variables of `watchLoop`, one action per locked section
or wait. `Stop` keeps the mutex from its first to its last line, so `stop =
"waiting"` disables every other locked section (`Free`).

### Agent

`stage` is the statement of `Start` or `Shutdown` the main goroutine is at. The
Envoy variables are those of `EnvoyManager` and the listeners those of `Dns`, whose
actions are used as they are.
The rest of the system is reduced to what the order of start and shutdown can
get wrong. Of the registry that is `known`, whether its table has entries that
are not deregistered, and `stray`, whether Consul has an instance no such entry
names: one whose `ServiceRegister` succeeded and whose `passLease` or `store` did not
follow (`Strand`; `Reap` is Consul's). `Client.Shutdown` works off the table, so
`StopRegistry` leaves `stray` as it is. The deadline ends the wait of the admin server
and of the DNS server; `Client.Shutdown` and `GracefulStop` do not look at it. `ads` says
whether Envoy holds its ADS stream, on which `GracefulStop` waits.

### RouteDoc, Snapshot and Mesh

What comparisons and names make of strings is blanks and equality, so a string
is a number, and the negative number is the same string with blanks around it:
`Trim` is the absolute value. `Validate`, `Canonicalize`, `Equal`, `SameRegisterRequest`
and the keys (`LocalKey`, `RouteConfigRef`, `Group`, `ClusterName`) trim exactly what the
code trims. A method is a number whose tens are its service part.

`Snapshot!Build` turns a set of instances into virtual hosts and load assignments;
`Domains` is the one place where the order of the list shows. `Accepted` and `Reached`
are external: what Envoy refuses and where it routes.

`Mesh` has the handlers of `Register` of all hosts (`handling`), each at one call of
Consul or one access to its table: `Begin` (the lookup under the read lock), `Remove` and
`Forget` (a changed request: `ServiceDeregister`, then the entry), `CheckDoc` or `Refuse`
(`kv.Get` and the comparison), `PutDoc` (`kv.Put`, unconditional), `RegisterService`,
`PassLease`, `Store`; `Fail` ends a handler at any call. A call that times out and is executed
later is a handler that stays where it is until then and fails next. A handler whose run
is over is a call still on its way: Consul may execute it, and nobody goes on (`Live`,
`Goto`). That allows for more late calls than a client
that dies can leave, never for fewer. `table` is what each agent has in
`localServices` and not deregistered. `Restart` is a crash with the sweep of the next
run, which may miss instances; `Reap` and `HealthChanges` are Consul's. The no of an
instance stands for its id and only tells twins apart, so the first free one is taken.
`DocumentOf` tabulates the documents of the requests.

### Lease

Time advances in units when no step without duration is left (`Settled`). The
ticker's channel holds one tick (`Fire`). A round first takes the table
(`Take`, `Round`: `activeLocalServices`), for which it waits as long as a `Drain` or
`Deregister` holds the mutex over its Consul call (`holder`, `held`), and then refreshes
one service after the other. Each of these calls takes up to the request timeout,
if there is one: `Validate` accepts zero and negative timeouts, and then nothing
ends a call (`Limited`). A reader that waits goes before the next writer, as Go's
`RWMutex` has it, so that a round waits for one holder. `Register` passes the lease
(`Enrol`, `Replay`) and stores the entry later (`Store`); a tick in between passes the
service over, and `late` is how old its lease was by then.

### Dns

`Start` fills two fields and runs one listener in a goroutine and one itself;
`Shutdown`, in another goroutine, reads the fields without a lock. `found` records
which fields it saw. `ShutServer` is one `ShutdownContext`: an error for a server
that is not listening, and otherwise a wait that the deadline ends.

## 3. Runs

Passing:

| run | instance | shows |
|---|---|---|
| `registry_serial` | two services, three requests, one handler, two runs, crashes | one instance per key; Serving entries are in rotation; nothing of an old run after start; a clean exit leaves nothing |
| `registry_concurrent` | two handlers on one key, failing and late calls, lapses, reaping, crashes | `RegistryInv`; the agent loses sight of an instance only in a `Register` that was overtaken or whose call failed (`OnlyOvertakenLost`), an entry goes back only in a replay (`OnlyReplaysGoBack`); `CleanExit`; the refinement of `InstanceLife` |
| `registry_liveness` | one handler, two runs, failing, late and stale answers | orphans are reaped, lapsed leases come back |
| `watcher_locking` | two services, two handlers and the poller, all faults | `LockInv`, versions grow |
| `watcher_converges` | two services, one handler and the poller, one query that fails | fingerprint, convergence, a successful refresh has taken effect or was debounced |
| `envoy_restart` | four processes, all faults | `EnvoyInv`, one Envoy, `Stop` is final, a dead Envoy is restarted while the loop lives, refinement of `Supervisor` |
| `agent_shutdown` | managed Envoy with three processes, one stream, two DNS listeners, stray instances, all faults | `AgentInv`; control plane first, clean exits leave nothing the agent knows of, DNS released, shutdown ends |
| `mesh` | two agents in two clusters, two handlers, one service under two spellings, failing calls, one crash | `MeshInv`; only overlapping first registrations come to disagree; snapshots of instances that agree are accepted and requests arrive; order determined but for unknown instances; sweeps spare others |
| `lease` | two services, three configurations, one failed refresh, one handler, one drain or deregistration at a time | `LeaseInv`; what a configuration needs for its leases to be kept |

`registry_serial` has one handler and a Consul that answers, and its first, second and
fourth property do not hold otherwise: the admin server runs handlers at once, and
calls fail. They are what the code achieves without such overlap. What holds with
it is what `registry_concurrent` and `mesh` check, and what is proved.

Runs that end in a violation show where the code and what is written about it
disagree. Each is quoted in `PROJECT.json` under `findings`:

| run | what happens |
|---|---|
| `registry_replace` | changing the methods removes the service and then conflicts with its own stored document |
| `watcher_polling` | one failed query ends polling |
| `envoy_stop` | `Stop` waits, under the mutex, for a goroutine that needs the mutex |

Their bounds are far below those of the passing runs: the shortest
counterexample needs one or two actors and one fault.

### Known disagreements without a run of their own

They can be seen in the same modules, by changing a constant:

- `registry_serial` with two handlers: two registers of one key at once both
  find no entry and register two instances (`NoDuplicateRegistration`), of which the
  agent knows one; a replayed register stores the copy it read before a drain and
  turns the entry back to Serving (`ServingInRotation`). The comment at
  `registry/consul.go:347` says otherwise. `OnlyOvertakenLost` and `OnlyReplaysGoBack`
  allow for these two and for nothing else.
- `mesh`: two first registrations of one service with different documents both
  find none (`registry/consul.go:679`), and the second overwrites the document of the
  first (`:699`), under which instances may be registered by then, though the comment
  at `:387` says that a document in effect must be semantically the same.
  `OnlyFirstsDisagree` allows for this; snapshots of such instances carry a domain or a
  cluster name twice, so that `SnapshotsAccepted` and `RequestsArrive` ask for agreement.
- `mesh`, `agent_shutdown`: when `passLease` fails after `ServiceRegister` has succeeded, or an
  instance is overtaken, nothing in the table names it. Neither the lease loop nor
  `Client.Shutdown` hears of it, and it outlives an exit without error until Consul
  reaps it, though `app/app.go:225` says that registrations end with the agent.
- `host_ip` defaults to 127.0.0.1 (`config/config.go:155`): hosts of one cluster and zone
  that keep it share one `agent_id`, and the sweep of one takes the instances of all.
  `SweepSparesOthers` is about hosts with addresses of their own.
- `registry_serial` with the fault "app": once Consul has removed the instance of
  a dead process, its entry stays Serving (`ServingInRotation`), and a repeated
  register takes the `UpdateTTL` branch (`Replay`), which fails on the unknown
  check for as long as the agent runs.
- `Watcher`: a slow refresh publishes an older view over a newer one, since
  `Discover` reads before the lock; the next tick mends it (`Converges`).
  `RefreshTakesEffect` has to except the debounce interval, in which `RefreshNow`
  answers success without publishing, contrary to `discovery/watcher.go:86`.
- `watcher_converges` with the fault "set": `FingerprintServed` does not survive a
  publication that fails after the cache took the snapshot.
- `agent_shutdown` with `Managed = FALSE`: `GracefulStop` waits for the stream of an
  Envoy nobody stops, and `ShutdownEnds` fails.
- `envoy_restart` without `LoopOver` in `Restarted`: a restart that fails (fault "fork")
  leaves `cmd` nil, and `watchLoop` reads nil next and returns with its context
  alive, where `envoy/manager.go:135` has it run until the context is cancelled.
- `agent_shutdown`: an open `/watch` stream uses up the ten seconds in the admin
  server, `Shutdown` returns that error and the services stay registered, though
  `app/app.go:225` takes them out first of all so that registrations end with the
  agent. `CleanShutdown` is about exits without error only.
- `lease`: `config/config.go:361` asks for an interval strictly smaller than the TTL so
  that a registration does not lapse by itself. `LeaseKept` shows what it takes: with
  the request timeout T, n services, and f refreshes failed in a row, the lease lapses
  only if ttl <= late + Gap(f + 1) + (n + 1) * T, where Gap(1) is max(interval, n * T) and each
  further failure adds max(interval, (n + 1) * T); the last summand is a round that first
  waits for a drain or deregistration and is then slow throughout. With the
  defaults (3s, 10s, 3s) one service survives a slow Consul (9s), but no failed
  refresh, and two services do not survive a slow Consul (15s). An interval of 3s with
  a TTL of 8s, which `Validate` accepts, has no room for one slow `Deregister`.
- `lease`: a request timeout of zero or less passes `Validate` (`config/config.go:341`) and sets
  none (`registry/consul.go:135`): one call that hangs stops the lease loop, or keeps the
  mutex, and every lease may lapse. An interval of zero passes as well, and
  `time.NewTicker` panics on it, in `leaseLoop` as in `Watcher.Run`.
- `EnvoyManager`: `watchLoop` reads `waitDone` after it gave up the lock (`envoy/manager.go:151`).
  `Stop` may have cleared it by then; the loop waits for a nil channel for ever, a
  goroutine that is leaked and does nothing any more.
- `Dns`: a UDP goroutine that gets to listen only after `Start` has returned with
  TCP's error keeps listening (`dns/server.go:56`), until `Shutdown`.
- `mesh` with one domain for two services (`Concordant` excludes it), or with an instance
  of another registrar that breaks `ForeignAssumption`: Envoy refuses the whole route
  table. Instances of one service registered with different domains are served
  under that of the first of them only, which is why `RequestsArrive` asks peers to agree.
- `telemetry/otel.go:51` says that providers are installed when at least one signal
  is enabled; the condition leaves tracing out, so that tracing alone installs
  nothing. Telemetry has no module.
- `Agent`: the signal cancels the context Envoy was started with, so Envoy is
  killed before anything is drained, where `app/app.go:241` stops it last. A DNS
  server that could not listen makes `Shutdown` fail before xDS, Envoy and
  telemetry.

### Bounds

`MaxRuns` 2 lets a run find what another left behind; a third finds nothing
new, since cleanup compares with its own run id only. Two or three instance ids
are enough for a replacement, and a race, to draw a second one; `NoInstanceID`
is the step of a client that finds none. `MaxLate` 1 leaves one call in flight
after its client gave up, which may arrive after any later call. Two handlers
suffice for the races, as each involves one pair. `MaxChanges` 2 gives a
service an older, a newer and a newest view. `MaxFaults` counts failures in the
watcher, which are otherwise unrestricted. Four processes are three restarts,
and every state of the manager repeats after two. In `Watcher` the version
number is bounded by changes and faults, not by a constraint. In `watcher_converges`
one failed query is enough: it fails a handler whose registration has succeeded,
or ends the poller.

In `mesh` two agents are in two clusters, the second one with blanks around what it
was configured with. The service is registered on the first under two spellings,
which are one name and port to the table and two documents to Consul: a changed
request goes through `Remove` and `Forget`, and documents race on one host and on two.
Two `Caller`s are one pair that races; the first agent restarts once, with handlers at
work. `MaxTwins` 2 lets two handlers register one request, `MaxEntries` 2 lets a snapshot
have a near and a far instance. The run has one port, one domain and no second
service, and its sweeps find everything; what requests that differ in those come to,
and stale sweeps, is covered by the theorems, which hold for all requests and faults.

In `lease` the configurations (`SomeConfigs`) are one whose TTL is just above the bound
for two services while nothing fails and below it after a failure, or after a late
store; one without a request timeout; and one whose ticker panics. `MaxMissed` 1 is one
failed refresh in a row, `MaxHandlers` 1 one handler between its lease and its store,
`MaxLate` 1 the time it lets pass in between. A drain or deregistration can hold the
mutex at any time.

### Fairness

- Registry: Consul's timers run out for instances nobody refreshes, the ticker
  of the lease loop fires while the loop lives, its calls return (weak fairness)
  and do not fail each time (strong fairness of the successful refresh). Nothing
  is assumed of clients.
- Watcher: goroutines run on, the ticker fires, the debounce interval passes.
  The mutex gets strong fairness, because Go's mutex hands over to a waiter that
  has starved. Faults are never required.
- EnvoyManager: goroutines run on, timers fire, a killed process dies. Crashes,
  failing forks, signals and the call of `Stop` are not required.
- Agent: the main goroutine runs on, the deadline passes, a killed Envoy dies
  and its stream breaks. Clients, streams and signals come and go as they like.

`CHECK_DEADLOCK FALSE` appears where a behaviour may stop: the agent has exited,
all runs are used up, or all changes have happened.

## 4. Proofs

TLAPS proves the following for any number of handlers, services, instances, hosts
and processes and any set of faults, from the named assumptions on the constants.
Where a property does not survive some fault, its theorem assumes away that
fault only, as a hypothesis that its statement shows; the known disagreements
above are what happens without. Safety properties of passing runs without a theorem
are `NoDuplicateRegistration`, `ServingInRotation` and `CleanExitLeavesNothing`: they hold
with one handler only, which the code does not guarantee, and are left to TLC.

`RegistryProofs`
- `TypeCorrectness`: `Spec => []TypeOK`.
- `RegistryInvariance`: `Spec => []RegistryInv`; with it `LocalStateSafe`, that an
  entry shown Deregistered is not registered and one shown Draining gets no
  traffic. Neither is inductive by itself. A handler inside `Register` holds a copy
  of an entry and stores it later, so the copies must not be ahead of Consul
  (`HandlerCopies`); a late registration could bring a deregistered id back, so
  ids in anybody's hands have none pending (`IdsSettled`); and the keys of
  entries must match their requests (`KeysMatch`).
- `CleanExitHolds`: `Spec => CleanExit`, from `ShutdownCovers`: the snapshot taken
  by `Shutdown` covers every active entry for as long as it is worked off,
  because the admin server has let its handlers finish.
- `ImplementsInstanceLife`: `Spec => EachInstanceLivesOnce`; every step of
  `Registry` is a step of `InstanceLife` under `Life`, or leaves it unchanged.

`RegistryInstanceProofs`
- `NoOldRunLeftHolds`, if no call fails without being refused (`ConsulAnswers`, so that none
  arrives late: a late registration of the old run is what the sweep cannot see) and
  reads are not stale; any number of handlers and crashes. It follows from `CleanupInv`.
  During the cleanup everything drawn is of an earlier run (`RunsInOrder`), and each
  registered instance has its name or its id still to be worked off (`SweepCovers`).
- `OnlyOvertakenLostHolds`: `Spec => OnlyOvertakenLost`, for any number of handlers and every
  fault, from `SightInv`: a handler past the removal of the old instance holds the id of
  one that is gone, or none, and what `Shutdown` works off is in the table as it was
  copied. So a step that ends the agent's knowledge of a registered instance is the
  store of a handler over an entry it has not read (`Overtaken`), or the end of one whose
  call failed (`GivesUp`).
- `OnlyReplaysGoBackHolds`: `Spec => OnlyReplaysGoBack`, likewise, from `SightInv` and `HandsNew`: an
  instance that is not stored yet is in one hand only, so that a first store never
  meets an entry of the same id.

`WatcherProofs`
- `LockInvariance`: `Spec => [](TypeOK /\ LockInv)`, and `TypeCorrectness`. That the summary
  describes the served snapshot needs that only one goroutine is between comparison
  and store, and that what it has built is the newest version of all.
- `VersionsGrowHolds`: `Spec => VersionsGrow`.
- `FingerprintServedHolds`, if no publication fails after the cache took it ("set"):
  `Remembered` is inductive then, with or without a lock holder, since `SetSnapshot` alone
  changes what is served, together with `fingerprint`.
- `RefreshTakesEffectHolds`, if moreover reads are not stale ("stale"): each service whose
  change a handler asked for is still to be read or was read as it was then or newer
  (`HasRead`), and a view the handler finds unchanged is the one served (`Remembered`).

`EnvoyManagerProofs`
- `EnvoyInvariance`: `Spec => []EnvoyInv`. `ProcessInv`: only the process in `cmd`
  runs, and `cmd` and `waitDone` change together. `WatchInv`: when the loop cleans
  up, the channel it has seen closed is that of the process it read, or `Stop` has
  cleared both. `StopInv`: a successful `Stop` has cancelled the context, which
  `WatchRestart` looks at under the mutex.
- `OneEnvoyHolds` and `StopIsFinalHolds` follow from it.
- `ImplementsSupervisor`: `Spec => Supervises`. A start finds nobody running because
  `cmd` is nil there (`StartIsLaunch`); every other step of the goroutines leaves
  processes, context and result alone (`Hidden`).

`AgentProofs`
- `DrivesEnvoyManager`: `Spec => Envoy!Spec`. Each step of the agent is one of the manager
  or leaves its variables alone, so `EnvoyInvariance` holds in the agent as well.
- `AgentInvariance`: `Spec => []AgentInv`. The stage of the main goroutine tells what it
  has done: whether the xDS server is up (`XdsInv`), whether there can be an Envoy and
  whether the context is cancelled (`ProcessInv`), and which modules are down
  (`ShutdownInv`: past `StopRegistry` the table has no entry left, whatever `stray` is);
  `DnsInv` says that a shutdown of the DNS server without an error has closed each
  listener it found. After the exit nothing of the agent moves any more.
- `ControlPlaneFirstHolds`, `CleanShutdownHolds`, `DNSReleasedHolds` and `TypeCorrectness` follow.

`MeshProofs`
- `MeshInvariance`: `Spec => []MeshInv`. Where an instance is registered, or a handler about
  to register one, a document of its service has been written (`Written`); nothing is of a
  run to come (`RunsPast`); a table has the agent's own instances, one for a name and
  port (`TablesOwn`).
- `OnlyFirstsDisagreeHolds`. What is in play for a key is the stored document, those of the
  instances and those of handlers past the comparison (`Party`). Every step but one
  leaves that as it is or makes it less (`CalmKeepsParty`, `WritersKeepParty`); `CheckDoc` adds a
  document that equals the stored one, if there is one (`CheckDocAdds`), and if there is
  none everything in play is about to be written (`UnwrittenParty`, by `Written`), so that
  a disagreement is a `Race`. With it `AgreementHolds`: in behaviours without such a race all
  instances of all services are always on one document. The condition is one on the
  behaviour, which the code does not ensure; it is what a check-and-set would.
- `SnapshotsAcceptedHolds`, for what a host sees that is `Concordant`: two visible instances of
  one service have equal documents, hence one port and one spelling, hence one group;
  and one domain is that of one service (`DomainsDiffer`, `ClustersDiffer`).
- `RequestsArriveHolds`, likewise: the members of the group that an authority leads to are
  the healthy peers of the instance it was taken from (`PeersAreMembers`, `AuthorityLeads`),
  and an endpoint has priority 0 exactly on the caller's own cluster (`NearFirst`).
- `OrderDeterminedHolds` from `TablesOwn`; `SweepSparesOthersHolds` from the shape of `agent_id`, for
  hosts with addresses of their own.

`LeaseProofs`, for every number of services and handlers and every configuration
- `LeaseInvariance`: `Spec => []LeaseInv`. `LeaseKept` speaks of the moment a lease lapses;
  to be inductive it must bound the age of a check at every moment (`AgeInv`, where there
  is a request timeout). `Traced` gives three bounds, on top of `late` and in multiples of
  `Gap` for the refreshes that failed or are still to come: by the time since the ticker
  fired while there is no other tick, by the time the mutex was held and the calls of
  the round have taken, and by one more round while the loop waits.
- `LeaseKeptHolds` and `TypeCorrectness` follow.

Left to TLC: the liveness properties `OrphansReaped`, `LeaseRestored`, `Converges`, `Restarted`
and `ShutdownEnds`, since fairness and ENABLED are out of the prover's reach.

## 5. Not modelled

- Parts of a snapshot that are the same in every one: the listener, retries,
  circuit breakers, outlier detection, time-outs. Localities: endpoints carry
  their zone and priority.
- Characters of names: a cluster name joined with dots (`xds/snapshot.go:382`) is
  injective here, so that services with dots in their names that come to one cluster
  name are not seen. A weight above 2^32 - 1, which `Validate` accepts, is cut to its low
  32 bits (`xds/snapshot.go:351`), possibly to zero; weights are small here.
- Answers of handlers: a register of a draining entry renews its lease and answers
  with the copy it read.
- DNS answers, which depend on the question only and change nothing.
- Decoding and status codes of the admin interface; the read-only endpoints.
- Loading and defaults of `config`, its other fields, `envoy/bootstrap.go`, telemetry
  other than its shutdown: pure functions of a file, or without effect on the
  state modelled.
- Consul, gRPC, the xDS cache, the DNS library and the operating system are
  external and modelled as the code uses them.

## 6. Plan

Done: all components of section 1 that keep state, two abstract specifications
(`InstanceLife`, `Supervisor`) and seven proof modules, with a theorem for every
safety property of the passing runs that the code keeps with handlers that overlap.

Next, proving:
1. A bound on the instances of one key by the number of handlers that were at work on
   it, once TLC has shown it.
2. What holds of `Dns` by itself, as a specification of its own that `Agent` implements
   as it does `EnvoyManager`.
3. `FingerprintServed` for the faults after which it recovers: the next publication
   that succeeds.
