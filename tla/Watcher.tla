------------------------------ MODULE Watcher ------------------------------
(***************************************************************************)
(* discovery.Watcher with what it feeds: the background poller and the     *)
(* RefreshNow of admin handlers read Consul one query at a time, compare   *)
(* with what was last published, and publish through xds.Server to the     *)
(* snapshot cache Envoy is served from.                                    *)
(*                                                                         *)
(* The healthy instances of a service are represented by the number of     *)
(* changes they went through (0: not in the catalog), so that one view of  *)
(* the catalog can be seen to be older than another.                       *)
(***************************************************************************)
EXTENDS Naturals

CONSTANTS
  Service,     \* names in the Consul catalog
  Caller,      \* admin handlers
  Poller,      \* the goroutine in Watcher.Run
  None,        \* no fingerprint yet
  MaxChanges,  \* bound: changes of one service
  MaxFaults,   \* bound: faults in a behaviour
  Faults       \* which of "read", "stale", "build", "set" can happen

ASSUME WatcherConstants ==
  /\ MaxChanges \in Nat \ {0} /\ MaxFaults \in Nat
  /\ Faults \subseteq {"read", "stale", "build", "set"}
  /\ Poller \notin Caller

VARIABLES
  catalog,   \* the healthy instances at Consul
  rd,        \* the local variables of each goroutine inside refreshOnce
  fingerprint, \* Watcher.lastFingerprint
  lastPublishAt, \* Watcher.lastPublishAt: zero, recent (less than
                 \* debounceInterval ago) or past
  version,   \* Builder.version
  summary,   \* Builder.summary.Version
  served,    \* the snapshot in the xDS cache
  context,   \* the context of Run
  faultsLeft

watcherVars == <<fingerprint, lastPublishAt>>
xdsVars == <<version, summary, served>>
vars == <<catalog, rd, fingerprint, lastPublishAt, version, summary, served, context, faultsLeft>>

Reader == Caller \cup {Poller}
View == [Service -> 0..MaxChanges]
Snapshot == [version : Nat, view : View]

ASSUME NoneIsNoView == None \notin View

PC == {"idle", "catalog", "health", "lock", "build", "set", "failed", "ended"}
\* asked: what an admin handler had changed before it called RefreshNow.
Goroutine == [pc : PC, asked : View, todo : SUBSET Service, seen : View, built : Nat]

Empty == [s \in Service |-> 0]
Resting(pc) == [pc |-> pc, asked |-> Empty, todo |-> {}, seen |-> Empty, built |-> 0]

TypeOK ==
  /\ catalog \in View
  /\ rd \in [Reader -> Goroutine]
  /\ fingerprint \in View \cup {None}
  /\ lastPublishAt \in {"zero", "recent", "past"} /\ context \in {"live", "cancelled"}
  /\ version \in Nat /\ summary \in Nat
  /\ served \in Snapshot
  /\ faultsLeft \in 0..MaxFaults

\* Runner.Start has published the empty snapshot before it starts the poller.
Init ==
  /\ catalog \in [Service -> 0..1]
  /\ rd = [r \in Reader |-> Resting("idle")]
  /\ fingerprint = None /\ lastPublishAt = "zero"
  /\ version = 1 /\ summary = 1
  /\ served = [version |-> 1, view |-> Empty]
  /\ context = "live"
  /\ faultsLeft = MaxFaults

-----------------------------------------------------------------------------

At(r, pc) == rd[r].pc = pc
Goto(r, pc) == rd' = [rd EXCEPT ![r].pc = pc]

\* refreshOnce returns nil.
Return(r) == rd' = [rd EXCEPT ![r] = Resting("idle")]

\* refreshOnce returns an error: the handler answers 500, the poller is over.
Error(r) == rd' = [rd EXCEPT ![r] = Resting("failed")]

Fault(kind) ==
  /\ kind \in Faults /\ faultsLeft > 0
  /\ faultsLeft' = faultsLeft - 1

Sound == UNCHANGED faultsLeft

\* The watcher's mutex is held from the comparison until the store.
Locked == \E r \in Reader : rd[r].pc \in {"build", "set"}

Changed(s) ==
  /\ catalog[s] < MaxChanges
  /\ catalog' = [catalog EXCEPT ![s] = @ + 1]

-----------------------------------------------------------------------------
\* Instances of other hosts come and go.
RemoteChange(s) ==
  /\ Changed(s)
  /\ UNCHANGED <<rd, watcherVars, xdsVars, context>> /\ Sound

\* register, drain and deregister: the registry call first, then RefreshNow.
\* Registering the same service again changes nothing but refreshes too.
HandlerRefresh(c, s) ==
  /\ rd[c].pc \in {"idle", "failed"}
  /\ Changed(s) \/ UNCHANGED catalog
  /\ rd' = [rd EXCEPT ![c] = [Resting("catalog") EXCEPT !.asked[s] = catalog'[s]]]
  /\ UNCHANGED <<watcherVars, xdsVars, context>> /\ Sound

\* The first refresh of Run, and one for each tick; a tick and a cancelled
\* context that are both ready are picked from at random.
Tick ==
  /\ At(Poller, "idle")
  /\ Goto(Poller, "catalog")
  /\ UNCHANGED <<catalog, watcherVars, xdsVars, context>> /\ Sound

PollerEnds ==
  /\ At(Poller, "idle") /\ context = "cancelled"
  /\ rd' = [rd EXCEPT ![Poller] = Resting("ended")]
  /\ UNCHANGED <<catalog, watcherVars, xdsVars, context>> /\ Sound

Cancel ==
  /\ context = "live" /\ context' = "cancelled"
  /\ UNCHANGED <<catalog, rd, watcherVars, xdsVars>> /\ Sound

-----------------------------------------------------------------------------
(* Discover: the service names, then the passing instances of each name.   *)

Answer(s) ==
  {<<catalog[s], faultsLeft>>} \cup
  {<<v, faultsLeft - 1>> : v \in IF "stale" \in Faults /\ faultsLeft > 0
                                 THEN 0..(catalog[s] - 1) ELSE {}}

ReadCatalog(r) ==
  /\ At(r, "catalog")
  /\ LET names == {s \in Service : catalog[s] > 0}
     IN rd' = [rd EXCEPT ![r].pc = IF names = {} THEN "lock" ELSE "health", ![r].todo = names]
  /\ UNCHANGED <<catalog, watcherVars, xdsVars, context>> /\ Sound

ReadHealth(r, s) ==
  /\ At(r, "health") /\ s \in rd[r].todo
  /\ \E answer \in Answer(s) :
       /\ rd' = [rd EXCEPT ![r] = [rd[r] EXCEPT !.todo = @ \ {s}, !.seen[s] = answer[1],
                                   !.pc = IF rd[r].todo = {s} THEN "lock" ELSE "health"]]
       /\ faultsLeft' = answer[2]
  /\ UNCHANGED <<catalog, watcherVars, xdsVars, context>>

ReadFails(r) ==
  /\ rd[r].pc \in {"catalog", "health"} /\ Fault("read")
  /\ Error(r)
  /\ UNCHANGED <<catalog, watcherVars, xdsVars, context>>

-----------------------------------------------------------------------------
(* The locked part of refreshOnce.                                         *)

Unchanged(r) == rd[r].seen = fingerprint
Debounced == lastPublishAt = "recent"

\* Variant with a mistake: the mutex is taken around the comparison only.
CompareUnlocked(r) ==
  /\ At(r, "lock")
  /\ IF Unchanged(r) \/ Debounced THEN Return(r) ELSE Goto(r, "build")
  /\ UNCHANGED <<catalog, watcherVars, xdsVars, context>> /\ Sound

\* Variant with a mistake: a debounced view counts as published.
CompareStores(r) ==
  /\ At(r, "lock") /\ ~Locked
  /\ IF Unchanged(r) \/ Debounced THEN Return(r) ELSE Goto(r, "build")
  /\ fingerprint' = rd[r].seen
  /\ UNCHANGED <<catalog, lastPublishAt, xdsVars, context>> /\ Sound

\* Variant with a mistake: a debounced refresh is put aside and not resumed.
CompareParks(r) ==
  /\ At(r, "lock") /\ ~Locked
  /\ IF Unchanged(r) THEN Return(r) ELSE Goto(r, IF Debounced THEN "later" ELSE "build")
  /\ UNCHANGED <<catalog, watcherVars, xdsVars, context>> /\ Sound

\* An unchanged view ends the refresh, and so does one seen too soon after
\* the last publication; both are a success to the caller.
Compare(r) ==
  /\ At(r, "lock") /\ ~Locked
  /\ IF Unchanged(r) \/ Debounced THEN Return(r) ELSE Goto(r, "build")
  /\ UNCHANGED <<catalog, watcherVars, xdsVars, context>> /\ Sound

\* Builder.Build numbers the snapshot and stores the summary of it.
Build(r) ==
  /\ At(r, "build")
  /\ version' = version + 1 /\ summary' = version + 1
  /\ rd' = [rd EXCEPT ![r].pc = "set", ![r].built = version + 1]
  /\ UNCHANGED <<catalog, watcherVars, served, context>> /\ Sound

\* A listener that cannot be built fails before the number is drawn, an
\* inconsistent snapshot after.
BuildFails(r) ==
  /\ At(r, "build") /\ Fault("build")
  /\ version' \in {version, version + 1}
  /\ Error(r)
  /\ UNCHANGED <<catalog, watcherVars, summary, served, context>>

\* Variant with a mistake: the view is not remembered.
SetSnapshotForgets(r) ==
  /\ At(r, "set")
  /\ served' = [version |-> rd[r].built, view |-> rd[r].seen]
  /\ lastPublishAt' = "recent"
  /\ Return(r)
  /\ UNCHANGED <<catalog, fingerprint, version, summary, context>> /\ Sound

\* The cache takes the snapshot, the watcher remembers fingerprint and time.
SetSnapshot(r) ==
  /\ At(r, "set")
  /\ served' = [version |-> rd[r].built, view |-> rd[r].seen]
  /\ fingerprint' = rd[r].seen /\ lastPublishAt' = "recent"
  /\ Return(r)
  /\ UNCHANGED <<catalog, version, summary, context>> /\ Sound

\* The cache keeps the snapshot even when a watch cannot be answered.
SetSnapshotFails(r) ==
  /\ At(r, "set") /\ Fault("set")
  /\ served' = [version |-> rd[r].built, view |-> rd[r].seen]
  /\ Error(r)
  /\ UNCHANGED <<catalog, watcherVars, version, summary, context>>

DebounceElapses ==
  /\ lastPublishAt = "recent" /\ lastPublishAt' = "past"
  /\ UNCHANGED <<catalog, rd, fingerprint, xdsVars, context>> /\ Sound

RefreshStep(r) ==
  \/ ReadCatalog(r) \/ (\E s \in Service : ReadHealth(r, s)) \/ ReadFails(r)
  \/ Compare(r) \/ Build(r) \/ BuildFails(r) \/ SetSnapshot(r) \/ SetSnapshotFails(r)

Next ==
  \/ \E s \in Service : RemoteChange(s) \/ \E c \in Caller : HandlerRefresh(c, s)
  \/ Tick \/ PollerEnds \/ Cancel
  \/ \E r \in Reader : RefreshStep(r)
  \/ DebounceElapses

Spec == Init /\ [][Next]_vars

\* Goroutines run on, the ticker fires, time passes, and Go's mutex lets
\* everyone in who waits for it; faults are possible, never due.
Fairness ==
  /\ \A r \in Reader :
       /\ WF_vars(ReadCatalog(r) \/ \E s \in Service : ReadHealth(r, s))
       /\ SF_vars(Compare(r)) /\ WF_vars(Build(r)) /\ WF_vars(SetSnapshot(r))
  /\ WF_vars(Tick) /\ WF_vars(DebounceElapses)

FairSpec == Spec /\ Fairness
-----------------------------------------------------------------------------
\* Publication is serialised: between two of them the debug summary describes
\* the very snapshot Envoy is served, also after failed ones and whichever
\* refreshers raced for the lock.
SummaryServed == ~Locked => summary = served.version

\* Envoy never sees a version number come back or go down, so it never takes
\* a new snapshot for one it already has.
VersionsGrow == [][served' # served => served'.version > served.version]_vars

\* Why: one refresher at a time between lock and store, and what it has built
\* is the newest of all.
Inside(r) == rd[r].pc \in {"build", "set"}

LockInv ==
  /\ \A r, q \in Reader : Inside(r) /\ Inside(q) => r = q
  /\ summary <= version
  /\ SummaryServed
  /\ \A r \in Reader : At(r, "build") => summary = served.version
  /\ \A r \in Reader :
       At(r, "set") => rd[r].built = version /\ summary = version /\ served.version < version

\* While nothing fails, what the watcher compares with is what Envoy is
\* served, from the first publication on: no view is dropped as "unchanged" or
\* "debounced" yet remembered, none is published and forgotten.
FingerprintServed ==
  ~Locked => IF fingerprint = None THEN served.version = 1 ELSE fingerprint = served.view

PollerOver == rd[Poller].pc \in {"failed", "ended"}

\* Once Consul is quiet, Envoy is served exactly what Consul holds - whatever
\* torn or outdated views were published on the way - unless the poller is
\* over.
Converges == <>[](served.view = catalog \/ PollerOver)

\* RefreshNow is how an admin handler makes its own change take effect: when
\* it answers with success, Envoy is served that change or a later one, and
\* only the debounce interval excuses it.  It is so although other refreshers
\* publish between the handler's reads and its turn at the lock.
RefreshTakesEffect ==
  [][\A c \in Caller :
       rd[c].pc \in {"lock", "set"} /\ rd'[c].pc = "idle"
         => Debounced \/ \A s \in Service : served'.view[s] >= rd[c].asked[s]]_vars

\* The watcher polls periodically and publishes what has changed: a failed
\* query is made up for by a later poll, until the agent is stopped.
PollingGoesOn == <>[](served.view = catalog \/ context = "cancelled")
=============================================================================
