--------------------------- MODULE WatcherProofs ---------------------------
(***************************************************************************)
(* Watcher for any number of refreshing goroutines, services and faults:   *)
(* publication is serialised by the watcher's mutex, the versions Envoy is *)
(* served only grow, what the watcher compares with is what Envoy has, and *)
(* a handler whose refresh succeeds has its own change served.             *)
(***************************************************************************)
EXTENDS Watcher, TLAPS

LEMMA RestingTypes ==
  ASSUME NEW pc \in PC
  PROVE  Resting(pc) \in Goroutine /\ Resting(pc).pc = pc
<1>1. Empty \in View
  BY WatcherConstants DEF Empty, View
<1> QED
  BY <1>1 DEF Resting, Goroutine

\* What a step of one goroutine does to rd.
Moves(r) ==
  /\ r \in Reader
  /\ \E g \in Goroutine : rd' = [rd EXCEPT ![r] = g]

LEMMA ReturnMoves ==
  ASSUME TypeOK, NEW r \in Reader, Return(r) \/ Error(r)
  PROVE  Moves(r) /\ rd'[r].pc \in {"idle", "failed"}
<1>1. Resting("idle") \in Goroutine /\ Resting("failed") \in Goroutine
  BY RestingTypes DEF PC
<1>2. Resting("idle").pc = "idle" /\ Resting("failed").pc = "failed"
  BY RestingTypes DEF PC
<1> QED
  BY <1>1, <1>2 DEF Return, Error, Moves, TypeOK

LEMMA GotoMoves ==
  ASSUME TypeOK, NEW r \in Reader, NEW pc \in PC, Goto(r, pc)
  PROVE  Moves(r) /\ rd'[r].pc = pc /\ rd'[r].built = rd[r].built
<1>1. [rd[r] EXCEPT !.pc = pc] \in Goroutine
  BY DEF TypeOK, Goroutine
<1>2. rd' = [rd EXCEPT ![r] = [rd[r] EXCEPT !.pc = pc]]
  BY DEF Goto
<1> QED
  BY <1>1, <1>2 DEF Moves, TypeOK, Goroutine

\* Steps outside the locked section neither enter it nor touch what it guards.
Outside(r) ==
  /\ Moves(r) /\ ~Inside(r) /\ rd'[r].pc \notin {"build", "set"}
  /\ UNCHANGED <<version, summary, served>>

LEMMA OutsideKeepsInv ==
  ASSUME TypeOK, LockInv, NEW r \in Reader, Outside(r)
  PROVE  LockInv'
<1>1. \A q \in Reader : q # r => rd'[q] = rd[q]
  BY DEF Outside, Moves, TypeOK
<1>2. \A q \in Reader : Inside(q)' <=> Inside(q)
  BY <1>1 DEF Outside, Inside
<1>3. \A q \in Reader : Inside(q)' => rd'[q] = rd[q]
  BY <1>1 DEF Outside, Inside
<1>4. Locked' <=> Locked
  BY <1>2 DEF Locked, Inside
<1> QED
  BY <1>1, <1>2, <1>3, <1>4 DEF LockInv, Outside, SummaryServed, At, Inside

LEMMA OutsideSteps ==
  ASSUME TypeOK, NEW r \in Reader,
         \/ ReadCatalog(r) \/ (\E s \in Service : ReadHealth(r, s)) \/ ReadFails(r)
         \/ r = Poller /\ (Tick \/ PollerEnds)
         \/ r \in Caller /\ \E s \in Service : HandlerRefresh(r, s)
  PROVE  Outside(r)
<1> USE DEF Outside, xdsVars, Inside
<1>1. CASE ReadCatalog(r)
  <2>1. PICK names \in SUBSET Service :
          rd' = [rd EXCEPT ![r].pc = IF names = {} THEN "lock" ELSE "health", ![r].todo = names]
    BY <1>1 DEF ReadCatalog
  <2> DEFINE g == [rd[r] EXCEPT !.pc = IF names = {} THEN "lock" ELSE "health", !.todo = names]
  <2>2. g \in Goroutine /\ g.pc \in {"lock", "health"}
    BY DEF TypeOK, Goroutine, PC
  <2>3. rd' = [rd EXCEPT ![r] = g]
    BY <2>1 DEF TypeOK
  <2> HIDE DEF g
  <2> QED
    BY <1>1, <2>2, <2>3 DEF ReadCatalog, At, Moves, TypeOK
<1>2. ASSUME NEW s \in Service, ReadHealth(r, s) PROVE Outside(r)
  <2>1. PICK answer \in Answer(s) :
          rd' = [rd EXCEPT ![r] = [rd[r] EXCEPT !.todo = @ \ {s}, !.seen[s] = answer[1],
                                   !.pc = IF rd[r].todo = {s} THEN "lock" ELSE "health"]]
    BY <1>2 DEF ReadHealth
  <2>2. answer[1] \in 0..MaxChanges
    BY WatcherConstants DEF Answer, TypeOK, View
  <2> DEFINE g == [rd[r] EXCEPT !.todo = @ \ {s}, !.seen[s] = answer[1],
                                !.pc = IF rd[r].todo = {s} THEN "lock" ELSE "health"]
  <2>3. g \in Goroutine /\ g.pc \in {"lock", "health"}
    BY <2>2 DEF TypeOK, Goroutine, PC, View
  <2>4. rd' = [rd EXCEPT ![r] = g]
    BY <2>1
  <2> HIDE DEF g
  <2> QED
    BY <1>2, <2>3, <2>4 DEF ReadHealth, At, Moves, TypeOK
<1>3. CASE ReadFails(r)
  BY <1>3, ReturnMoves DEF ReadFails
<1>4. CASE r = Poller /\ Tick
  BY <1>4, GotoMoves DEF Tick, At, PC
<1>5. CASE r = Poller /\ PollerEnds
  BY <1>5, RestingTypes DEF PollerEnds, At, PC, Moves, TypeOK
<1>6. ASSUME NEW s \in Service, r \in Caller, HandlerRefresh(r, s) PROVE Outside(r)
  <2>1. catalog'[s] \in 0..MaxChanges
    BY <1>6, WatcherConstants DEF HandlerRefresh, Changed, TypeOK, View
  <2> DEFINE g == [Resting("catalog") EXCEPT !.asked[s] = catalog'[s]]
  <2>2. g \in Goroutine /\ g.pc = "catalog"
    BY <2>1, RestingTypes DEF Goroutine, PC, View
  <2>3. rd' = [rd EXCEPT ![r] = g]
    BY <1>6 DEF HandlerRefresh
  <2> HIDE DEF g
  <2> QED
    BY <1>6, <2>2, <2>3 DEF HandlerRefresh, Moves, TypeOK
<1> QED
  BY <1>1, <1>2, <1>3, <1>4, <1>5, <1>6

-----------------------------------------------------------------------------
\* The locked section.

LEMMA CompareStep ==
  ASSUME TypeOK, LockInv, NEW r \in Reader, Compare(r)
  PROVE  Moves(r) /\ LockInv'
<1>1. CASE Return(r)
  <2>1. Outside(r)
    BY <1>1, ReturnMoves DEF Compare, Outside, xdsVars, At, Inside
  <2> QED
    BY <2>1, OutsideKeepsInv DEF Outside
<1>2. CASE Goto(r, "build")
  <2>1. Moves(r) /\ rd'[r].pc = "build" /\ UNCHANGED <<version, summary, served>>
    BY <1>2, GotoMoves DEF Compare, PC, xdsVars
  <2>2. \A q \in Reader : q # r => rd'[q] = rd[q]
    BY <2>1 DEF Moves, TypeOK
  <2>3. \A q \in Reader : ~Inside(q)
    BY DEF Compare, Locked, Inside
  <2>4. \A q \in Reader : Inside(q)' <=> q = r
    BY <2>1, <2>2, <2>3 DEF Inside
  <2>5. summary = served.version
    BY <2>3 DEF LockInv, SummaryServed, Locked, Inside
  <2> QED
    BY <2>1, <2>4, <2>5 DEF LockInv, SummaryServed, Locked, Inside, At
<1> QED
  BY <1>1, <1>2 DEF Compare

\* In the locked section nobody else is, so the step of r decides alone.
LEMMA InsideStep ==
  ASSUME TypeOK, LockInv, NEW r \in Reader, Inside(r), Moves(r),
         summary' <= version',
         rd'[r].pc \notin {"build", "set"} => summary' = served'.version,
         rd'[r].pc = "build" => summary' = served'.version,
         rd'[r].pc = "set" => /\ rd'[r].built = version' /\ summary' = version'
                             /\ served'.version < version'
  PROVE  LockInv'
<1>1. \A q \in Reader : q # r => rd'[q] = rd[q]
  BY DEF Moves, TypeOK
<1>2. \A q \in Reader : Inside(q)' => q = r
  BY <1>1 DEF LockInv, Inside
<1>3. SummaryServed'
  BY DEF SummaryServed, Locked
<1> QED
  BY <1>2, <1>3 DEF LockInv, At, Inside

LEMMA LockedSteps ==
  ASSUME TypeOK, LockInv, NEW r \in Reader,
         Build(r) \/ BuildFails(r) \/ SetSnapshot(r) \/ SetSnapshotFails(r)
  PROVE  Moves(r) /\ LockInv' /\ (served' # served => served'.version > served.version)
<1> USE DEF At
<1>1. version \in Nat /\ summary \in Nat /\ served.version \in Nat
  BY DEF TypeOK, Snapshot
<1>2. CASE Build(r)
  <2> DEFINE g == [rd[r] EXCEPT !.pc = "set", !.built = version + 1]
  <2>1. g \in Goroutine /\ g.pc = "set" /\ g.built = version + 1
    <3>1. rd[r] \in Goroutine /\ version + 1 \in Nat /\ "set" \in PC
      BY <1>1 DEF TypeOK, PC
    <3> QED
      BY <3>1 DEF Goroutine
  <2>2. rd' = [rd EXCEPT ![r] = g]
    BY <1>2 DEF Build, TypeOK
  <2> HIDE DEF g
  <2>3. Moves(r) /\ rd'[r] = g
    BY <2>1, <2>2 DEF Moves, TypeOK
  <2>4. Inside(r) /\ summary = served.version /\ served' = served
    BY <1>2 DEF Build, Inside, LockInv
  <2>5. summary <= version
    BY DEF LockInv
  <2> QED
    <3>1. version' = version + 1 /\ summary' = version + 1
      BY <1>2 DEF Build
    <3>2. summary' <= version' /\ served'.version < version'
      BY <1>1, <2>4, <2>5, <3>1
    <3>3. rd'[r].pc = "set" /\ rd'[r].built = version' /\ summary' = version'
      BY <2>1, <2>3, <3>1
    <3> QED
      BY <2>3, <2>4, <3>2, <3>3, InsideStep
<1>3. CASE BuildFails(r)
  <2>1. Moves(r) /\ rd'[r].pc \in {"idle", "failed"}
    BY <1>3, ReturnMoves DEF BuildFails
  <2>2. Inside(r) /\ summary = served.version /\ UNCHANGED <<served, summary>>
    BY <1>3 DEF BuildFails, Inside, LockInv
  <2>3. summary <= version'
    BY <1>1, <1>3 DEF BuildFails, LockInv
  <2> QED
    BY <2>1, <2>2, <2>3, InsideStep
<1>4. CASE SetSnapshot(r) \/ SetSnapshotFails(r)
  <2>1. /\ At(r, "set") /\ (Return(r) \/ Error(r))
        /\ served' = [version |-> rd[r].built, view |-> rd[r].seen]
        /\ UNCHANGED <<version, summary>>
    BY <1>4 DEF SetSnapshot, SetSnapshotFails
  <2>2. Moves(r) /\ rd'[r].pc \in {"idle", "failed"}
    BY <2>1, ReturnMoves
  <2>3. Inside(r) /\ rd[r].built = version /\ summary = version /\ served.version < version
    BY <2>1 DEF Inside, LockInv
  <2>4. served'.version = version
    BY <2>1, <2>3
  <2> QED
    BY <1>1, <2>1, <2>2, <2>3, <2>4, InsideStep
<1> QED
  BY <1>2, <1>3, <1>4

-----------------------------------------------------------------------------

LEMMA TypesWithoutMoves ==
  ASSUME TypeOK, [Next]_vars
  PROVE  /\ catalog' \in View
         /\ fingerprint' \in View \cup {None}
         /\ lastPublishAt' \in {"zero", "recent", "past"}
         /\ context' \in {"live", "cancelled"}
         /\ version' \in Nat /\ summary' \in Nat /\ served' \in Snapshot
         /\ faultsLeft' \in 0..MaxFaults
<1> USE DEF TypeOK, watcherVars, xdsVars
<1>1. ASSUME NEW s \in Service, RemoteChange(s) \/ \E c \in Caller : HandlerRefresh(c, s)
      PROVE  catalog' \in View /\ UNCHANGED <<watcherVars, xdsVars, context, faultsLeft>>
  BY <1>1, WatcherConstants DEF RemoteChange, HandlerRefresh, Changed, View, Sound
<1>2. ASSUME NEW kind, Fault(kind) PROVE faultsLeft' \in 0..MaxFaults
  BY <1>2, WatcherConstants DEF Fault
<1>3. ASSUME NEW r \in Reader, NEW s \in Service, ReadHealth(r, s)
      PROVE  faultsLeft' \in 0..MaxFaults
             /\ UNCHANGED <<catalog, watcherVars, xdsVars, context>>
  BY <1>3, WatcherConstants DEF ReadHealth, Answer
<1>4. ASSUME NEW r \in Reader, SetSnapshot(r) \/ SetSnapshotFails(r)
      PROVE  served' \in Snapshot /\ fingerprint' \in View \cup {None}
  BY <1>4 DEF SetSnapshot, SetSnapshotFails, Snapshot, Goroutine
<1>5. ASSUME NEW r \in Reader, RefreshStep(r)
      PROVE  /\ catalog' \in View
             /\ fingerprint' \in View \cup {None}
             /\ lastPublishAt' \in {"zero", "recent", "past"}
             /\ context' \in {"live", "cancelled"}
             /\ version' \in Nat /\ summary' \in Nat /\ served' \in Snapshot
             /\ faultsLeft' \in 0..MaxFaults
  <2>1. CASE ReadCatalog(r) \/ Compare(r)
    BY <2>1 DEF ReadCatalog, Compare, Sound
  <2>2. CASE \E s \in Service : ReadHealth(r, s)
    BY <1>3, <2>2
  <2>3. CASE ReadFails(r)
    BY <1>2, <2>3 DEF ReadFails
  <2>4. CASE Build(r)
    BY <2>4 DEF Build, Sound
  <2>5. CASE BuildFails(r)
    BY <1>2, <2>5 DEF BuildFails
  <2>6. CASE SetSnapshot(r)
    BY <1>4, <2>6 DEF SetSnapshot, Sound
  <2>7. CASE SetSnapshotFails(r)
    BY <1>2, <1>4, <2>7 DEF SetSnapshotFails
  <2> QED
    BY <1>5, <2>1, <2>2, <2>3, <2>4, <2>5, <2>6, <2>7 DEF RefreshStep
<1>6. CASE Tick \/ PollerEnds \/ Cancel \/ DebounceElapses
  BY <1>6 DEF Tick, PollerEnds, Cancel, DebounceElapses, Sound
<1>7. CASE UNCHANGED vars
  BY <1>7 DEF vars
<1> QED
  BY <1>1, <1>5, <1>6, <1>7 DEF Next

\* What every step does: rd keeps its type, the lock its invariant, and a
\* publication is a newer one.
GoodStep ==
  /\ rd' \in [Reader -> Goroutine] /\ LockInv'
  /\ served' # served => served'.version > served.version

LEMMA NextSteps ==
  ASSUME TypeOK, LockInv, [Next]_vars
  PROVE  /\ TypeOK' /\ LockInv'
         /\ served' # served => served'.version > served.version
<1>1. ASSUME NEW r \in Reader, Moves(r) PROVE rd' \in [Reader -> Goroutine]
  BY <1>1 DEF Moves, TypeOK
<1>2. ASSUME NEW r \in Reader, Outside(r) PROVE GoodStep
  BY <1>1, <1>2, OutsideKeepsInv DEF Outside, GoodStep
<1>3. ASSUME NEW r \in Reader, RefreshStep(r) PROVE GoodStep
  <2>1. CASE Compare(r)
    BY <1>1, <2>1, CompareStep DEF Compare, xdsVars, GoodStep
  <2>2. CASE Build(r) \/ BuildFails(r) \/ SetSnapshot(r) \/ SetSnapshotFails(r)
    BY <1>1, <2>2, LockedSteps DEF GoodStep
  <2> QED
    BY <1>2, <1>3, <2>1, <2>2, OutsideSteps DEF RefreshStep
<1>4. ASSUME NEW s \in Service, NEW c \in Caller, HandlerRefresh(c, s) PROVE GoodStep
  BY <1>2, <1>4, OutsideSteps DEF Reader
<1>5. ASSUME Tick \/ PollerEnds PROVE GoodStep
  <2>1. Poller \in Reader
    BY DEF Reader
  <2>2. Outside(Poller)
    BY <1>5, <2>1, OutsideSteps
  <2> QED
    BY <1>2, <2>1, <2>2
<1>6. ASSUME UNCHANGED <<rd, version, summary, served>> PROVE GoodStep
  <2>1. LockInv'
    BY <1>6 DEF LockInv, SummaryServed, Locked, Inside, At
  <2> QED
    BY <1>6, <2>1 DEF TypeOK, GoodStep
<1>7. GoodStep
  <2>1. CASE Cancel \/ DebounceElapses \/ UNCHANGED vars \/ \E s \in Service : RemoteChange(s)
    <3>1. UNCHANGED <<rd, version, summary, served>>
      BY <2>1 DEF RemoteChange, Cancel, DebounceElapses, xdsVars, vars
    <3> QED
      BY <1>6, <3>1
  <2> QED
    BY <1>3, <1>4, <1>5, <2>1 DEF Next
<1> QED
  BY <1>7, TypesWithoutMoves DEF TypeOK, GoodStep

LEMMA InitHolds == Init => TypeOK /\ LockInv
<1> SUFFICES ASSUME Init PROVE TypeOK /\ LockInv
  OBVIOUS
<1>1. Empty \in View /\ catalog \in View
  BY WatcherConstants DEF Init, Empty, View
<1>2. \A r \in Reader : rd[r] = Resting("idle")
  BY DEF Init
<1>3. Resting("idle") \in Goroutine /\ Resting("idle").pc = "idle"
  BY RestingTypes DEF PC
<1>4. rd \in [Reader -> Goroutine]
  BY <1>3 DEF Init
<1>5. TypeOK
  BY <1>1, <1>4, WatcherConstants DEF Init, TypeOK, Snapshot
<1>6. LockInv
  BY <1>2, <1>3 DEF Init, LockInv, SummaryServed, Inside, At
<1> QED
  BY <1>5, <1>6

\* Publication is serialised by the watcher's mutex: one refresh at a time is
\* between comparison and store, what it has built is the newest snapshot, and
\* between publications the debug summary is that of the served snapshot.
THEOREM LockInvariance == Spec => [](TypeOK /\ LockInv)
<1>1. TypeOK /\ LockInv /\ [Next]_vars => (TypeOK /\ LockInv)'
  BY NextSteps
<1> QED
  BY <1>1, InitHolds, PTL DEF Spec

\* Every snapshot Envoy is given carries a higher version than the one before,
\* whichever refreshers raced and whatever failed.
THEOREM VersionsGrowHolds == Spec => VersionsGrow
<1>1. TypeOK /\ LockInv /\ [Next]_vars
        => [served' # served => served'.version > served.version]_vars
  BY NextSteps
<1> QED
  BY <1>1, LockInvariance, PTL DEF Spec, VersionsGrow

\* Every variable keeps its type: refreshers hold views of the catalog only,
\* and the remembered fingerprint is a view or none at all.
THEOREM TypeCorrectness == Spec => []TypeOK
BY LockInvariance, PTL

-----------------------------------------------------------------------------
\* What the watcher remembers.  A cache that fails to answer a watch keeps the
\* snapshot the watcher then forgets, so the theorems assume the one fault away.
Remembered == IF fingerprint = None THEN served.version = 1 ELSE fingerprint = served.view

LEMMA StepRemembers ==
  ASSUME TypeOK, Remembered, "set" \notin Faults, [Next]_vars
  PROVE  Remembered'
<1>1. ASSUME NEW r \in Reader, SetSnapshot(r) PROVE Remembered'
  <2>1. rd[r].seen \in View
    BY DEF TypeOK, Goroutine
  <2>2. fingerprint' = rd[r].seen /\ served'.view = rd[r].seen
    BY <1>1 DEF SetSnapshot
  <2> QED
    BY <2>1, <2>2, NoneIsNoView DEF Remembered
<1>2. ASSUME UNCHANGED <<fingerprint, served>> PROVE Remembered'
  BY <1>2 DEF Remembered
<1>3. ASSUME NEW r \in Reader, RefreshStep(r), ~SetSnapshot(r)
      PROVE  UNCHANGED <<fingerprint, served>>
  BY <1>3 DEF RefreshStep, ReadCatalog, ReadHealth, ReadFails, Compare, Build, BuildFails,
              SetSnapshotFails, Fault, watcherVars, xdsVars
<1>4. CASE \/ \E s \in Service : RemoteChange(s) \/ \E c \in Caller : HandlerRefresh(c, s)
           \/ Tick \/ PollerEnds \/ Cancel \/ DebounceElapses \/ UNCHANGED vars
  BY <1>2, <1>4 DEF RemoteChange, HandlerRefresh, Tick, PollerEnds, Cancel, DebounceElapses,
                    watcherVars, xdsVars, vars
<1> QED
  BY <1>1, <1>2, <1>3, <1>4 DEF Next

LEMMA RememberedInvariance ==
  ASSUME "set" \notin Faults PROVE Spec => []Remembered
<1>1. Init => Remembered
  BY DEF Init, Remembered
<1>2. TypeOK /\ Remembered /\ [Next]_vars => Remembered'
  BY StepRemembers
<1> QED
  BY <1>1, <1>2, TypeCorrectness, PTL DEF Spec

\* As long as the cache does not fail, lastFingerprint is the view Envoy is
\* served, whatever the reads and the builds did: nothing is dropped as
\* "unchanged" that Envoy does not have.
THEOREM FingerprintServedHolds ==
  ASSUME "set" \notin Faults PROVE Spec => []FingerprintServed
<1>1. Remembered => FingerprintServed
  BY DEF Remembered, FingerprintServed
<1> QED
  BY <1>1, RememberedInvariance, PTL

-----------------------------------------------------------------------------
\* What a handler knows when its reads are over: every service whose change it
\* asked for was read after that change was made.
HasRead(c) == \A s \in Service :
  /\ rd[c].asked[s] <= catalog[s]
  /\ rd[c].pc \in {"health", "lock", "build", "set"}
       => s \in rd[c].todo \/ rd[c].asked[s] <= rd[c].seen[s]
  /\ rd[c].pc \in {"lock", "build", "set"} => rd[c].todo = {}

ReadInv == \A c \in Caller : HasRead(c)

LEMMA CatalogGrows ==
  ASSUME TypeOK, [Next]_vars
  PROVE  \A s \in Service : catalog'[s] \in Nat /\ catalog[s] \in Nat /\ catalog[s] <= catalog'[s]
<1>1. catalog \in View /\ catalog' \in View
  BY TypesWithoutMoves DEF TypeOK
<1>2. \A s \in Service : catalog[s] \in Nat /\ catalog'[s] \in Nat
  BY <1>1, WatcherConstants DEF View
<1>3. ASSUME NEW s \in Service, Changed(s) PROVE \A t \in Service : catalog[t] <= catalog'[t]
  BY <1>1, <1>2, <1>3 DEF Changed, View
<1>4. CASE UNCHANGED catalog
  BY <1>2, <1>4
<1>5. UNCHANGED catalog \/ \E s \in Service : Changed(s)
  BY DEF Next, vars, RemoteChange, HandlerRefresh, Tick, PollerEnds, Cancel, DebounceElapses,
         RefreshStep, ReadCatalog, ReadHealth, ReadFails, Compare, Build, BuildFails,
         SetSnapshot, SetSnapshotFails
<1> QED
  BY <1>2, <1>3, <1>4, <1>5

\* The steps of others only let the catalog grow.
LEMMA OthersKeepRead ==
  ASSUME TypeOK, [Next]_vars, NEW c \in Caller, HasRead(c), rd'[c] = rd[c]
  PROVE  HasRead(c)'
<1>1. \A s \in Service : rd[c].asked[s] \in Nat
  BY WatcherConstants DEF TypeOK, Reader, Goroutine, View
<1>2. \A s \in Service : rd[c].asked[s] <= catalog'[s]
  BY <1>1, CatalogGrows DEF HasRead
<1> QED
  BY <1>2 DEF HasRead

LEMMA RestingHasRead ==
  ASSUME NEW c \in Caller, TypeOK, [Next]_vars, Return(c) \/ Error(c)
  PROVE  HasRead(c)'
<1>1. rd'[c] = Resting("idle") \/ rd'[c] = Resting("failed")
  BY DEF Return, Error, TypeOK, Reader
<1>2. rd'[c].pc \in {"idle", "failed"} /\ \A s \in Service : rd'[c].asked[s] = 0
  BY <1>1 DEF Resting, Empty
<1> QED
  BY <1>2, CatalogGrows DEF HasRead

LEMMA OwnStepKeepsRead ==
  ASSUME TypeOK, "stale" \notin Faults, [Next]_vars, NEW c \in Caller, HasRead(c), RefreshStep(c)
  PROVE  HasRead(c)'
<1>1. c \in Reader /\ rd[c] \in Goroutine /\ \A s \in Service : rd[c].asked[s] \in Nat /\ rd[c].seen[s] \in Nat
  BY WatcherConstants DEF TypeOK, Reader, Goroutine, View
<1>2. CASE ReadCatalog(c)
  <2> DEFINE names == {s \in Service : catalog[s] > 0}
  <2>1. /\ rd'[c].asked = rd[c].asked /\ rd'[c].seen = rd[c].seen
        /\ rd'[c].todo = names /\ catalog' = catalog
        /\ rd'[c].pc = IF names = {} THEN "lock" ELSE "health"
    BY <1>1, <1>2 DEF ReadCatalog, TypeOK, Goroutine
  <2>2. \A s \in Service : s \notin names => rd[c].asked[s] <= rd[c].seen[s]
    BY <1>1, CatalogGrows DEF HasRead
  <2> HIDE DEF names
  <2> QED
    BY <2>1, <2>2 DEF HasRead
<1>3. ASSUME NEW s \in Service, ReadHealth(c, s) PROVE HasRead(c)'
  <2>1. Answer(s) = {<<catalog[s], faultsLeft>>}
    BY DEF Answer
  <2>2. /\ rd'[c].asked = rd[c].asked /\ rd'[c].todo = rd[c].todo \ {s} /\ catalog' = catalog
        /\ rd'[c].seen = [rd[c].seen EXCEPT ![s] = catalog[s]]
        /\ rd'[c].pc = IF rd[c].todo = {s} THEN "lock" ELSE "health"
        /\ rd[c].pc = "health"
    BY <1>1, <1>3, <2>1 DEF ReadHealth, TypeOK, Goroutine, At
  <2>3. rd[c].seen \in [Service -> 0..MaxChanges]
    BY <1>1 DEF Goroutine, View
  <2>4. \A t \in Service : t \notin rd'[c].todo => rd'[c].asked[t] <= rd'[c].seen[t]
    BY <2>2, <2>3 DEF HasRead
  <2> QED
    BY <2>2, <2>4 DEF HasRead
<1>4. CASE Return(c) \/ Error(c)
  BY <1>4, RestingHasRead
<1>5. CASE Compare(c) /\ Goto(c, "build")
  <2>1. rd[c].pc = "lock" /\ catalog' = catalog /\ rd'[c] = [rd[c] EXCEPT !.pc = "build"]
    BY <1>1, <1>5 DEF Compare, Goto, At, TypeOK
  <2>2. /\ rd'[c].asked = rd[c].asked /\ rd'[c].seen = rd[c].seen /\ rd'[c].todo = rd[c].todo
    BY <1>1, <2>1 DEF Goroutine
  <2> QED
    BY <2>1, <2>2 DEF HasRead
<1>6. CASE Build(c)
  <2>1. rd[c].pc = "build" /\ catalog' = catalog
        /\ rd'[c] = [rd[c] EXCEPT !.pc = "set", !.built = version + 1]
    BY <1>1, <1>6 DEF Build, At, TypeOK
  <2>2. /\ rd'[c].asked = rd[c].asked /\ rd'[c].seen = rd[c].seen /\ rd'[c].todo = rd[c].todo
    BY <1>1, <2>1 DEF Goroutine
  <2> QED
    BY <2>1, <2>2 DEF HasRead
<1> QED
  BY <1>2, <1>3, <1>4, <1>5, <1>6
     DEF RefreshStep, ReadFails, Compare, BuildFails, SetSnapshot, SetSnapshotFails

LEMMA OneMoves ==
  ASSUME TypeOK, LockInv, NEW r \in Reader,
         RefreshStep(r) \/ (r = Poller /\ (Tick \/ PollerEnds))
           \/ (r \in Caller /\ \E s \in Service : HandlerRefresh(r, s))
  PROVE  \A q \in Reader : q # r => rd'[q] = rd[q]
<1>1. Moves(r)
  BY OutsideSteps, CompareStep, LockedSteps DEF Outside, RefreshStep
<1> QED
  BY <1>1 DEF Moves, TypeOK

LEMMA StepKeepsReadInv ==
  ASSUME TypeOK, LockInv, ReadInv, "stale" \notin Faults, [Next]_vars
  PROVE  ReadInv'
<1> SUFFICES ASSUME NEW c \in Caller PROVE HasRead(c)'
  BY DEF ReadInv
<1> USE DEF Reader
<1>1. HasRead(c) /\ c # Poller
  BY WatcherConstants DEF ReadInv
<1>2. CASE rd'[c] = rd[c]
  BY <1>1, <1>2, OthersKeepRead
<1>3. ASSUME NEW r \in Reader, RefreshStep(r) PROVE HasRead(c)'
  BY <1>1, <1>2, <1>3, OneMoves, OwnStepKeepsRead
<1>4. ASSUME NEW s \in Service, HandlerRefresh(c, s) PROVE HasRead(c)'
  <2>1. rd'[c] = [Resting("catalog") EXCEPT !.asked[s] = catalog'[s]]
    BY <1>4 DEF HandlerRefresh, TypeOK
  <2>2. rd'[c].pc = "catalog" /\ rd'[c].asked = [Empty EXCEPT ![s] = catalog'[s]]
    BY <2>1 DEF Resting
  <2> QED
    BY <2>2, CatalogGrows DEF HasRead, Empty
<1>5. ASSUME NEW d \in Caller, NEW s \in Service, HandlerRefresh(d, s) PROVE HasRead(c)'
  BY <1>2, <1>4, <1>5, OneMoves
<1>6. CASE Tick \/ PollerEnds
  BY <1>1, <1>2, <1>6, OneMoves
<1>7. CASE Cancel \/ DebounceElapses \/ UNCHANGED vars \/ \E s \in Service : RemoteChange(s)
  BY <1>2, <1>7 DEF RemoteChange, Cancel, DebounceElapses, vars
<1> QED
  BY <1>3, <1>5, <1>6, <1>7 DEF Next

LEMMA ReadInvariance ==
  ASSUME "stale" \notin Faults PROVE Spec => []ReadInv
<1>1. Init => ReadInv
  <2> SUFFICES ASSUME Init, NEW c \in Caller PROVE HasRead(c)
    BY DEF ReadInv
  <2>1. rd[c] = Resting("idle") /\ catalog \in [Service -> 0..1]
    BY DEF Init, Reader
  <2>2. rd[c].pc = "idle" /\ \A s \in Service : rd[c].asked[s] = 0
    BY <2>1 DEF Resting, Empty
  <2>3. \A s \in Service : 0 <= catalog[s]
    BY <2>1
  <2> QED
    BY <2>2, <2>3 DEF HasRead
<1>2. TypeOK /\ LockInv /\ ReadInv /\ [Next]_vars => ReadInv'
  BY StepKeepsReadInv
<1> QED
  BY <1>1, <1>2, LockInvariance, PTL DEF Spec

-----------------------------------------------------------------------------
\* The two ways a refresh succeeds.
LEMMA SuccessTakesEffect ==
  ASSUME TypeOK, LockInv, ReadInv, Remembered, "set" \notin Faults, [Next]_vars,
         NEW c \in Caller, rd[c].pc \in {"lock", "set"}, rd'[c].pc = "idle"
  PROVE  Debounced \/ \A s \in Service : served'.view[s] >= rd[c].asked[s]
<1>1. /\ \A s \in Service : rd[c].asked[s] \in Nat /\ rd[c].seen[s] \in Nat
      /\ rd[c].seen \in View /\ c \in Reader
  BY WatcherConstants DEF TypeOK, Reader, Goroutine, View
<1>2. \A s \in Service : rd[c].asked[s] <= rd[c].seen[s]
  BY DEF ReadInv, HasRead
<1>3. RefreshStep(c)
  <2>1. rd'[c] # rd[c] /\ c # Poller
    BY WatcherConstants
  <2>2. ASSUME NEW r \in Reader, RefreshStep(r) PROVE r = c
    BY <1>1, <2>1, <2>2, OneMoves
  <2>3. ASSUME NEW d \in Caller, NEW s \in Service, HandlerRefresh(d, s) PROVE FALSE
    <3>1. d = c
      BY <1>1, <2>1, <2>3, OneMoves DEF Reader
    <3> QED
      BY <2>3, <3>1 DEF HandlerRefresh
  <2>4. ~(Tick \/ PollerEnds)
    BY <1>1, <2>1, OneMoves DEF Reader
  <2> QED
    BY <2>1, <2>2, <2>3, <2>4 DEF Next, RemoteChange, Cancel, DebounceElapses, vars
<1>4. CASE SetSnapshot(c)
  <2>1. served'.view = rd[c].seen
    BY <1>4 DEF SetSnapshot
  <2> QED
    BY <1>1, <1>2, <2>1
<1>5. CASE Compare(c)
  <2>1. served' = served
    BY <1>5 DEF Compare, xdsVars
  <2>2. Unchanged(c) \/ Debounced
    BY <1>1, <1>5, GotoMoves DEF Compare, PC
  <2>3. CASE Unchanged(c)
    <3>1. served.view = rd[c].seen
      BY <1>1, <2>3, NoneIsNoView DEF Unchanged, Remembered
    <3> QED
      BY <1>1, <1>2, <2>1, <3>1
  <2> QED
    BY <2>2, <2>3
<1>6. ~(SetSnapshotFails(c) \/ Build(c) \/ BuildFails(c) \/ ReadFails(c) \/ ReadCatalog(c)
          \/ \E s \in Service : ReadHealth(c, s))
  BY DEF SetSnapshotFails, Fault, Build, BuildFails, ReadFails, ReadCatalog, ReadHealth, At
<1> QED
  BY <1>3, <1>4, <1>5, <1>6 DEF RefreshStep

\* With fresh reads and a cache that does not fail, a handler whose RefreshNow
\* succeeds has its own change served, or was debounced - however many other
\* refreshers publish between its reads and its turn at the mutex.
THEOREM RefreshTakesEffectHolds ==
  ASSUME "stale" \notin Faults, "set" \notin Faults PROVE Spec => RefreshTakesEffect
<1> DEFINE Effect == \A c \in Caller :
      rd[c].pc \in {"lock", "set"} /\ rd'[c].pc = "idle"
        => Debounced \/ \A s \in Service : served'.view[s] >= rd[c].asked[s]
<1>1. TypeOK /\ LockInv /\ ReadInv /\ Remembered /\ [Next]_vars => [Effect]_vars
  BY SuccessTakesEffect
<1> QED
  BY <1>1, LockInvariance, ReadInvariance, RememberedInvariance, PTL DEF Spec, RefreshTakesEffect
=============================================================================
