----------------------- MODULE RegistryInstanceProofs -----------------------
(***************************************************************************)
(* What becomes of registered instances, for any numbers of services,      *)
(* instances, handlers, requests and runs.  If Consul's answers are        *)
(* neither late nor stale the start-up cleanup leaves nothing of an        *)
(* earlier run.  Whatever fails, the running agent loses sight of an       *)
(* instance only in Register, which holds no lock between its look-up and  *)
(* its store.                                                              *)
(***************************************************************************)
EXTENDS RegistryProofs

\* No call fails without being refused, so none arrives late.
ConsulAnswers == "call" \notin Faults

-----------------------------------------------------------------------------
(* Steps while Consul answers.                                             *)

LEMMA FailsQuietly ==
  ASSUME ConsulAnswers, NEW call, NEW arg, Fails(call, arg)
  PROVE  /\ UNCHANGED <<services, passing, maintenance, kv, late>>
         /\ call \in {"pass", "maintain", "deregister"} /\ arg \notin services
BY DEF ConsulAnswers, Fails, Refused

LEMMA CallQuiet ==
  ASSUME ConsulAnswers, NEW call \in {"pass", "maintain", "deregister", "put"}, NEW arg,
         Succeeds(call, arg) \/ Fails(call, arg)
  PROVE  services' \subseteq services /\ late' = late
<1>1. CASE Fails(call, arg)
  BY <1>1, FailsQuietly
<1>2. CASE Succeeds(call, arg)
  BY <1>2 DEF Succeeds, Performs, AddService, PassTTL, EnableMaintenance, RemoveService, StoreDoc
<1> QED
  BY <1>1, <1>2

\* The steps of handler c.
HandlerStep(c) ==
  \/ \E q \in Request : Begin(c, q)
  \/ RegisterStep(c)
  \/ \E k \in Key : Drain(c, k) \/ Deregister(c, k)

\* They are taken while the agent is up, or closing with c still at work.
LEMMA HandlerRunning ==
  ASSUME TypeOK, RegistryInv, NEW c \in Caller, HandlerStep(c)
  PROVE  phase \in {"up", "closing"}
BY DEF HandlerStep, Begin, RegisterStep, Replay, ReplayStore, Replace, ReplaceStore, CheckDoc,
       PutDoc, RegisterService, NoInstanceID, FirstLease, Store, Drain, Deregister,
       TypeOK, RegistryInv, ShutdownCovers, Phase

\* Nobody but c moves, nothing of the agent but its table, and if Consul loses
\* or gets instances it is not by a late call.
LEMMA HandlerFrame ==
  ASSUME TypeOK, ConsulAnswers, NEW c \in Caller, HandlerStep(c)
  PROVE  /\ UNCHANGED <<phase, run, sweepNames, sweepIds, shutTodo>>
         /\ RegisterService(c) \/ (services' \subseteq services /\ UNCHANGED <<meta, late>>)
<1> USE DEF OnlyHandlers, consulVars
<1>1. CASE RegisterService(c)
  BY <1>1 DEF RegisterService
<1>2. ASSUME NEW q \in Request, Begin(c, q) PROVE services' \subseteq services /\ OnlyHandlers
             /\ UNCHANGED <<meta, late>>
  BY <1>2 DEF Begin
<1>3. CASE Replay(c) \/ Replace(c)
  BY <1>3, CallQuiet DEF Replay, Replace
<1>4. CASE PutDoc(c) \/ FirstLease(c)
  BY <1>4, CallQuiet DEF PutDoc, FirstLease
<1>5. CASE ReplayStore(c) \/ ReplaceStore(c) \/ CheckDoc(c) \/ NoInstanceID(c) \/ Store(c)
  BY <1>5 DEF ReplayStore, ReplaceStore, CheckDoc, NoInstanceID, Store
<1>6. ASSUME NEW k \in Key, Drain(c, k) \/ Deregister(c, k)
      PROVE  services' \subseteq services /\ OnlyHandlers /\ UNCHANGED <<meta, late>>
  BY <1>6, CallQuiet DEF Drain, Deregister
<1> QED
  BY <1>1, <1>2, <1>3, <1>4, <1>5, <1>6 DEF HandlerStep, RegisterStep

\* The steps of the lease loop, of Consul and of the signal.
Calm ==
  /\ services' \subseteq services
  /\ UNCHANGED <<meta, kv, late, run, local, h, shutTodo, sweepNames, sweepIds>>
  /\ phase' = phase \/ (phase = "up" /\ phase' = "closing")
  /\ maintenance' \subseteq maintenance

LEMMA StepKinds ==
  ASSUME ConsulAnswers, late = {}, [Next]_vars
  PROVE  \/ \E c \in Caller : HandlerStep(c)
         \/ Calm
         \/ Halt /\ UNCHANGED consulVars
         \/ Boot \/ CatalogRead \/ Started
         \/ (\E n \in Name : SweepQuery(n)) \/ (\E i \in InstanceID : SweepDeregister(i))
         \/ StopLeaseLoop \/ (\E s \in shutTodo : ShutdownDeregister(s))
<1>1. CASE Handlers
  BY <1>1 DEF Handlers, HandlerStep
<1>2. CASE QueryFails \/ AdminCloseTimesOut \/ ShutdownDone \/ Crash
  BY <1>2 DEF QueryFails, AdminCloseTimesOut, ShutdownDone, Crash
<1>3. ASSUME NEW i, SweepDeregisterFails(i) PROVE Halt /\ UNCHANGED consulVars
  BY <1>3, FailsQuietly DEF SweepDeregisterFails, consulVars
<1>4. ASSUME NEW s, ShutdownFails(s) PROVE Halt /\ UNCHANGED consulVars
  BY <1>4, FailsQuietly DEF ShutdownFails, consulVars
<1>5. CASE Terminate \/ LeaseTick \/ UNCHANGED vars
  BY <1>5 DEF Terminate, LeaseTick, vars, Calm, consulVars
<1>6. ASSUME NEW i, LeaseRefresh(i) PROVE Calm
  <2>1. services' \subseteq services /\ late' = late
    BY <1>6, CallQuiet DEF LeaseRefresh
  <2>2. UNCHANGED <<kv, maintenance>>
    BY <1>6, FailsQuietly DEF LeaseRefresh, Succeeds, Performs, PassTTL
  <2> QED
    BY <1>6, <2>1, <2>2 DEF LeaseRefresh, Calm
<1>7. ASSUME NEW i, Lapse(i) \/ Reap(i) PROVE Calm
  BY <1>7 DEF Lapse, LeaseLapses, Reap, Reaped, agentVars, Calm
<1>8. ~LateCallEnds
  <2> SUFFICES ASSUME NEW l \in late PROVE FALSE
    BY Zenon DEF LateCallEnds
  <2> QED
    OBVIOUS
<1>9. CASE Lifecycle
  BY <1>2, <1>3, <1>4, <1>5, <1>9 DEF Lifecycle
<1>10. CASE LeaseLoop
  BY <1>5, <1>6, <1>10 DEF LeaseLoop
<1>11. CASE ConsulSteps
  BY <1>7, <1>8, <1>11 DEF ConsulSteps
<1> QED
  BY <1>1, <1>5, <1>9, <1>10, <1>11 DEF Next

LEMMA NothingLate ==
  ASSUME TypeOK, ConsulAnswers, late = {}, [Next]_vars
  PROVE  late' = {}
<1>1. ASSUME NEW c \in Caller, HandlerStep(c) PROVE late' = {}
  <2>1. CASE RegisterService(c)
    BY <2>1, FailsQuietly DEF RegisterService, Succeeds
  <2> QED
    BY <1>1, <2>1, HandlerFrame
<1>2. ASSUME NEW i \in InstanceID, SweepDeregister(i) PROVE late' = {}
  BY <1>2 DEF SweepDeregister, Succeeds
<1>3. ASSUME NEW s \in shutTodo, ShutdownDeregister(s) PROVE late' = {}
  BY <1>3 DEF ShutdownDeregister, Succeeds
<1> QED
  BY <1>1, <1>2, <1>3, StepKinds
  DEF Calm, Boot, CatalogRead, Started, SweepQuery, StopLeaseLoop, consulVars

LEMMA NothingLateEver ==
  ASSUME ConsulAnswers PROVE Spec => [](late = {})
<1>1. Init => late = {}
  BY DEF Init, ConsulInit
<1>2. TypeOK /\ late = {} /\ [Next]_vars => (late = {})'
  BY NothingLate
<1> QED
  BY <1>1, <1>2, TypeCorrectness, PTL DEF Spec

\* An instance drawn in this step is of this run and a request of the handler.
LEMMA Drawn ==
  ASSUME TypeOK, RegistryInv, ConsulAnswers, NEW c \in Caller, RegisterService(c)
  PROVE  \E i \in InstanceID :
           /\ meta[i] = None /\ i \notin services /\ i \notin maintenance
           /\ meta' = [meta EXCEPT ![i] = [req |-> h[c].req, run |-> run]]
           /\ services' = services \cup {i} /\ UNCHANGED <<passing, maintenance, kv, late, local>>
           /\ h' = [h EXCEPT ![c].pc = "lease", ![c].id = i]
<1>1. PICK i \in Fresh :
        /\ meta' = [meta EXCEPT ![i] = [req |-> h[c].req, run |-> run]]
        /\ \/ Succeeds("register", i) /\ h' = [h EXCEPT ![c].pc = "lease", ![c].id = i]
           \/ Fails("register", i) /\ Return(c)
  BY DEF RegisterService
<1>2. Succeeds("register", i) /\ h' = [h EXCEPT ![c].pc = "lease", ![c].id = i]
  BY <1>1, FailsQuietly
<1>3. services' = services \cup {i} /\ UNCHANGED <<passing, maintenance, kv, late>>
  BY <1>2 DEF Succeeds, Performs, AddService
<1>4. i \in InstanceID /\ meta[i] = None
  BY DEF Fresh
<1>5. i \notin services /\ i \notin maintenance
  BY <1>4 DEF RegistryInv, IdsSettled, Settled, ChecksBelong
<1>6. local' = local
  BY DEF RegisterService
<1> QED
  BY <1>1, <1>2, <1>3, <1>4, <1>5, <1>6

-----------------------------------------------------------------------------
(* The start-up cleanup.                                                   *)

LEMMA RunNumbers ==
  ASSUME TypeOK
  PROVE  run \in Nat /\ \A i \in InstanceID : meta[i] # None => meta[i].run \in Nat
<1>1. run \in Nat
  BY BoundAssumption DEF TypeOK
<1>2. \A i \in InstanceID : meta[i] # None => meta[i] \in Registration
  BY DEF TypeOK, ConsulTypeOK
<1> QED
  BY <1>1, <1>2, BoundAssumption DEF Registration

LEMMA RunsStayInOrder ==
  ASSUME TypeOK, RegistryInv, ConsulAnswers, late = {}, RunsInOrder, [Next]_vars
  PROVE  RunsInOrder'
<1>1. ASSUME meta' = meta, run' = run,
             phase' \in {"catalog", "sweep"} => phase \in {"catalog", "sweep"}
      PROVE  RunsInOrder'
  BY <1>1 DEF RunsInOrder
<1>2. ASSUME NEW c \in Caller, HandlerStep(c) PROVE RunsInOrder'
  <2>1. phase' \in {"up", "closing"} /\ run' = run /\ phase' = phase
    BY <1>2, HandlerRunning, HandlerFrame
  <2>2. CASE RegisterService(c)
    <3>1. PICK i \in InstanceID : meta' = [meta EXCEPT ![i] = [req |-> h[c].req, run |-> run]]
      BY <2>2, Drawn
    <3>2. \A j \in InstanceID : meta'[j] = IF j = i THEN [req |-> h[c].req, run |-> run] ELSE meta[j]
      BY <3>1 DEF TypeOK, ConsulTypeOK
    <3> QED
      BY <2>1, <3>2, RunNumbers DEF RunsInOrder
  <2>3. CASE ~RegisterService(c)
    <3>1. meta' = meta
      BY <1>2, <2>3, HandlerFrame
    <3> QED
      BY <1>1, <2>1, <3>1
  <2> QED
    BY <2>2, <2>3
<1>3. CASE Boot
  BY <1>3, RunNumbers DEF Boot, consulVars, RunsInOrder
<1>4. CASE CatalogRead \/ Started \/ StopLeaseLoop \/ Calm \/ (Halt /\ UNCHANGED consulVars)
  BY <1>1, <1>4 DEF CatalogRead, Started, StopLeaseLoop, Calm, Halt, consulVars
<1>5. ASSUME NEW n \in Name, SweepQuery(n) PROVE RunsInOrder'
  BY <1>1, <1>5 DEF SweepQuery, consulVars
<1>6. ASSUME NEW i \in InstanceID, SweepDeregister(i) PROVE RunsInOrder'
  BY <1>1, <1>6 DEF SweepDeregister
<1>7. ASSUME NEW s \in shutTodo, ShutdownDeregister(s) PROVE RunsInOrder'
  BY <1>1, <1>7 DEF ShutdownDeregister
<1> QED
  BY <1>2, <1>3, <1>4, <1>5, <1>6, <1>7, StepKinds

\* A view that is not stale shows every instance, so each has its name queried
\* and its id taken out.
LEMMA CleanupStep ==
  ASSUME TypeOK, RegistryInv, ConsulAnswers, "stale" \notin Faults, CleanupInv, [Next]_vars
  PROVE  SweepCovers' /\ NoOldRunLeft'
<1> USE DEF CleanupInv, consulVars
<1>1. ASSUME services' \subseteq services, meta' = meta, run' = run,
             sweepNames' = sweepNames, sweepIds' = sweepIds,
             \/ phase' = phase
             \/ phase \in {"up", "closing"} /\ phase' \in {"closing", "deregistering"}
      PROVE  SweepCovers' /\ NoOldRunLeft'
  BY <1>1 DEF SweepCovers, NoOldRunLeft, Owned
<1>2. ASSUME NEW c \in Caller, HandlerStep(c) PROVE SweepCovers' /\ NoOldRunLeft'
  <2>1. phase' \in {"up", "closing"} /\ UNCHANGED <<run, phase, sweepNames, sweepIds>>
    BY <1>2, HandlerRunning, HandlerFrame
  <2>2. CASE RegisterService(c)
    <3>1. PICK i \in InstanceID : /\ meta' = [meta EXCEPT ![i] = [req |-> h[c].req, run |-> run]]
                                  /\ services' = services \cup {i}
      BY <2>2, Drawn
    <3>2. \A j \in services : meta'[j] = meta[j] \/ meta'[j].run = run
      BY <3>1 DEF TypeOK, ConsulTypeOK
    <3>3. meta'[i].run = run
      BY <3>1 DEF TypeOK, ConsulTypeOK
    <3> QED
      BY <2>1, <3>1, <3>2, <3>3 DEF SweepCovers, NoOldRunLeft, Owned
  <2>3. CASE ~RegisterService(c)
    <3>1. services' \subseteq services /\ meta' = meta
      BY <1>2, <2>3, HandlerFrame
    <3> QED
      BY <1>1, <2>1, <3>1
  <2> QED
    BY <2>2, <2>3
<1>3. CASE Boot \/ (Halt /\ UNCHANGED consulVars)
  BY <1>3 DEF Boot, Halt, SweepCovers, NoOldRunLeft
<1>4. CASE CatalogRead
  <2>1. sweepNames' = {meta[i].req.name : i \in services}
    BY <1>4 DEF CatalogRead, Visible
  <2>2. phase' = "sweep" /\ UNCHANGED <<services, meta>>
    BY <1>4 DEF CatalogRead
  <2> QED
    BY <2>1, <2>2 DEF SweepCovers, NoOldRunLeft
<1>5. ASSUME NEW n \in Name, SweepQuery(n) PROVE SweepCovers' /\ NoOldRunLeft'
  <2>1. /\ phase = "sweep" /\ phase' = "sweep" /\ sweepIds = {}
        /\ sweepNames' = sweepNames \ {n} /\ sweepIds' = OldRun(services, n)
        /\ UNCHANGED <<services, meta, run>>
    BY <1>5 DEF SweepQuery, Visible
  <2>2. \A i \in services : meta[i].run # run
    <3>1. \A i \in services : i \in InstanceID /\ meta[i] # None
      BY DEF TypeOK, ConsulTypeOK, RegistryInv, IdsSettled, Settled
    <3> QED
      BY <2>1, <3>1, RunNumbers DEF RunsInOrder
  <2>3. \A i \in services : meta[i].req.name \in sweepNames' \/ i \in sweepIds'
    BY <2>1, <2>2 DEF SweepCovers, OldRun
  <2> QED
    BY <2>1, <2>3 DEF SweepCovers, NoOldRunLeft
<1>6. ASSUME NEW i \in InstanceID, SweepDeregister(i) PROVE SweepCovers' /\ NoOldRunLeft'
  <2>1. /\ phase = "sweep" /\ phase' = "sweep" /\ sweepIds' = sweepIds \ {i}
        /\ UNCHANGED <<meta, run, sweepNames>>
    BY <1>6 DEF SweepDeregister
  <2>2. services' = services \ {i}
    BY <1>6 DEF SweepDeregister, Succeeds, Performs, RemoveService
  <2> QED
    BY <2>1, <2>2 DEF SweepCovers, NoOldRunLeft
<1>7. CASE Started
  BY <1>7 DEF Started, SweepCovers, NoOldRunLeft
<1>8. CASE Calm
  BY <1>1, <1>8 DEF Calm
<1>9. CASE StopLeaseLoop
  BY <1>1, <1>9 DEF StopLeaseLoop
<1>10. ASSUME NEW s \in shutTodo, ShutdownDeregister(s) PROVE SweepCovers' /\ NoOldRunLeft'
  BY <1>1, <1>10, CallQuiet DEF ShutdownDeregister
<1> QED
  BY <1>2, <1>3, <1>4, <1>5, <1>6, <1>7, <1>8, <1>9, <1>10, StepKinds

\* With answers that are neither late nor stale the start-up cleanup is
\* complete, whatever crashed before it and however many handlers follow it:
\* once the agent is up, everything registered is of its own run.
THEOREM NoOldRunLeftHolds ==
  ASSUME ConsulAnswers, "stale" \notin Faults
  PROVE  Spec => [](CleanupInv /\ NoOldRunLeft)
<1>1. Init => CleanupInv
  BY DEF Init, ConsulInit, CleanupInv, RunsInOrder, SweepCovers, NoOldRunLeft
<1>2. TypeOK /\ RegistryInv /\ CleanupInv /\ [Next]_vars => CleanupInv'
  BY CleanupStep, RunsStayInOrder, NothingLate DEF CleanupInv
<1>3. CleanupInv => NoOldRunLeft
  BY DEF CleanupInv
<1> QED
  BY <1>1, <1>2, <1>3, TypeCorrectness, RegistryInvariance, PTL DEF Spec

-----------------------------------------------------------------------------
(* What the agent loses sight of.  Every fault is allowed here.            *)

\* A step of handler c moves c alone.
LEMMA HandlerMoves ==
  ASSUME TypeOK, NEW c \in Caller, HandlerStep(c)
  PROVE  /\ \A d \in Caller \ {c} : h'[d] = h[d]
         /\ UNCHANGED <<phase, shutTodo>>
<1> USE DEF OnlyHandlers, TypeOK, Goto, Return
<1>1. CASE \E q \in Request : Begin(c, q)
  BY <1>1 DEF Begin
<1>2. CASE Replay(c) \/ ReplayStore(c) \/ Replace(c) \/ ReplaceStore(c) \/ CheckDoc(c) \/ PutDoc(c)
  BY <1>2 DEF Replay, ReplayStore, Replace, ReplaceStore, CheckDoc, PutDoc
<1>3. CASE RegisterService(c) \/ NoInstanceID(c) \/ FirstLease(c) \/ Store(c)
  BY <1>3 DEF RegisterService, NoInstanceID, FirstLease, Store
<1>4. CASE \E k \in Key : Drain(c, k) \/ Deregister(c, k)
  BY <1>4 DEF Drain, Deregister
<1> QED
  BY <1>1, <1>2, <1>3, <1>4 DEF HandlerStep, RegisterStep

\* What SightInv says of one handler.
HoldsRight(x, registered) ==
  /\ x.id # None => x.pc \in {"lease", "store"}
  /\ x.ex # None => x.pc # "idle" /\ x.ex.req.key = x.req.key
  /\ x.pc \in {"checkDoc", "putDoc", "register", "lease", "store"} /\ x.ex # None
       => x.ex.id \notin registered

\* What c holds after a step of its own.
LEMMA HeldAfter ==
  ASSUME TypeOK, RegistryInv, SightInv, NEW c \in Caller, HandlerStep(c),
         \A i \in InstanceID : Settled(i) /\ i \notin services => i \notin services'
  PROVE  HoldsRight(h'[c], services')
<1>1. HoldsRight(h[c], services) /\ h[c] \in Handler
  BY DEF SightInv, HoldsRight, TypeOK
<1>2. h[c].ex # None => h[c].ex.id \in InstanceID /\ Settled(h[c].ex.id)
  BY <1>1 DEF Handler, LocalService, RegistryInv, IdsSettled
<1>3. HoldsRight(h[c], services')
  BY <1>1, <1>2 DEF HoldsRight
<1>4. ASSUME Return(c) PROVE HoldsRight(h'[c], services')
  BY <1>4 DEF Return, Idle, TypeOK, HoldsRight
<1>5. ASSUME NEW pc, Goto(c, pc), h[c].pc # "idle", pc # "idle",
             h[c].id # None => pc \in {"lease", "store"},
             \/ pc \notin {"checkDoc", "putDoc", "register", "lease", "store"}
             \/ h[c].pc \in {"checkDoc", "putDoc", "register", "lease", "store"}
             \/ h[c].ex.id \notin services'
      PROVE  HoldsRight(h'[c], services')
  BY <1>3, <1>5 DEF Goto, TypeOK, HoldsRight
<1>6. ASSUME NEW q \in Request, Begin(c, q) PROVE HoldsRight(h'[c], services')
  <2>1. /\ h'[c].pc = FirstStep(local[q.key], q) /\ h'[c].req = q /\ h'[c].id = None
        /\ h'[c].ex = IF Active(local[q.key]) THEN local[q.key] ELSE None
    BY <1>6 DEF Begin, TypeOK
  <2>2. Active(local[q.key]) => local[q.key].req.key = q.key /\ h'[c].pc \in {"replay", "replace"}
    BY <2>1, RequestAssumption DEF FirstStep, RegistryInv, KeysMatch, Active
  <2> QED
    BY <2>1, <2>2 DEF HoldsRight
<1>7. CASE Replay(c) \/ ReplayStore(c) \/ Replace(c)
  BY <1>1, <1>4, <1>5, <1>7 DEF Replay, ReplayStore, Replace, HoldsRight
<1>8. CASE ReplaceStore(c)
  BY <1>1, <1>2, <1>5, <1>8 DEF ReplaceStore, RegistryInv, HandlerCopies, HoldsRight
<1>9. CASE CheckDoc(c) \/ PutDoc(c) \/ NoInstanceID(c)
  BY <1>1, <1>4, <1>5, <1>9 DEF CheckDoc, PutDoc, NoInstanceID, HoldsRight
<1>10. CASE RegisterService(c)
  <2>1. CASE Return(c)
    BY <1>4, <2>1
  <2>2. ASSUME NEW i, h' = [h EXCEPT ![c].pc = "lease", ![c].id = i]
        PROVE  HoldsRight(h'[c], services')
    <3>1. h'[c] = [h[c] EXCEPT !.pc = "lease", !.id = i]
      BY <2>2 DEF TypeOK
    <3>2. h'[c].pc = "lease" /\ h'[c].id = i /\ h'[c].ex = h[c].ex
          /\ h'[c].req = h[c].req
      BY <1>1, <3>1 DEF Handler
    <3>3. h[c].pc = "register"
      BY <1>10 DEF RegisterService
    <3> QED
      BY <1>3, <3>2, <3>3 DEF HoldsRight
  <2> QED
    BY <1>10, <2>1, <2>2 DEF RegisterService
<1>11. CASE FirstLease(c) \/ Store(c)
  BY <1>1, <1>4, <1>5, <1>11 DEF FirstLease, Store, HoldsRight
<1>12. ASSUME NEW k \in Key, Drain(c, k) \/ Deregister(c, k) PROVE HoldsRight(h'[c], services')
  BY <1>3, <1>12 DEF Drain, Deregister
<1> QED
  BY <1>6, <1>7, <1>8, <1>9, <1>10, <1>11, <1>12 DEF HandlerStep, RegisterStep

\* Away from the handlers, h and local change only as the process ends and as
\* Shutdown removes an entry.
LEMMA SightKinds ==
  ASSUME [Next]_vars
  PROVE  \/ \E c \in Caller : HandlerStep(c)
         \/ Halt
         \/ StopLeaseLoop
         \/ \E s \in shutTodo : ShutdownDeregister(s)
         \/ /\ UNCHANGED <<local, h, shutTodo>>
            /\ phase' = phase \/ phase' # "deregistering"
<1>1. CASE Handlers
  BY <1>1 DEF Handlers, HandlerStep
<1>2. CASE Lifecycle
  BY <1>2 DEF Lifecycle, Boot, CatalogRead, QueryFails, Started, SweepQuery, SweepDeregister,
    SweepDeregisterFails, Terminate, AdminCloseTimesOut, ShutdownFails, ShutdownDone, Crash
<1>3. CASE LeaseLoop \/ ConsulSteps \/ UNCHANGED vars
  BY <1>3 DEF LeaseLoop, LeaseTick, LeaseRefresh, ConsulSteps, LateCallEnds, Lapse, Reap,
    agentVars, vars
<1> QED
  BY <1>1, <1>2, <1>3 DEF Next

LEMMA RegisteredStays ==
  ASSUME TypeOK, RegistryInv, [Next]_vars
  PROVE  \A i \in InstanceID : Settled(i) /\ i \notin services => i \notin services'
<1>1. CASE Next
  BY <1>1, StepKeeps DEF Kept
<1>2. CASE UNCHANGED vars
  BY <1>2 DEF vars
<1> QED
  BY <1>1, <1>2

LEMMA SightStep ==
  ASSUME TypeOK, RegistryInv, SightInv, [Next]_vars
  PROVE  SightInv'
<1>1. \A i \in InstanceID : Settled(i) /\ i \notin services => i \notin services'
  BY RegisteredStays
<1>2. \A d \in Caller : HoldsRight(h[d], services')
  <2> SUFFICES ASSUME NEW d \in Caller PROVE HoldsRight(h[d], services')
    OBVIOUS
  <2>1. HoldsRight(h[d], services) /\ h[d] \in Handler
    BY DEF SightInv, HoldsRight, TypeOK
  <2>2. h[d].ex # None => h[d].ex.id \in InstanceID /\ Settled(h[d].ex.id)
    BY <2>1 DEF Handler, LocalService, RegistryInv, IdsSettled
  <2> QED
    BY <1>1, <2>1, <2>2 DEF HoldsRight
<1>3. ASSUME \A d \in Caller : HoldsRight(h'[d], services'),
             phase' = "deregistering" => \A s \in shutTodo' : local'[s.req.key] = s
      PROVE  SightInv'
  BY <1>3 DEF SightInv, HoldsRight
<1>4. ASSUME NEW c \in Caller, HandlerStep(c) PROVE SightInv'
  <2>1. \A d \in Caller : HoldsRight(h'[d], services')
    BY <1>1, <1>2, <1>4, HandlerMoves, HeldAfter
  <2>2. phase' # "deregistering"
    BY <1>4, HandlerMoves, HandlerRunning
  <2> QED
    BY <1>3, <2>1, <2>2
<1>5. CASE Halt
  BY <1>3, <1>5 DEF Halt, Idle, HoldsRight
<1>6. CASE StopLeaseLoop
  <2>1. \A s \in ActiveLocal : local[s.req.key] = s
    BY DEF ActiveLocal, Active, RegistryInv, KeysMatch
  <2> QED
    BY <1>2, <1>3, <1>6, <2>1 DEF StopLeaseLoop
<1>7. ASSUME NEW s \in shutTodo, ShutdownDeregister(s) PROVE SightInv'
  <2>1. \A t \in shutTodo : local[t.req.key] = t
    BY <1>7 DEF ShutdownDeregister, SightInv
  <2>2. \A t \in shutTodo' : t \in shutTodo /\ t.req.key # s.req.key
    BY <1>7, <2>1 DEF ShutdownDeregister
  <2>3. \A t \in shutTodo' : local'[t.req.key] = t
    BY <1>7, <2>1, <2>2 DEF ShutdownDeregister, TypeOK, LocalService
  <2>4. h' = h
    BY <1>7 DEF ShutdownDeregister
  <2> QED
    BY <1>2, <1>3, <2>3, <2>4
<1>8. CASE /\ UNCHANGED <<local, h, shutTodo>>
           /\ phase' = phase \/ phase' # "deregistering"
  BY <1>2, <1>3, <1>8 DEF SightInv
<1> QED
  BY <1>4, <1>5, <1>6, <1>7, <1>8, SightKinds

\* Nobody goes back from serving to starting.
LEMMA PhaseOrder ==
  ASSUME TypeOK, [Next]_vars, phase \in {"up", "closing", "deregistering"}, phase' # "down"
  PROVE  phase' \in {"up", "closing", "deregistering"}
<1>1. CASE Handlers
  <2>1. PICK c \in Caller : HandlerStep(c)
    BY <1>1 DEF Handlers, HandlerStep
  <2> QED
    BY <2>1, HandlerMoves
<1>2. CASE Lifecycle
  BY <1>2 DEF Lifecycle, Boot, CatalogRead, QueryFails, Started, SweepQuery, SweepDeregister,
    SweepDeregisterFails, Terminate, AdminCloseTimesOut, StopLeaseLoop, ShutdownDeregister,
    ShutdownFails, ShutdownDone, Crash, Halt
<1>3. CASE LeaseLoop \/ ConsulSteps \/ UNCHANGED vars
  BY <1>3 DEF LeaseLoop, LeaseTick, LeaseRefresh, ConsulSteps, LateCallEnds, Lapse, Reap,
    agentVars, vars
<1> QED
  BY <1>1, <1>2, <1>3 DEF Next

\* A step of handler c that leaves the agent without sight of i.
LEMMA HandlerLoses ==
  ASSUME TypeOK, RegistryInv, SightInv, NEW c \in Caller, HandlerStep(c),
         NEW i \in InstanceID, i \in services, i \in services', Attended(i), ~Attended(i)'
  PROVE  h'[c].pc # h[c].pc /\ (Overtaken(c, i) \/ GivesUp(c, i))
<1>1. h[c] \in Handler /\ h[c].pc \in PC
  BY DEF TypeOK, Handler
<1>2. ~Tracked(i)' /\ ~InHand(i)'
  BY HandlerRunning, HandlerMoves DEF Attended
<1>3. \A d \in Caller : ~(h'[d].id = i \/ (h'[d].ex # None /\ h'[d].ex.id = i))
  BY <1>2 DEF InHand
<1>4. \A k \in Key : Active(local'[k]) => local'[k].id # i
  BY <1>2 DEF Tracked, ActiveLocal, Active
<1>5. \A k \in Key : local[k] # None /\ local[k].id = i => Active(local[k])
  BY DEF RegistryInv, DeregisteredIsGone, Active
<1> DEFINE Held == h[c].id = i \/ (h[c].ex # None /\ h[c].ex.id = i)
<1>6. Held \/ \E k \in Key : Active(local[k]) /\ local[k].id = i /\ local'[k] # local[k]
  <2>1. ASSUME NEW d \in Caller, h[d].id = i \/ (h[d].ex # None /\ h[d].ex.id = i) PROVE Held
    BY <1>3, <2>1, HandlerMoves
  <2>2. ASSUME Tracked(i) PROVE \E k \in Key : Active(local[k]) /\ local[k].id = i
    BY <2>2 DEF Tracked, ActiveLocal
  <2> QED
    BY <1>4, <2>1, <2>2 DEF Attended, InHand, Active
<1>7. /\ h[c].id # None => h[c].id \in InstanceID
      /\ h[c].ex # None => h[c].ex \in LocalService /\ h[c].ex.id \in InstanceID
      /\ h[c].pc # "idle" => h[c].req \in Request /\ h[c].req.key \in Key
  BY <1>1, RequestAssumption DEF Handler, LocalService, RegistryInv, HandlerCopies
<1>8. \/ h[c].pc \notin {"lease", "store"}
      \/ h[c].ex = None
      \/ h[c].ex.id # i
  BY DEF SightInv
<1>9. h[c].pc \notin {"lease", "store"} => h[c].id # i
  BY NoneAssumption DEF SightInv
<1>10. ASSUME h'[c].id = h[c].id, h'[c].ex = h[c].ex PROVE ~Held
  BY <1>3, <1>10
<1>11. ASSUME NEW pc, Goto(c, pc) PROVE h'[c].id = h[c].id /\ h'[c].ex = h[c].ex /\ h'[c].pc = pc
  BY <1>1, <1>11 DEF Goto, TypeOK, Handler
<1>12. ASSUME Return(c) PROVE h'[c].pc = "idle"
  BY <1>12 DEF Return, Idle, TypeOK
<1> HIDE DEF Held
<1>13. ASSUME NEW s, local' = [local EXCEPT ![h[c].req.key] = s], ~Held,
              h[c].pc \in {"replayStore", "replaceStore", "store"}
       PROVE  Overtaken(c, i)
  <2>1. PICK k \in Key : Active(local[k]) /\ local[k].id = i /\ local'[k] # local[k]
    BY <1>6, <1>13
  <2>2. k = h[c].req.key
    BY <1>13, <2>1 DEF TypeOK
  <2> QED
    BY <1>13, <2>1, <2>2 DEF Overtaken, Active, Held
<1>14. CASE \E q \in Request : Begin(c, q)
  BY <1>6, <1>9, <1>14 DEF Begin, SightInv, Held
<1>15. CASE Replay(c) \/ Replace(c)
  BY <1>6, <1>10, <1>11, <1>12, <1>15 DEF Replay, Replace, GivesUp, Held
<1>16. CASE ReplayStore(c)
  <2>1. local' = [local EXCEPT ![h[c].req.key] = h[c].ex] /\ Active(h[c].ex)
    BY <1>16 DEF ReplayStore, SightInv, RegistryInv, HandlerCopies
  <2>2. h[c].ex.id # i
    BY <1>4, <1>7, <1>16, <2>1 DEF ReplayStore, TypeOK
  <2>3. ~Held
    BY <1>9, <1>16, <2>2 DEF ReplayStore, Held
  <2> QED
    BY <1>12, <1>13, <1>16, <2>1, <2>3 DEF ReplayStore
<1>17. CASE ReplaceStore(c)
  <2>1. local' = [local EXCEPT ![h[c].req.key] = [h[c].ex EXCEPT !.state = "Deregistered"]]
    BY <1>17 DEF ReplaceStore, SightInv, RegistryInv, HandlerCopies
  <2>2. h'[c].pc = "checkDoc" /\ ~Held
    BY <1>10, <1>11, <1>17 DEF ReplaceStore
  <2>3. Overtaken(c, i)
    BY <1>13, <1>17, <2>1, <2>2 DEF ReplaceStore
  <2> QED
    BY <1>17, <2>2, <2>3 DEF ReplaceStore
<1>18. CASE CheckDoc(c) \/ PutDoc(c) \/ NoInstanceID(c) \/ RegisterService(c)
  <2>1. h[c].pc \in {"checkDoc", "putDoc", "register"} /\ local' = local
    BY <1>18 DEF CheckDoc, PutDoc, NoInstanceID, RegisterService
  <2>2. ~Held
    BY <1>9, <2>1 DEF Held, SightInv
  <2> QED
    BY <1>6, <2>1, <2>2
<1>19. CASE FirstLease(c)
  BY <1>6, <1>10, <1>11, <1>12, <1>19 DEF FirstLease, GivesUp, Held
<1>20. CASE Store(c)
  <2>1. local'[h[c].req.key] = [req |-> h[c].req, id |-> h[c].id, state |-> "Serving"]
    BY <1>7, <1>20 DEF Store, TypeOK
  <2>2. h[c].id # i
    BY <1>4, <1>7, <1>20, <2>1, NoneIsNoLocalService DEF Store, Active, LocalService, State
  <2>3. ~Held
    BY <1>8, <1>20, <2>2 DEF Store, Held
  <2> QED
    BY <1>12, <1>13, <1>20, <2>3 DEF Store
<1>21. ASSUME NEW k \in Key, Drain(c, k) \/ Deregister(c, k) PROVE FALSE
  <2>1. h' = h /\ ~Held
    BY <1>10, <1>21 DEF Drain, Deregister
  <2>2. PICK j \in Key : Active(local[j]) /\ local[j].id = i /\ local'[j] # local[j]
    BY <1>6, <2>1
  <2>3. j = k /\ local[j] \in LocalService
    BY <1>21, <2>2 DEF Drain, Deregister, SetState, TypeOK, Active
  <2>4. CASE SetState(k, "Draining")
    <3>1. local'[k] = [local[k] EXCEPT !.state = "Draining"]
      BY <2>4 DEF SetState, TypeOK
    <3>2. local'[k] \in LocalService /\ local'[k].id = i /\ local'[k].state = "Draining"
      BY <2>2, <2>3, <3>1 DEF LocalService, State
    <3> QED
      BY <1>4, <3>2, NoneIsNoLocalService DEF Active
  <2>5. CASE Succeeds("deregister", local[k].id)
    BY <2>2, <2>3, <2>5 DEF Succeeds, Performs, RemoveService
  <2> QED
    BY <1>21, <2>2, <2>4, <2>5 DEF Drain, Deregister
<1> QED
  BY <1>14, <1>15, <1>16, <1>17, <1>18, <1>19, <1>20, <1>21 DEF HandlerStep, RegisterStep

\* The registry client loses sight of a registered instance only in Register:
\* between its look-up and its store, or on a call that failed.
THEOREM OnlyOvertakenLostHolds == Spec => OnlyOvertakenLost
<1>1. Init => SightInv
  BY DEF Init, Idle, SightInv
<1>2. TypeOK /\ RegistryInv /\ SightInv /\ [Next]_vars => SightInv'
  BY SightStep
<1>3. TypeOK /\ RegistryInv /\ SightInv /\ [Next]_vars =>
        [\A i \in services \cap services' :
           Attended(i) /\ phase' # "down" /\ ~Attended(i)'
             => \E c \in Caller : h'[c].pc # h[c].pc /\ (Overtaken(c, i) \/ GivesUp(c, i))]_vars
  <2> SUFFICES ASSUME TypeOK, RegistryInv, SightInv, [Next]_vars,
                      NEW i \in services \cap services',
                      Attended(i), phase' # "down", ~Attended(i)'
               PROVE  \E c \in Caller : h'[c].pc # h[c].pc /\ (Overtaken(c, i) \/ GivesUp(c, i))
    OBVIOUS
  <2>1. i \in InstanceID
    BY DEF TypeOK, ConsulTypeOK
  <2>2. ASSUME NEW c \in Caller, HandlerStep(c)
        PROVE  h'[c].pc # h[c].pc /\ (Overtaken(c, i) \/ GivesUp(c, i))
    BY <2>1, <2>2, HandlerLoses
  <2>3. CASE Halt
    BY <2>3 DEF Halt
  <2>4. CASE UNCHANGED <<local, h>>
    <3>1. phase' \in {"up", "closing", "deregistering"}
      BY <2>4, PhaseOrder DEF Attended
    <3> QED
      BY <2>4, <3>1 DEF Attended, Tracked, ActiveLocal, InHand
  <2>5. ASSUME NEW s \in shutTodo, ShutdownDeregister(s) PROVE FALSE
    <3>1. s.id # i /\ h' = h /\ phase' = "deregistering"
      BY <2>5 DEF ShutdownDeregister, Succeeds, Performs, RemoveService
    <3>2. local[s.req.key] = s
      BY <2>5 DEF ShutdownDeregister, SightInv
    <3>3. \A k \in Key : Active(local[k]) /\ local[k].id = i => local'[k] = local[k]
      BY <2>5, <3>1, <3>2 DEF ShutdownDeregister, TypeOK
    <3>4. Tracked(i) => Tracked(i)'
      BY <3>3 DEF Tracked, ActiveLocal, Active
    <3> QED
      BY <3>1, <3>4 DEF Attended, InHand
  <2> QED
    BY <2>2, <2>3, <2>4, <2>5, SightKinds DEF StopLeaseLoop
<1> QED
  BY <1>1, <1>2, <1>3, TypeCorrectness, RegistryInvariance, PTL DEF Spec, OnlyOvertakenLost

-----------------------------------------------------------------------------
(* What takes an entry back.                                               *)

\* The ids that are in the table or in a handler's copy.
Stored(i) ==
  \/ \E k \in Key : local[k] # None /\ local[k].id = i
  \/ \E c \in Caller : h[c].ex # None /\ h[c].ex.id = i

Making(c, i) == h[c].pc \in {"lease", "store"} /\ h[c].id = i

\* HandsNew, id by id: nothing being made is stored, and one handler makes it.
LEMMA HandsNewParts ==
  HandsNew <=> \A i : \A c, d \in Caller : Making(c, i) => ~Stored(i) /\ (Making(d, i) => d = c)
BY DEF HandsNew, Making, Stored

LEMMA HandsNewPartsNext ==
  HandsNew' <=> \A i : \A c, d \in Caller : Making(c, i)' => ~Stored(i)' /\ (Making(d, i)' => d = c)
BY DEF HandsNew, Making, Stored

\* Away from RegisterService nothing new is in hand, and what is stored has
\* been stored or in hand before.
LEMMA MakingKept ==
  ASSUME TypeOK, RegistryInv, NEW c \in Caller, HandlerStep(c), ~RegisterService(c)
  PROVE  /\ \A i : \A d \in Caller : Making(d, i)' => Making(d, i)
         /\ \A i \in InstanceID : Stored(i)' => Stored(i) \/ (Making(c, i) /\ ~Making(c, i)')
<1>1. \A d \in Caller \ {c} : h'[d] = h[d]
  BY HandlerMoves
<1>2. h[c] \in Handler
  BY DEF TypeOK
<1>3. ASSUME NEW pc, Goto(c, pc)
      PROVE  h'[c].pc = pc /\ h'[c].id = h[c].id /\ h'[c].ex = h[c].ex
  BY <1>2, <1>3 DEF Goto, TypeOK, Handler
<1>4. ASSUME Return(c) PROVE h'[c].pc = "idle" /\ h'[c].ex = None
  BY <1>4 DEF Return, TypeOK, Idle
<1> DEFINE Tame ==
      /\ h'[c].pc \in {"lease", "store"} => h[c].pc \in {"lease", "store"} /\ h'[c].id = h[c].id
      /\ h'[c].ex # None => h'[c].ex = h[c].ex \/ \E k \in Key : local[k] # None /\ h'[c].ex = local[k]
      /\ \A k \in Key : local'[k] # None =>
           \/ local[k] # None /\ local'[k].id = local[k].id
           \/ h[c].ex # None /\ local'[k].id = h[c].ex.id
           \/ Making(c, local'[k].id) /\ h'[c].pc = "idle"
<1>5. CASE Tame
  <2>1. \A i : \A d \in Caller : Making(d, i)' => Making(d, i)
    BY <1>1, <1>5 DEF Making
  <2>2. ASSUME NEW i \in InstanceID, NEW k \in Key, local'[k] # None, local'[k].id = i
        PROVE  Stored(i) \/ (Making(c, i) /\ ~Making(c, i)')
    BY <1>5, <2>2 DEF Stored, Making
  <2>3. ASSUME NEW i \in InstanceID, NEW d \in Caller, h'[d].ex # None, h'[d].ex.id = i
        PROVE  Stored(i)
    BY <1>1, <1>5, <2>3 DEF Stored
  <2> HIDE DEF Tame
  <2> QED
    BY <2>1, <2>2, <2>3 DEF Stored
<1>6. ASSUME local' = local, NEW pc, Goto(c, pc), pc \in {"lease", "store"} => h[c].pc = "lease"
      PROVE  Tame
  BY <1>3, <1>6
<1>13. ASSUME local' = local, Return(c) PROVE Tame
  BY <1>4, <1>13
<1>7. ASSUME NEW q \in Request, Begin(c, q) PROVE Tame
  <2>1. /\ h'[c].pc = FirstStep(local[q.key], q)
        /\ h'[c].ex = IF Active(local[q.key]) THEN local[q.key] ELSE None
        /\ local' = local
    BY <1>7 DEF Begin, TypeOK
  <2> QED
    BY <2>1, RequestAssumption DEF FirstStep, Active
<1>8. ASSUME \/ Replay(c) \/ Replace(c) \/ CheckDoc(c) \/ PutDoc(c)
             \/ NoInstanceID(c) \/ FirstLease(c)
      PROVE  Tame
  <2> HIDE DEF Tame
  <2>1. local' = local
    BY <1>8 DEF Replay, Replace, CheckDoc, PutDoc, NoInstanceID, FirstLease
  <2>2. Return(c) \/ (\E pc : Goto(c, pc) /\ (pc \in {"lease", "store"} => h[c].pc = "lease"))
    <3>1. CASE Replay(c) \/ Replace(c) \/ NoInstanceID(c)
      BY <3>1 DEF Replay, Replace, NoInstanceID
    <3>2. CASE CheckDoc(c) \/ PutDoc(c)
      BY <3>2 DEF CheckDoc, PutDoc
    <3>3. CASE FirstLease(c)
      BY <3>3 DEF FirstLease
    <3> QED
      BY <1>8, <3>1, <3>2, <3>3
  <2> QED
    BY <1>6, <1>13, <2>1, <2>2
<1>9. ASSUME ReplayStore(c) PROVE Tame
  <2>1. h[c].ex # None /\ h'[c].pc = "idle" /\ h'[c].ex = None
    BY <1>4, <1>9 DEF ReplayStore, RegistryInv, HandlerCopies
  <2>2. \A k \in Key : local'[k] = local[k] \/ local'[k] = h[c].ex
    BY <1>9 DEF ReplayStore, TypeOK
  <2>3. \A k \in Key : local'[k] # None =>
           (local[k] # None /\ local'[k].id = local[k].id) \/ local'[k].id = h[c].ex.id
    BY <2>2
  <2> QED
    BY <2>1, <2>3
<1>10. ASSUME ReplaceStore(c) PROVE Tame
  <2>1. h[c].ex # None /\ h'[c].pc = "checkDoc" /\ h'[c].ex = h[c].ex
    BY <1>3, <1>10 DEF ReplaceStore, RegistryInv, HandlerCopies
  <2>2. [h[c].ex EXCEPT !.state = "Deregistered"].id = h[c].ex.id
    BY <1>2, <2>1 DEF Handler, LocalService
  <2>3. \A k \in Key : local'[k] # None =>
           (local[k] # None /\ local'[k].id = local[k].id) \/ local'[k].id = h[c].ex.id
    BY <1>10, <2>2 DEF ReplaceStore, TypeOK
  <2> QED
    BY <2>1, <2>3
<1>11. ASSUME Store(c) PROVE Tame
  <2>1. h[c].pc = "store" /\ h'[c].pc = "idle" /\ h'[c].ex = None
    BY <1>4, <1>11 DEF Store
  <2>2. \A k \in Key : local'[k] # None =>
           (local[k] # None /\ local'[k].id = local[k].id) \/ local'[k].id = h[c].id
    BY <1>11 DEF Store, TypeOK
  <2> QED
    BY <2>1, <2>2 DEF Making
<1>12. ASSUME NEW k \in Key, Drain(c, k) \/ Deregister(c, k) PROVE Tame
  <2>1. h' = h /\ local[k] # None /\ local[k] \in LocalService
    BY <1>12 DEF Drain, Deregister, TypeOK
  <2>2. \/ local' = local
        \/ \E state \in State : local' = [local EXCEPT ![k] = [local[k] EXCEPT !.state = state]]
    BY <1>12 DEF Drain, Deregister, SetState, State
  <2>3. \A j \in Key : local'[j] # None => local[j] # None /\ local'[j].id = local[j].id
    BY <2>1, <2>2 DEF TypeOK, LocalService
  <2> QED
    BY <2>1, <2>3
<1> HIDE DEF Tame
<1> QED
  BY <1>5, <1>7, <1>8, <1>9, <1>10, <1>11, <1>12 DEF HandlerStep, RegisterStep

\* RegisterService draws an id nobody has, and the last step of Register hands
\* it over to the table.
LEMMA HandsNewStep ==
  ASSUME TypeOK, RegistryInv, HandsNew, [Next]_vars
  PROVE  HandsNew'
<1>1. \A i : \A e \in Caller : Making(e, i) => i \in InstanceID /\ Settled(i)
  BY DEF Making, RegistryInv, HandlerCopies, IdsSettled, TypeOK, Handler
<1>2. ASSUME NEW c \in Caller, HandlerStep(c), ~RegisterService(c) PROVE HandsNew'
  <2> SUFFICES ASSUME NEW e \in Caller, NEW d \in Caller, NEW i, Making(e, i)'
               PROVE  ~Stored(i)' /\ (Making(d, i)' => d = e)
    BY HandsNewPartsNext
  <2>1. Making(e, i) /\ (Making(d, i)' => Making(d, i))
    BY <1>2, MakingKept
  <2>2. i \in InstanceID /\ ~Stored(i) /\ (Making(d, i) => d = e) /\ (Making(c, i) => c = e)
    BY <1>1, <2>1, HandsNewParts
  <2>3. Stored(i)' => Stored(i) \/ (Making(c, i) /\ ~Making(c, i)')
    BY <1>2, <2>2, MakingKept
  <2> QED
    BY <2>1, <2>2, <2>3
<1>3. ASSUME NEW c \in Caller, RegisterService(c) PROVE HandsNew'
  <2> SUFFICES ASSUME NEW e \in Caller, NEW d \in Caller, NEW i, Making(e, i)'
               PROVE  ~Stored(i)' /\ (Making(d, i)' => d = e)
    BY HandsNewPartsNext
  <2>1. local' = local /\ \A g \in Caller \ {c} : h'[g] = h[g]
    BY <1>3 DEF RegisterService, Return, TypeOK
  <2>7. h'[c].ex # None => h'[c].ex = h[c].ex
    BY <1>3 DEF RegisterService, Return, Idle, TypeOK, Handler
  <2>2. \A j : Making(c, j)' => j \in Fresh
    <3>1. CASE Return(c)
      BY <3>1 DEF Return, Idle, TypeOK, Making
    <3>2. ASSUME NEW j \in Fresh, h' = [h EXCEPT ![c].pc = "lease", ![c].id = j]
          PROVE  \A x : Making(c, x)' => x = j
      BY <3>2 DEF TypeOK, Handler, Making
    <3> QED
      BY <1>3, <3>1, <3>2 DEF RegisterService
  <2>3. Stored(i)' => Stored(i)
    BY <2>1, <2>7 DEF Stored
  <2>4. \A g \in Caller \ {c} : Making(g, i)' => Making(g, i)
    BY <2>1 DEF Making
  <2>5. CASE e = c
    <3>1. ~Settled(i)
      BY <2>2, <2>5 DEF Fresh, Settled
    <3>2. ~Stored(i)
      BY <3>1 DEF Stored, RegistryInv, IdsSettled
    <3> QED
      BY <1>1, <2>3, <2>4, <2>5, <3>1, <3>2
  <2>6. CASE e # c
    <3>1. Making(e, i) /\ Settled(i)
      BY <1>1, <2>4, <2>6
    <3>2. ~Making(c, i)'
      BY <2>2, <3>1 DEF Fresh, Settled
    <3> QED
      BY <2>3, <2>4, <3>1, <3>2, HandsNewParts
  <2> QED
    BY <2>5, <2>6
<1>4. CASE \A c \in Caller : h'[c].pc = "idle"
  BY <1>4 DEF HandsNew
<1>5. CASE Halt
  BY <1>4, <1>5 DEF Halt, Idle
<1>6. ASSUME NEW s \in shutTodo, ShutdownDeregister(s) PROVE HandsNew'
  BY <1>4, <1>6 DEF ShutdownDeregister, RegistryInv, ShutdownCovers
<1>7. CASE UNCHANGED <<local, h>>
  BY <1>7 DEF HandsNew
<1> QED
  BY <1>2, <1>3, <1>5, <1>6, <1>7, SightKinds DEF StopLeaseLoop

\* The one key a replay stores under is that of its request.
LEMMA ReplayKey ==
  ASSUME TypeOK, RegistryInv, SightInv, NEW c \in Caller, ReplayStore(c), NEW k \in Key, local'[k] # local[k]
  PROVE  h[c].pc = "replayStore" /\ h[c].req.key = k /\ h'[c].pc = "idle"
<1>1. CASE h[c].ex # None
  BY <1>1 DEF ReplayStore, Return, Idle, SightInv, TypeOK
<1>2. CASE h[c].ex = None
  BY <1>2 DEF ReplayStore, RegistryInv, HandlerCopies
<1> QED
  BY <1>1, <1>2

\* The registry client takes the state of an instance back only in the replay
\* branch of Register.
THEOREM OnlyReplaysGoBackHolds == Spec => OnlyReplaysGoBack
<1>1. Init => SightInv /\ HandsNew
  BY DEF Init, Idle, SightInv, HandsNew
<1>2. TypeOK /\ RegistryInv /\ SightInv /\ HandsNew /\ [Next]_vars => SightInv' /\ HandsNew'
  BY SightStep, HandsNewStep
<1>3. TypeOK /\ RegistryInv /\ SightInv /\ HandsNew /\ [Next]_vars =>
        [\A k \in Key : GoesBack(k) =>
           \E c \in Caller : h[c].pc = "replayStore" /\ h[c].req.key = k /\ h'[c].pc = "idle"]_vars
  <2> SUFFICES ASSUME TypeOK, RegistryInv, SightInv, HandsNew, [Next]_vars,
                      NEW k \in Key, GoesBack(k)
               PROVE  \E c \in Caller : h[c].pc = "replayStore" /\ h[c].req.key = k /\ h'[c].pc = "idle"
    OBVIOUS
  <2>1. local[k] \in LocalService /\ local[k] # None /\ local'[k] # None
    BY DEF GoesBack, TypeOK
  <2>2. local'[k].state # "Deregistered" /\ local'[k] # local[k]
    BY <2>1 DEF GoesBack, Rank, LocalService, State
  <2>3. ~(local[k].state = "Serving" /\ local'[k].state = "Draining")
    BY DEF GoesBack, Rank, State
  <2>4. ASSUME NEW c \in Caller, HandlerStep(c) PROVE ReplayStore(c)
    <3>1. CASE local' = local
      BY <2>2, <3>1
    <3>2. CASE Store(c)
      <4>1. h[c].pc = "store" /\ (local'[k] = local[k] \/ local'[k].id = h[c].id)
        BY <3>2 DEF Store, TypeOK
      <4> QED
        BY <2>1, <2>2, <4>1 DEF GoesBack, HandsNew
    <3>3. CASE ReplaceStore(c)
      <4>1. h[c].ex \in LocalService
        BY <3>3 DEF ReplaceStore, RegistryInv, HandlerCopies, TypeOK, Handler
      <4>2. [h[c].ex EXCEPT !.state = "Deregistered"].state = "Deregistered"
        BY <4>1 DEF LocalService
      <4>3. local'[k] = local[k] \/ local'[k] = [h[c].ex EXCEPT !.state = "Deregistered"]
        BY <3>3 DEF ReplaceStore, TypeOK
      <4> QED
        BY <2>2, <4>2, <4>3
    <3>4. ASSUME NEW j \in Key, Drain(c, j) PROVE FALSE
      <4>1. j = k /\ Succeeds("maintain", local[k].id) /\ SetState(k, "Draining")
        BY <2>2, <3>4 DEF Drain, SetState, TypeOK
      <4>2. local[k].id \in services
        BY <4>1 DEF Succeeds, Performs, EnableMaintenance
      <4>3. local[k].state = "Serving" \/ local[k].state = "Draining"
        BY <2>1, <4>2 DEF RegistryInv, DeregisteredIsGone, LocalService, State
      <4>4. local'[k] = [local[k] EXCEPT !.state = "Draining"]
        BY <4>1 DEF SetState, TypeOK
      <4>5. local'[k].state = "Draining"
        BY <2>1, <4>4 DEF LocalService
      <4> QED
        BY <4>3, <4>5 DEF GoesBack, Rank, State
    <3>5. ASSUME NEW j \in Key, Deregister(c, j) PROVE FALSE
      <4>1. j = k /\ SetState(k, "Deregistered")
        BY <2>2, <3>5 DEF Deregister, SetState, TypeOK
      <4>2. local'[k] = [local[k] EXCEPT !.state = "Deregistered"]
        BY <4>1 DEF SetState, TypeOK
      <4> QED
        BY <2>1, <2>2, <4>2 DEF LocalService
    <3>6. CASE \/ Replay(c) \/ Replace(c) \/ CheckDoc(c) \/ PutDoc(c) \/ NoInstanceID(c)
               \/ RegisterService(c) \/ FirstLease(c) \/ \E q \in Request : Begin(c, q)
      BY <3>1, <3>6 DEF Replay, Replace, CheckDoc, PutDoc, NoInstanceID, RegisterService, FirstLease, Begin
    <3> QED
      BY <2>4, <3>2, <3>3, <3>4, <3>5, <3>6 DEF HandlerStep, RegisterStep
  <2>5. CASE Halt
    BY <2>1, <2>5 DEF Halt
  <2>6. ASSUME NEW s \in shutTodo, ShutdownDeregister(s) PROVE FALSE
    <3>1. s \in LocalService
      BY <2>6 DEF TypeOK
    <3>2. [s EXCEPT !.state = "Deregistered"].state = "Deregistered"
      BY <3>1 DEF LocalService
    <3>3. local'[k] = local[k] \/ local'[k] = [s EXCEPT !.state = "Deregistered"]
      BY <2>6 DEF ShutdownDeregister, TypeOK
    <3> QED
      BY <2>2, <3>2, <3>3
  <2>7. CASE local' = local
    BY <2>2, <2>7
  <2> QED
    BY <2>2, <2>4, <2>5, <2>6, <2>7, ReplayKey, SightKinds DEF StopLeaseLoop
<1> QED
  BY <1>1, <1>2, <1>3, TypeCorrectness, RegistryInvariance, PTL DEF Spec, OnlyReplaysGoBack

=============================================================================
