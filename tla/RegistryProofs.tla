--------------------------- MODULE RegistryProofs ---------------------------
(***************************************************************************)
(* Registry for any numbers of handlers, services, instances, runs and     *)
(* late calls, and for every set of faults: type correctness, the          *)
(* inductive invariant RegistryInv, the clean exit of the agent, and the   *)
(* refinement of InstanceLife.                                             *)
(***************************************************************************)
EXTENDS Registry, TLAPS

-----------------------------------------------------------------------------
(* Type correctness.                                                       *)

\* A call leaves Consul's state well typed, however it ends.
LEMMA CallTypes ==
  ASSUME ConsulTypeOK, NEW call, NEW arg,
         [call |-> call, arg |-> arg] \in LateCall,
         Succeeds(call, arg) \/ Fails(call, arg)
  PROVE  /\ services' \subseteq InstanceID
         /\ passing' \subseteq InstanceID
         /\ maintenance' \subseteq InstanceID
         /\ kv' \in [Name -> Doc \cup {None}]
         /\ late' \subseteq LateCall
<1>1. \/ call \in {"register", "pass", "maintain", "deregister"} /\ arg \in InstanceID
      \/ call = "put" /\ arg \in Request
  BY DEF LateCall
<1>2. CASE Fails(call, arg)
  BY <1>2 DEF ConsulTypeOK, Fails
<1>3. CASE Succeeds(call, arg)
  <2>1. late' = late
    BY <1>3 DEF Succeeds
  <2>2. CASE call = "put"
    <3>1. arg \in Request /\ StoreDoc(arg)
      BY <1>1, <1>3, <2>2 DEF Succeeds, Performs
    <3>2. arg.name \in Name /\ arg.doc \in Doc
      BY <3>1, RequestAssumption
    <3> QED
      BY <3>1, <3>2, <2>1 DEF ConsulTypeOK, StoreDoc
  <2>3. CASE call # "put"
    BY <1>1, <1>3, <2>1, <2>3
    DEF ConsulTypeOK, Succeeds, Performs, AddService, PassTTL, EnableMaintenance, RemoveService
  <2> QED
    BY <2>2, <2>3
<1> QED
  BY <1>2, <1>3

LEMMA InitTypeOK == Init => TypeOK
BY BoundAssumption DEF Init, TypeOK, ConsulInit, ConsulTypeOK, Phase, Handler, Idle, PC

LEMMA HaltTypes ==
  Halt => /\ phase' \in Phase
          /\ local' \in [Key -> LocalService \cup {None}]
          /\ h' \in [Caller -> Handler]
          /\ leaseTodo' \subseteq InstanceID
          /\ sweepNames' \subseteq Name
          /\ sweepIds' \subseteq InstanceID
          /\ shutTodo' \subseteq LocalService
BY DEF Halt, Phase, Handler, Idle, PC

LEMMA HandlerTypes ==
  ASSUME TypeOK, NEW c \in Caller
  PROVE  /\ \A pc \in PC : Goto(c, pc) => h' \in [Caller -> Handler]
         /\ Return(c) => h' \in [Caller -> Handler]
BY DEF TypeOK, Goto, Return, Handler, Idle, PC

LEMMA ActiveTypes ==
  TypeOK => /\ ActiveLocal \subseteq LocalService
            /\ {s.id : s \in ActiveLocal} \subseteq InstanceID
BY DEF TypeOK, ActiveLocal, Active, LocalService

LEMMA DrawnRegistration ==
  ASSUME TypeOK, RegistryInv, NEW c \in Caller, RegisterService(c)
  PROVE  [req |-> h[c].req, run |-> run] \in Registration
<1>1. h[c].req \in Request
  BY DEF RegisterService, RegistryInv, HandlerCopies, TypeOK, Handler
<1>2. run \in 1..MaxRuns
  BY BoundAssumption DEF RegisterService, RegistryInv, ShutdownCovers, TypeOK
<1> QED
  BY <1>1, <1>2 DEF Registration

LEMMA HandlersTypeOK ==
  ASSUME TypeOK, NEW c \in Caller, RegistryInv
  PROVE  /\ \A q \in Request : Begin(c, q) => TypeOK'
         /\ RegisterStep(c) => TypeOK'
         /\ \A k \in Key : Drain(c, k) \/ Deregister(c, k) => TypeOK'
<1> USE DEF OnlyHandlers, consulVars
<1>1. ASSUME NEW q \in Request, Begin(c, q) PROVE TypeOK'
  <2>1. FirstStep(local[q.key], q) \in PC
    BY DEF FirstStep, PC
  <2>2. local[q.key] \in LocalService \cup {None}
    BY RequestAssumption DEF TypeOK
  <2>3. h' \in [Caller -> Handler]
    BY <1>1, <2>1, <2>2 DEF Begin, TypeOK, Handler, Active
  <2> QED
    BY <1>1, <2>3 DEF Begin, TypeOK, ConsulTypeOK
<1>2. HandlerCopies /\ h[c] \in Handler
  BY DEF RegistryInv, TypeOK
<1>3. CASE Replay(c)
  <2>1. [call |-> "pass", arg |-> h[c].ex.id] \in LateCall
    BY <1>2, <1>3 DEF Replay, HandlerCopies, LateCall, Handler, LocalService
  <2> QED
    BY <1>3, <2>1, CallTypes, HandlerTypes DEF Replay, TypeOK, ConsulTypeOK, PC
<1>4. CASE ReplayStore(c)
  <2>1. h[c].ex \in LocalService
    BY <1>2, <1>4 DEF ReplayStore, HandlerCopies, Handler
  <2> QED
    BY <1>4, <2>1, HandlerTypes DEF ReplayStore, TypeOK, ConsulTypeOK
<1>5. CASE Replace(c)
  <2>1. [call |-> "deregister", arg |-> h[c].ex.id] \in LateCall
    BY <1>2, <1>5 DEF Replace, HandlerCopies, LateCall, Handler, LocalService
  <2> QED
    BY <1>5, <2>1, CallTypes, HandlerTypes DEF Replace, TypeOK, ConsulTypeOK, PC
<1>6. CASE ReplaceStore(c)
  <2>1. h[c].ex \in LocalService
    BY <1>2, <1>6 DEF ReplaceStore, HandlerCopies, Handler
  <2>2. [h[c].ex EXCEPT !.state = "Deregistered"] \in LocalService
    BY <2>1 DEF LocalService, State
  <2> QED
    BY <1>6, <2>2, HandlerTypes DEF ReplaceStore, TypeOK, ConsulTypeOK, PC
<1>7. CASE CheckDoc(c)
  BY <1>7, HandlerTypes DEF CheckDoc, TypeOK, ConsulTypeOK, PC
<1>8. CASE PutDoc(c)
  <2>1. [call |-> "put", arg |-> h[c].req] \in LateCall
    BY <1>2, <1>8 DEF PutDoc, HandlerCopies, LateCall, Handler
  <2> QED
    BY <1>8, <2>1, CallTypes, HandlerTypes DEF PutDoc, TypeOK, ConsulTypeOK, PC
<1>9. CASE RegisterService(c)
  <2>1. PICK i \in Fresh :
          /\ meta' = [meta EXCEPT ![i] = [req |-> h[c].req, run |-> run]]
          /\ \/ Succeeds("register", i) /\ h' = [h EXCEPT ![c].pc = "lease", ![c].id = i]
             \/ Fails("register", i) /\ Return(c)
    BY <1>9 DEF RegisterService
  <2>2. i \in InstanceID /\ [call |-> "register", arg |-> i] \in LateCall
    BY DEF Fresh, LateCall
  <2>3. h' \in [Caller -> Handler]
    BY <2>1, <2>2, HandlerTypes DEF TypeOK, Handler, PC
  <2>4. meta' \in [InstanceID -> Registration \cup {None}]
    BY <1>9, <2>1, DrawnRegistration DEF TypeOK, ConsulTypeOK
  <2> QED
    BY <1>9, <2>1, <2>2, <2>3, <2>4, CallTypes DEF RegisterService, TypeOK, ConsulTypeOK
<1>10. CASE NoInstanceID(c)
  BY <1>10, HandlerTypes DEF NoInstanceID, TypeOK, ConsulTypeOK
<1>11. CASE FirstLease(c)
  <2>1. [call |-> "pass", arg |-> h[c].id] \in LateCall
    BY <1>2, <1>11 DEF FirstLease, HandlerCopies, LateCall, Handler
  <2> QED
    BY <1>11, <2>1, CallTypes, HandlerTypes DEF FirstLease, TypeOK, ConsulTypeOK, PC
<1>12. CASE Store(c)
  <2>1. h[c].req \in Request /\ h[c].id \in InstanceID
    BY <1>2, <1>12 DEF Store, HandlerCopies, Handler
  <2>2. [req |-> h[c].req, id |-> h[c].id, state |-> "Serving"] \in LocalService
    BY <2>1 DEF LocalService, State
  <2> QED
    BY <1>12, <2>2, HandlerTypes DEF Store, TypeOK, ConsulTypeOK
<1>13. ASSUME NEW k \in Key, Drain(c, k) PROVE TypeOK'
  <2>1. local[k] \in LocalService
    BY <1>13 DEF Drain, TypeOK
  <2>2. [call |-> "maintain", arg |-> local[k].id] \in LateCall
    BY <2>1 DEF LateCall, LocalService
  <2>3. local' \in [Key -> LocalService \cup {None}]
    BY <1>13, <2>1 DEF Drain, SetState, TypeOK, LocalService, State
  <2> QED
    BY <1>13, <2>2, <2>3, CallTypes DEF Drain, TypeOK, ConsulTypeOK
<1>14. ASSUME NEW k \in Key, Deregister(c, k) PROVE TypeOK'
  <2>1. local[k] \in LocalService
    BY <1>14 DEF Deregister, TypeOK
  <2>2. [call |-> "deregister", arg |-> local[k].id] \in LateCall
    BY <2>1 DEF LateCall, LocalService
  <2>3. local' \in [Key -> LocalService \cup {None}]
    BY <1>14, <2>1 DEF Deregister, SetState, TypeOK, LocalService, State
  <2> QED
    BY <1>14, <2>2, <2>3, CallTypes DEF Deregister, TypeOK, ConsulTypeOK
<1> QED
  BY <1>1, <1>3, <1>4, <1>5, <1>6, <1>7, <1>8, <1>9, <1>10, <1>11, <1>12, <1>13, <1>14
  DEF RegisterStep

LEMMA LifecycleTypeOK == TypeOK /\ RegistryInv /\ Lifecycle => TypeOK'
<1> SUFFICES ASSUME TypeOK, RegistryInv, Lifecycle PROVE TypeOK'
  OBVIOUS
<1> USE DEF consulVars
<1>1. CASE Boot
  BY <1>1, BoundAssumption DEF Boot, TypeOK, ConsulTypeOK, Phase
<1>2. CASE CatalogRead
  <2>1. PICK view \in SUBSET InstanceID :
          Visible(view) /\ sweepNames' = {meta[i].req.name : i \in view}
    BY <1>2 DEF CatalogRead
  <2>2. \A i \in view : meta[i] \in Registration
    BY <2>1 DEF Visible, RegistryInv, IdsSettled, Settled, TypeOK, ConsulTypeOK
  <2>3. \A i \in view : meta[i].req.name \in Name
    BY <2>2, RequestAssumption DEF Registration
  <2> QED
    BY <1>2, <2>1, <2>3 DEF CatalogRead, TypeOK, ConsulTypeOK, Phase
<1>3. CASE QueryFails
  BY <1>3, HaltTypes DEF QueryFails, Halt, TypeOK, ConsulTypeOK
<1>4. CASE Started
  BY <1>4 DEF Started, TypeOK, ConsulTypeOK, Phase
<1>5. ASSUME NEW n \in Name, SweepQuery(n) PROVE TypeOK'
  BY <1>5 DEF SweepQuery, OldRun, TypeOK, ConsulTypeOK
<1>6. ASSUME NEW i \in InstanceID, SweepDeregister(i) \/ SweepDeregisterFails(i) PROVE TypeOK'
  <2>1. [call |-> "deregister", arg |-> i] \in LateCall
    BY DEF LateCall
  <2> QED
    BY <1>6, <2>1, CallTypes, HaltTypes
    DEF SweepDeregister, SweepDeregisterFails, Halt, TypeOK, ConsulTypeOK
<1>7. CASE Terminate
  BY <1>7 DEF Terminate, TypeOK, ConsulTypeOK, Phase
<1>8. CASE AdminCloseTimesOut
  BY <1>8, HaltTypes DEF AdminCloseTimesOut, Halt, TypeOK, ConsulTypeOK
<1>9. CASE StopLeaseLoop
  BY <1>9, ActiveTypes DEF StopLeaseLoop, TypeOK, ConsulTypeOK, Phase
<1>10. ASSUME NEW s \in shutTodo, ShutdownDeregister(s) \/ ShutdownFails(s) PROVE TypeOK'
  <2>1. s \in LocalService
    BY DEF TypeOK
  <2>2. [call |-> "deregister", arg |-> s.id] \in LateCall
    BY <2>1 DEF LateCall, LocalService
  <2>3. [s EXCEPT !.state = "Deregistered"] \in LocalService
    BY <2>1 DEF LocalService, State
  <2> QED
    BY <1>10, <2>2, <2>3, CallTypes, HaltTypes
    DEF ShutdownDeregister, ShutdownFails, Halt, TypeOK, ConsulTypeOK
<1>11. CASE ShutdownDone
  BY <1>11, HaltTypes DEF ShutdownDone, Halt, TypeOK, ConsulTypeOK
<1>12. CASE Crash
  BY <1>12, HaltTypes DEF Crash, Halt, TypeOK, ConsulTypeOK
<1> QED
  BY <1>1, <1>2, <1>3, <1>4, <1>5, <1>6, <1>7, <1>8, <1>9, <1>10, <1>11, <1>12 DEF Lifecycle

LEMMA BackgroundTypeOK == TypeOK /\ (LeaseLoop \/ ConsulSteps) => TypeOK'
<1> SUFFICES ASSUME TypeOK, LeaseLoop \/ ConsulSteps PROVE TypeOK'
  OBVIOUS
<1>1. CASE LeaseTick
  BY <1>1, ActiveTypes DEF LeaseTick, consulVars, TypeOK, ConsulTypeOK
<1>2. ASSUME NEW i \in leaseTodo, LeaseRefresh(i) PROVE TypeOK'
  <2>1. [call |-> "pass", arg |-> i] \in LateCall
    BY DEF LateCall, TypeOK
  <2> QED
    BY <1>2, <2>1, CallTypes DEF LeaseRefresh, TypeOK, ConsulTypeOK
<1>3. CASE LateCallEnds
  <2>1. PICK l \in late : (LateCallArrives(l) \/ LateCallLost(l)) /\ UNCHANGED agentVars
    BY <1>3 DEF LateCallEnds
  <2>2. l \in LateCall
    BY DEF TypeOK, ConsulTypeOK
  <2>3. CASE LateCallLost(l)
    BY <2>1, <2>3 DEF LateCallLost, agentVars, TypeOK, ConsulTypeOK
  <2>4. CASE LateCallArrives(l) /\ l.call = "put"
    <3>1. l.arg \in Request /\ l.arg.name \in Name /\ l.arg.doc \in Doc
      BY <2>2, <2>4, RequestAssumption DEF LateCall
    <3> QED
      BY <2>1, <2>4, <3>1
      DEF LateCallArrives, Performs, StoreDoc, agentVars, TypeOK, ConsulTypeOK
  <2>5. CASE LateCallArrives(l) /\ l.call # "put"
    <3>1. l.arg \in InstanceID
      BY <2>2, <2>5 DEF LateCall
    <3> QED
      BY <2>1, <2>5, <3>1
      DEF LateCallArrives, Performs, AddService, PassTTL, EnableMaintenance, RemoveService,
          agentVars, TypeOK, ConsulTypeOK
  <2> QED
    BY <2>1, <2>3, <2>4, <2>5
<1>4. ASSUME NEW i \in InstanceID, Lapse(i) \/ Reap(i) PROVE TypeOK'
  BY <1>4 DEF Lapse, LeaseLapses, Reap, Reaped, agentVars, TypeOK, ConsulTypeOK
<1> QED
  BY <1>1, <1>2, <1>3, <1>4 DEF LeaseLoop, ConsulSteps

-----------------------------------------------------------------------------
(* Consul keeps its side: whatever step is taken, the facts that an entry  *)
(* or a handler's copy records about a settled id stay true.               *)

ConsulSound ==
  /\ ChecksBelong
  /\ \A i \in services : Settled(i)
  /\ \A i \in InstanceID : LateRegister(i) => meta[i] # None

Kept ==
  \A i \in InstanceID : Settled(i) =>
    /\ Settled(i)'
    /\ i \notin services => i \notin services'
    /\ OutOfRotation(i) => OutOfRotation(i)'

\* A step that registers nothing, puts nothing back into rotation and draws
\* no id.
Shrinks ==
  /\ services' \subseteq services
  /\ passing' \subseteq services' /\ maintenance' \subseteq services'
  /\ maintenance \cap services' \subseteq maintenance'
  /\ meta' = meta
  /\ \A i \in InstanceID : LateRegister(i)' => LateRegister(i)

LEMMA ShrinksKeeps == TypeOK /\ ConsulSound /\ Shrinks => Kept /\ ConsulSound'
BY DEF TypeOK, ConsulTypeOK, ConsulSound, Shrinks, Kept, Settled, OutOfRotation, ChecksBelong

\* Every call but a registration.
LEMMA CallShrinks ==
  ASSUME ChecksBelong, NEW call \in {"pass", "maintain", "deregister", "put"}, NEW arg,
         Succeeds(call, arg) \/ Fails(call, arg), UNCHANGED meta
  PROVE  Shrinks
<1>1. CASE Succeeds(call, arg)
  BY <1>1 DEF Succeeds, Performs, AddService, PassTTL, EnableMaintenance, RemoveService, StoreDoc,
    ChecksBelong, Shrinks, LateRegister
<1>2. CASE Fails(call, arg)
  BY <1>2 DEF Fails, ChecksBelong, Shrinks, LateRegister
<1> QED
  BY <1>1, <1>2

LEMMA UnchangedShrinks == ChecksBelong /\ UNCHANGED consulVars => Shrinks
BY DEF consulVars, ChecksBelong, Shrinks, LateRegister

\* A registration concerns an id that nobody has settled yet.
LEMMA RegisterServiceKeeps ==
  ASSUME TypeOK, RegistryInv, ConsulSound, NEW c \in Caller, RegisterService(c)
  PROVE  /\ Kept /\ ConsulSound'
         /\ (h[c].pc = "lease" => h[c].id \in InstanceID /\ Settled(h[c].id))'
<1>1. PICK i \in Fresh :
        /\ meta' = [meta EXCEPT ![i] = [req |-> h[c].req, run |-> run]]
        /\ \/ Succeeds("register", i) /\ h' = [h EXCEPT ![c].pc = "lease", ![c].id = i]
           \/ Fails("register", i) /\ Return(c)
  BY DEF RegisterService
<1>2. i \in InstanceID /\ meta[i] = None /\ ~LateRegister(i) /\ i \notin services
  BY DEF Fresh, ConsulSound, Settled
<1>3. /\ \A j \in InstanceID : meta[j] # None => meta'[j] # None
      /\ meta'[i] # None
  BY <1>1, <1>2, DrawnRegistration, NoneAssumption DEF TypeOK, ConsulTypeOK
<1>4. CASE Succeeds("register", i) /\ h' = [h EXCEPT ![c].pc = "lease", ![c].id = i]
  <2>1. /\ services' = services \cup {i} /\ late' = late
        /\ passing' = passing /\ maintenance' = maintenance
    BY <1>4 DEF Succeeds, Performs, AddService
  <2>2. h'[c].id = i
    BY <1>4 DEF TypeOK, Handler
  <2>3. \A j \in InstanceID : LateRegister(j)' <=> LateRegister(j)
    BY <2>1 DEF LateRegister
  <2>4. \A j \in InstanceID : Settled(j) => Settled(j)' /\ j # i
    BY <1>2, <1>3, <2>3 DEF Settled
  <2>5. Settled(i)'
    BY <1>2, <1>3, <2>3 DEF Settled
  <2>6. Kept
    BY <2>1, <2>4 DEF Kept, OutOfRotation
  <2>7. ConsulSound'
    BY <1>3, <2>1, <2>3, <2>4, <2>5 DEF ConsulSound, ChecksBelong, TypeOK, ConsulTypeOK
  <2> QED
    BY <1>2, <2>2, <2>5, <2>6, <2>7
<1>5. CASE Fails("register", i) /\ Return(c)
  <2>1. /\ services' = services /\ passing' = passing /\ maintenance' = maintenance
        /\ late' \subseteq late \cup {[call |-> "register", arg |-> i]}
    BY <1>5 DEF Fails
  <2>2. \A j \in InstanceID \ {i} : LateRegister(j)' => LateRegister(j)
    BY <2>1 DEF LateRegister
  <2>3. h'[c].pc = "idle"
    BY <1>5 DEF Return, Idle, TypeOK
  <2>4. \A j \in InstanceID : Settled(j) => j # i
    BY <1>2 DEF Settled
  <2> QED
    BY <1>2, <1>3, <2>1, <2>2, <2>3, <2>4
    DEF Kept, ConsulSound, Settled, OutOfRotation, ChecksBelong, TypeOK, ConsulTypeOK
<1> QED
  BY <1>1, <1>4, <1>5

LEMMA LateCallEndsKeeps == TypeOK /\ ConsulSound /\ LateCallEnds => Kept /\ ConsulSound'
<1> SUFFICES ASSUME TypeOK, ConsulSound, LateCallEnds PROVE Kept /\ ConsulSound'
  OBVIOUS
<1>1. PICK l \in late : LateCallArrives(l) \/ LateCallLost(l)
  BY DEF LateCallEnds
<1>2. l \in LateCall
  BY DEF TypeOK, ConsulTypeOK
<1>3. CASE LateCallArrives(l) /\ l.call = "register"
  <2>1. /\ l.arg \in InstanceID
        /\ l = [call |-> "register", arg |-> l.arg]
    BY <1>2, <1>3 DEF LateCall
  <2>2. LateRegister(l.arg)
    BY <2>1 DEF LateRegister
  <2>3. /\ services' = services \cup {l.arg} /\ late' = late \ {l} /\ meta' = meta
        /\ passing' = passing /\ maintenance' = maintenance
    BY <1>3 DEF LateCallArrives, Performs, AddService
  <2>4. \A j \in InstanceID : LateRegister(j)' => LateRegister(j)
    BY <2>3 DEF LateRegister
  <2>5. ~LateRegister(l.arg)'
    BY <2>1, <2>3 DEF LateRegister
  <2>6. \A j \in InstanceID : Settled(j) => Settled(j)' /\ j # l.arg
    BY <2>2, <2>3, <2>4 DEF Settled
  <2>7. Settled(l.arg)'
    BY <2>1, <2>2, <2>3, <2>5 DEF Settled, ConsulSound
  <2>8. Kept
    BY <2>3, <2>6 DEF Kept, OutOfRotation
  <2>9. ConsulSound'
    <3>1. ChecksBelong'
      BY <2>3 DEF ChecksBelong, ConsulSound
    <3>2. \A j \in services' : Settled(j)'
      BY <2>3, <2>6, <2>7 DEF ConsulSound, TypeOK, ConsulTypeOK
    <3>3. \A j \in InstanceID : LateRegister(j)' => meta'[j] # None
      BY <2>3, <2>4 DEF ConsulSound
    <3> QED
      BY <3>1, <3>2, <3>3 DEF ConsulSound
  <2> QED
    BY <2>8, <2>9
<1>4. CASE LateCallLost(l) \/ (LateCallArrives(l) /\ l.call # "register")
  <2>1. Shrinks
    BY <1>4
    DEF LateCallArrives, LateCallLost, Performs, PassTTL, EnableMaintenance, RemoveService,
        StoreDoc, ConsulSound, ChecksBelong, Shrinks, LateRegister
  <2> QED
    BY <2>1, ShrinksKeeps
<1> QED
  BY <1>1, <1>3, <1>4

\* Every other step of Consul and of the agent.
LEMMA StepKeeps == TypeOK /\ RegistryInv /\ Next => Kept /\ ConsulSound'
<1> SUFFICES ASSUME TypeOK, RegistryInv, Next PROVE Kept /\ ConsulSound'
  OBVIOUS
<1>1. ConsulSound
  BY DEF RegistryInv, IdsSettled, ConsulSound
<1>2. CASE Shrinks
  BY <1>1, <1>2, ShrinksKeeps
<1>3. CASE LateCallEnds
  BY <1>1, <1>3, LateCallEndsKeeps
<1>4. ASSUME NEW c \in Caller, RegisterService(c) PROVE Kept /\ ConsulSound'
  BY <1>1, <1>4, RegisterServiceKeeps
<1>5. ChecksBelong
  BY DEF RegistryInv
<1>6. ASSUME NEW c \in Caller,
             \/ \E q \in Request : Begin(c, q)
             \/ RegisterStep(c) /\ ~RegisterService(c)
             \/ \E k \in Key : Drain(c, k) \/ Deregister(c, k)
      PROVE  Shrinks
  <2>1. CASE \/ \E q \in Request : Begin(c, q)
             \/ ReplayStore(c) \/ ReplaceStore(c) \/ CheckDoc(c) \/ NoInstanceID(c) \/ Store(c)
    <3>1. UNCHANGED consulVars
      BY <2>1 DEF Begin, ReplayStore, ReplaceStore, CheckDoc, NoInstanceID, Store
    <3> QED
      BY <1>5, <3>1, UnchangedShrinks
  <2>2. CASE Replay(c)
    BY <1>5, <2>2, CallShrinks DEF Replay
  <2>3. CASE Replace(c)
    BY <1>5, <2>3, CallShrinks DEF Replace
  <2>4. CASE PutDoc(c)
    BY <1>5, <2>4, CallShrinks DEF PutDoc
  <2>5. CASE FirstLease(c)
    BY <1>5, <2>5, CallShrinks DEF FirstLease
  <2>6. ASSUME NEW k \in Key, Drain(c, k) PROVE Shrinks
    BY <1>5, <2>6, CallShrinks DEF Drain
  <2>7. ASSUME NEW k \in Key, Deregister(c, k) PROVE Shrinks
    BY <1>5, <2>7, CallShrinks DEF Deregister
  <2> QED
    BY <1>6, <2>1, <2>2, <2>3, <2>4, <2>5, <2>6, <2>7 DEF RegisterStep
<1>7. CASE Lifecycle
  <2>1. CASE UNCHANGED consulVars
    BY <1>2, <1>5, <2>1, UnchangedShrinks
  <2>2. ASSUME NEW i \in InstanceID, SweepDeregister(i) \/ SweepDeregisterFails(i) PROVE Shrinks
    BY <1>5, <2>2, CallShrinks DEF SweepDeregister, SweepDeregisterFails
  <2>3. ASSUME NEW s \in shutTodo, ShutdownDeregister(s) \/ ShutdownFails(s) PROVE Shrinks
    BY <1>5, <2>3, CallShrinks DEF ShutdownDeregister, ShutdownFails
  <2> QED
    BY <1>2, <1>7, <2>1, <2>2, <2>3
    DEF Lifecycle, Boot, CatalogRead, QueryFails, Started, SweepQuery, Terminate,
        AdminCloseTimesOut, StopLeaseLoop, ShutdownDone, Crash
<1>8. CASE LeaseTick
  BY <1>2, <1>5, <1>8, UnchangedShrinks DEF LeaseTick
<1>9. ASSUME NEW i \in leaseTodo, LeaseRefresh(i) PROVE Shrinks
  BY <1>5, <1>9, CallShrinks DEF LeaseRefresh
<1>10. ASSUME NEW i \in InstanceID, Lapse(i) \/ Reap(i) PROVE Shrinks
  BY <1>5, <1>10 DEF Lapse, LeaseLapses, Reap, Reaped, ChecksBelong, Shrinks, LateRegister
<1> QED
  BY <1>2, <1>3, <1>4, <1>6, <1>7, <1>8, <1>9, <1>10
  DEF Next, Handlers, LeaseLoop, ConsulSteps

-----------------------------------------------------------------------------
(* The agent's side of the invariant, one entry and one handler at a time. *)

EntryOK(s) ==
  /\ Settled(s.id)
  /\ s.state = "Deregistered" => s.id \notin services
  /\ s.state = "Draining" => OutOfRotation(s.id)

EntriesOK == \A k \in Key : local[k] # None => EntryOK(local[k]) /\ local[k].req.key = k

HandlerOK(x) ==
  /\ x.pc # "idle" => x.req # None
  /\ x.pc \in {"replay", "replayStore", "replace", "replaceStore"} => x.ex # None
  /\ x.ex # None => Active(x.ex) /\ EntryOK(x.ex)
  /\ x.pc = "replaceStore" => x.ex.id \notin services
  /\ x.pc \in {"lease", "store"} => x.id # None /\ Settled(x.id)

HandlersOK == \A c \in Caller : HandlerOK(h[c])

LEMMA RegistryInvParts ==
  RegistryInv <=> /\ ConsulSound /\ EntriesOK /\ HandlersOK
                  /\ ShutdownCovers /\ (phase # "down" => run > 0)
BY DEF RegistryInv, ConsulSound, EntriesOK, EntryOK, HandlersOK, HandlerOK, IdsSettled,
  DeregisteredIsGone, DrainingOutOfRotation, HandlerCopies, KeysMatch, Active

LEMMA EntryKept ==
  ASSUME Kept, NEW s \in LocalService, EntryOK(s)
  PROVE  EntryOK(s)'
BY DEF Kept, EntryOK, LocalService

LEMMA HandlerKept ==
  ASSUME Kept, NEW x \in Handler, HandlerOK(x)
  PROVE  HandlerOK(x)'
<1>1. x.ex # None => EntryOK(x.ex)'
  BY EntryKept DEF HandlerOK, Handler
<1>2. x.pc \in {"lease", "store"} => Settled(x.id)'
  BY DEF HandlerOK, Handler, Kept
<1>3. x.pc = "replaceStore" => x.ex.id \notin services'
  <2>1. x.pc = "replaceStore" => x.ex \in LocalService /\ Settled(x.ex.id)
    BY DEF HandlerOK, Handler, EntryOK
  <2> QED
    BY <2>1 DEF HandlerOK, Kept, LocalService
<1> QED
  BY <1>1, <1>2, <1>3 DEF HandlerOK

\* The entries survive a step that leaves them alone, or stores one entry.
LEMMA EntriesKept == TypeOK /\ EntriesOK /\ Kept /\ UNCHANGED local => EntriesOK'
<1> SUFFICES ASSUME TypeOK, EntriesOK, Kept, UNCHANGED local, NEW k \in Key, local[k] # None
             PROVE  EntryOK(local[k])' /\ local'[k].req.key = k
  BY DEF EntriesOK
<1>1. local[k] \in LocalService /\ EntryOK(local[k]) /\ local[k].req.key = k
  BY DEF TypeOK, EntriesOK
<1> DEFINE s == local[k]
<1>2. PICK t \in LocalService : t = s
  BY <1>1
<1>3. EntryOK(t)'
  BY <1>1, <1>2, EntryKept
<1> QED
  BY <1>1, <1>2, <1>3 DEF EntryOK, Settled, LateRegister, OutOfRotation

LEMMA EntryStored ==
  ASSUME TypeOK, EntriesOK, Kept, NEW s \in LocalService, EntryOK(s)',
         local' = [local EXCEPT ![s.req.key] = s]
  PROVE  EntriesOK'
<1> SUFFICES ASSUME NEW k \in Key, local'[k] # None
             PROVE  EntryOK(local[k])' /\ local'[k].req.key = k
  BY DEF EntriesOK
<1>1. CASE k = s.req.key
  <2>1. local'[k] = s
    BY <1>1 DEF TypeOK
  <2> QED
    BY <1>1, <2>1 DEF EntryOK, Settled, LateRegister, OutOfRotation
<1>2. CASE k # s.req.key
  <2>1. local'[k] = local[k] /\ local[k] \in LocalService
    BY <1>2 DEF TypeOK
  <2>2. PICK t \in LocalService : t = local[k]
    BY <2>1
  <2>3. EntryOK(t)' /\ t.req.key = k
    BY <2>1, <2>2, EntryKept DEF EntriesOK
  <2> QED
    BY <2>1, <2>2, <2>3 DEF EntryOK, Settled, LateRegister, OutOfRotation
<1> QED
  BY <1>1, <1>2

\* The handlers survive a step of one of them, c, that leaves it in order.
LEMMA HandlersKept == TypeOK /\ HandlersOK /\ Kept /\ UNCHANGED h => HandlersOK'
<1> SUFFICES ASSUME TypeOK, HandlersOK, Kept, UNCHANGED h, NEW d \in Caller
             PROVE  HandlerOK(h[d])'
  BY DEF HandlersOK
<1>1. PICK x \in Handler : x = h[d]
  BY DEF TypeOK
<1>2. HandlerOK(x)'
  BY <1>1, HandlerKept DEF HandlersOK
<1> QED
  BY <1>1, <1>2 DEF HandlerOK, EntryOK, Settled, LateRegister, OutOfRotation, Active

LEMMA HandlerMoved ==
  ASSUME TypeOK, HandlersOK, Kept, NEW c \in Caller, NEW x, HandlerOK(x)',
         h' = [h EXCEPT ![c] = x]
  PROVE  HandlersOK'
<1> SUFFICES ASSUME NEW d \in Caller PROVE HandlerOK(h[d])'
  BY DEF HandlersOK
<1>1. CASE d = c
  <2>1. h'[d] = x
    BY <1>1 DEF TypeOK
  <2> QED
    BY <2>1 DEF HandlerOK, EntryOK, Settled, LateRegister, OutOfRotation, Active
<1>2. CASE d # c
  <2>1. h'[d] = h[d] /\ h[d] \in Handler
    BY <1>2 DEF TypeOK
  <2>2. PICK y \in Handler : y = h[d]
    BY <2>1
  <2>3. HandlerOK(y)'
    BY <2>2, HandlerKept DEF HandlersOK
  <2> QED
    BY <2>1, <2>2, <2>3 DEF HandlerOK, EntryOK, Settled, LateRegister, OutOfRotation, Active
<1> QED
  BY <1>1, <1>2

LEMMA HandlerGoes ==
  ASSUME TypeOK, HandlersOK, Kept, NEW c \in Caller, NEW pc \in PC, Goto(c, pc),
         h[c].pc # "idle",
         pc \in {"replay", "replayStore", "replace", "replaceStore"} => h[c].ex # None,
         pc = "replaceStore" => h[c].ex.id \notin services',
         pc \in {"lease", "store"} => h[c].pc = "lease"
  PROVE  HandlersOK'
<1>1. PICK x \in Handler : x = h[c]
  BY DEF TypeOK
<1>2. HandlerOK(x)'
  BY <1>1, HandlerKept DEF HandlersOK
<1> DEFINE y == [x EXCEPT !.pc = pc]
<1>3. /\ y.pc = pc /\ y.req = x.req /\ y.ex = x.ex /\ y.id = x.id
  BY DEF Handler
<1>4. HandlerOK(y)'
  BY <1>1, <1>2, <1>3 DEF HandlerOK
<1>5. h' = [h EXCEPT ![c] = y]
  BY <1>1 DEF Goto, TypeOK
<1> HIDE DEF y
<1> QED
  BY <1>4, <1>5, HandlerMoved

LEMMA HandlerReturns ==
  ASSUME TypeOK, HandlersOK, Kept, NEW c \in Caller, Return(c)
  PROVE  HandlersOK'
<1>1. HandlerOK(Idle)'
  BY DEF HandlerOK, Idle
<1> QED
  BY <1>1, HandlerMoved DEF Return

LEMMA HaltSound ==
  Halt => /\ EntriesOK' /\ HandlersOK' /\ ShutdownCovers'
          /\ (phase # "down" => run > 0)'
BY DEF Halt, EntriesOK, HandlersOK, HandlerOK, Idle, ShutdownCovers

\* Register, Drain and Deregister.
LEMMA HandlersSound ==
  ASSUME TypeOK, TypeOK', RegistryInv, Kept, Handlers, ConsulSound'
  PROVE  EntriesOK' /\ HandlersOK'
<1>1. ConsulSound /\ EntriesOK /\ HandlersOK
  BY RegistryInvParts
<1>2. PICK c \in Caller :
        \/ \E q \in Request : Begin(c, q)
        \/ RegisterStep(c)
        \/ \E k \in Key : Drain(c, k) \/ Deregister(c, k)
  BY DEF Handlers
<1>3. HandlerOK(h[c]) /\ h[c] \in Handler
  BY <1>1 DEF HandlersOK, TypeOK
<1>4. ASSUME NEW q \in Request, Begin(c, q) PROVE EntriesOK' /\ HandlersOK'
  <2>1. EntriesOK'
    BY <1>1, <1>4, EntriesKept DEF Begin
  <2> DEFINE x == [pc |-> FirstStep(local[q.key], q), req |-> q, id |-> None,
                   ex |-> IF Active(local[q.key]) THEN local[q.key] ELSE None]
  <2>2. PICK y : y = x
    OBVIOUS
  <2>3. q.key \in Key /\ q # None
    BY RequestAssumption, NoneAssumption
  <2>4. UNCHANGED <<services, maintenance, meta, late>>
    BY <1>4 DEF Begin, consulVars
  <2>5. y.ex # None => Active(y.ex) /\ EntryOK(y.ex)
    BY <1>1, <2>2, <2>3 DEF EntriesOK, Active
  <2>6. /\ y.req # None /\ y.pc \in {"checkDoc", "replay", "replace"}
        /\ y.pc # "checkDoc" => y.ex # None
    BY <2>2, <2>3 DEF FirstStep, Active
  <2>7. HandlerOK(y)'
    BY <2>4, <2>5, <2>6 DEF HandlerOK, Active, EntryOK, Settled, LateRegister, OutOfRotation
  <2>8. h' = [h EXCEPT ![c] = y]
    BY <1>4, <2>2 DEF Begin
  <2> QED
    BY <1>1, <2>1, <2>7, <2>8, HandlerMoved
<1>5. CASE Replay(c)
  <2>1. EntriesOK'
    BY <1>1, <1>5, EntriesKept DEF Replay
  <2>2. h[c].ex # None
    BY <1>3, <1>5 DEF Replay, HandlerOK
  <2> QED
    BY <1>1, <1>5, <2>1, <2>2, HandlerGoes, HandlerReturns DEF Replay, PC
<1>6. CASE ReplayStore(c)
  <2>1. PICK s \in LocalService : s = h[c].ex /\ EntryOK(s)
    BY <1>3, <1>6 DEF ReplayStore, HandlerOK, Handler
  <2>2. EntryOK(s)'
    BY <2>1, EntryKept
  <2>3. EntriesOK'
    BY <1>1, <1>6, <2>1, <2>2, EntryStored DEF ReplayStore
  <2> QED
    BY <1>1, <1>6, <2>3, HandlerReturns DEF ReplayStore
<1>7. CASE Replace(c)
  <2>1. EntriesOK'
    BY <1>1, <1>7, EntriesKept DEF Replace
  <2>2. h[c].ex # None
    BY <1>3, <1>7 DEF Replace, HandlerOK
  <2>3. CASE Succeeds("deregister", h[c].ex.id) /\ Goto(c, "replaceStore")
    <3>1. h[c].ex.id \notin services'
      BY <2>3 DEF Succeeds, Performs, RemoveService
    <3> QED
      BY <1>1, <1>7, <2>1, <2>2, <2>3, <3>1, HandlerGoes DEF Replace, PC
  <2>4. CASE Return(c)
    BY <1>1, <2>1, <2>4, HandlerReturns
  <2> QED
    BY <1>7, <2>3, <2>4 DEF Replace
<1>8. CASE ReplaceStore(c)
  <2>1. PICK e \in LocalService :
          e = h[c].ex /\ EntryOK(e) /\ e.id \notin services
    BY <1>3, <1>8 DEF ReplaceStore, HandlerOK, Handler
  <2> DEFINE f == [e EXCEPT !.state = "Deregistered"]
  <2>2. PICK s \in LocalService : s = f
    BY DEF LocalService, State
  <2>3. s.req = e.req /\ s.id = e.id /\ s.state = "Deregistered"
    BY <2>2 DEF LocalService
  <2>4. EntryOK(s)
    BY <2>1, <2>3 DEF EntryOK
  <2>5. EntryOK(s)'
    BY <2>4, EntryKept
  <2>6. local' = [local EXCEPT ![s.req.key] = s]
    BY <1>8, <2>1, <2>2, <2>3 DEF ReplaceStore
  <2>7. EntriesOK'
    BY <1>1, <2>5, <2>6, EntryStored
  <2> QED
    BY <1>1, <1>8, <2>7, HandlerGoes DEF ReplaceStore, PC
<1>9. CASE CheckDoc(c)
  <2>1. EntriesOK'
    BY <1>1, <1>9, EntriesKept DEF CheckDoc
  <2> QED
    BY <1>1, <1>9, <2>1, HandlerGoes, HandlerReturns DEF CheckDoc, PC
<1>10. CASE PutDoc(c)
  <2>1. EntriesOK'
    BY <1>1, <1>10, EntriesKept DEF PutDoc
  <2> QED
    BY <1>1, <1>10, <2>1, HandlerGoes, HandlerReturns DEF PutDoc, PC
<1>11. CASE RegisterService(c)
  <2>1. EntriesOK'
    BY <1>1, <1>11, EntriesKept DEF RegisterService
  <2>2. CASE Return(c)
    BY <1>1, <2>1, <2>2, HandlerReturns
  <2>3. ASSUME NEW i \in Fresh, h' = [h EXCEPT ![c].pc = "lease", ![c].id = i]
        PROVE  EntriesOK' /\ HandlersOK'
    <3>1. PICK x \in Handler : x = h[c] /\ HandlerOK(x) /\ x.req # None
      BY <1>3, <1>11 DEF RegisterService, HandlerOK
    <3>2. HandlerOK(x)'
      BY <3>1, HandlerKept
    <3> DEFINE y == [x EXCEPT !.pc = "lease", !.id = i]
    <3>3. y.pc = "lease" /\ y.req = x.req /\ y.ex = x.ex /\ y.id = i
      BY DEF Handler
    <3>4. h' = [h EXCEPT ![c] = y]
      BY <2>3, <3>1 DEF TypeOK
    <3>5. h'[c].pc = "lease" /\ h'[c].id = i
      BY <3>3, <3>4 DEF TypeOK
    <3>6. Settled(i)' /\ i # None
      BY <1>1, <1>11, <3>5, RegisterServiceKeeps, NoneAssumption DEF Settled, LateRegister, Fresh
    <3>7. HandlerOK(y)'
      BY <3>1, <3>2, <3>3, <3>6 DEF HandlerOK
    <3> HIDE DEF y
    <3> QED
      BY <1>1, <2>1, <3>4, <3>7, HandlerMoved
  <2> QED
    BY <1>11, <2>2, <2>3 DEF RegisterService
<1>12. CASE NoInstanceID(c)
  <2>1. EntriesOK'
    BY <1>1, <1>12, EntriesKept DEF NoInstanceID
  <2> QED
    BY <1>1, <1>12, <2>1, HandlerReturns DEF NoInstanceID
<1>13. CASE FirstLease(c)
  <2>1. EntriesOK'
    BY <1>1, <1>13, EntriesKept DEF FirstLease
  <2> QED
    BY <1>1, <1>13, <2>1, HandlerGoes, HandlerReturns DEF FirstLease, PC
<1>14. CASE Store(c)
  <2> DEFINE f == [req |-> h[c].req, id |-> h[c].id, state |-> "Serving"]
  <2>1. h[c].req \in Request /\ h[c].id \in InstanceID /\ Settled(h[c].id)
    BY <1>3, <1>14 DEF Store, HandlerOK, Handler
  <2>2. PICK s \in LocalService : s = f
    BY <2>1 DEF LocalService, State
  <2>3. EntryOK(s)
    BY <2>1, <2>2 DEF EntryOK
  <2>4. EntryOK(s)'
    BY <2>3, EntryKept
  <2>5. local' = [local EXCEPT ![s.req.key] = s]
    BY <1>14, <2>2 DEF Store
  <2>6. EntriesOK'
    BY <1>1, <2>4, <2>5, EntryStored
  <2> QED
    BY <1>1, <1>14, <2>6, HandlerReturns DEF Store
<1>15. ASSUME NEW k \in Key, Drain(c, k) \/ Deregister(c, k)
       PROVE  EntriesOK' /\ HandlersOK'
  <2>1. HandlersOK'
    BY <1>1, <1>15, HandlersKept DEF Drain, Deregister
  <2>2. CASE UNCHANGED local
    BY <1>1, <2>1, <2>2, EntriesKept
  <2>3. PICK e \in LocalService : e = local[k] /\ EntryOK(e) /\ e.req.key = k
    BY <1>1, <1>15 DEF Drain, Deregister, EntriesOK, TypeOK
  <2>4. EntryOK(e)'
    BY <2>3, EntryKept
  <2>5. ASSUME NEW state \in {"Draining", "Deregistered"}, SetState(k, state),
               state = "Draining" => OutOfRotation(e.id)',
               state = "Deregistered" => e.id \notin services'
        PROVE  EntriesOK'
    <3>1. PICK s \in LocalService : s = [e EXCEPT !.state = state]
      BY DEF LocalService, State
    <3>2. s.req = e.req /\ s.id = e.id /\ s.state = state
      BY <3>1 DEF LocalService
    <3>3. EntryOK(s)'
      BY <2>4, <2>5, <3>2 DEF EntryOK, Settled, LateRegister, OutOfRotation
    <3>4. local' = [local EXCEPT ![s.req.key] = s]
      BY <2>3, <2>5, <3>1, <3>2 DEF SetState, TypeOK
    <3> QED
      BY <1>1, <3>3, <3>4, EntryStored
  <2>6. CASE Succeeds("maintain", local[k].id) /\ SetState(k, "Draining")
    <3>1. OutOfRotation(e.id)'
      BY <2>3, <2>6 DEF Succeeds, Performs, EnableMaintenance, OutOfRotation
    <3> QED
      BY <2>1, <2>5, <2>6, <3>1
  <2>7. CASE Succeeds("deregister", local[k].id) /\ SetState(k, "Deregistered")
    <3>1. e.id \notin services'
      BY <2>3, <2>7 DEF Succeeds, Performs, RemoveService
    <3> QED
      BY <2>1, <2>5, <2>7, <3>1
  <2> QED
    BY <1>15, <2>2, <2>6, <2>7 DEF Drain, Deregister
<1> QED
  BY <1>2, <1>4, <1>5, <1>6, <1>7, <1>8, <1>9, <1>10, <1>11, <1>12, <1>13, <1>14, <1>15
  DEF RegisterStep

\* Start-up and shutdown, the lease loop, and what Consul does by itself.
LEMMA OthersSound ==
  ASSUME TypeOK, TypeOK', RegistryInv, Kept, Lifecycle \/ LeaseLoop \/ ConsulSteps
  PROVE  EntriesOK' /\ HandlersOK'
<1>1. EntriesOK /\ HandlersOK
  BY RegistryInvParts
<1>2. CASE Halt
  BY <1>2, HaltSound
<1>3. CASE UNCHANGED <<local, h>>
  BY <1>1, <1>3, EntriesKept, HandlersKept
<1>4. ASSUME NEW t \in shutTodo, ShutdownDeregister(t) PROVE EntriesOK' /\ HandlersOK'
  <2>1. HandlersOK'
    BY <1>1, <1>4, HandlersKept DEF ShutdownDeregister
  <2>2. t \in LocalService
    BY DEF TypeOK
  <2>3. PICK s \in LocalService : s = [t EXCEPT !.state = "Deregistered"]
    BY <2>2 DEF LocalService, State
  <2>4. s.req = t.req /\ s.id = t.id /\ s.state = "Deregistered"
    BY <2>2, <2>3 DEF LocalService
  <2>5. Settled(t.id)
    BY <1>4 DEF ShutdownDeregister, RegistryInv, ShutdownCovers
  <2>6. s.id \notin services' /\ Settled(s.id)'
    BY <1>4, <2>2, <2>4, <2>5
    DEF ShutdownDeregister, Succeeds, Performs, RemoveService, Kept, LocalService
  <2>7. EntryOK(s)'
    BY <2>4, <2>6 DEF EntryOK
  <2>8. local' = [local EXCEPT ![s.req.key] = s]
    BY <1>4, <2>3, <2>4 DEF ShutdownDeregister
  <2> QED
    BY <1>1, <2>1, <2>7, <2>8, EntryStored
<1> QED
  BY <1>2, <1>3, <1>4
  DEF Lifecycle, Boot, CatalogRead, QueryFails, Started, SweepQuery, SweepDeregister,
      SweepDeregisterFails, Terminate, AdminCloseTimesOut, StopLeaseLoop, ShutdownFails,
      ShutdownDone, Crash, LeaseLoop, LeaseTick, LeaseRefresh, ConsulSteps, LateCallEnds,
      Lapse, Reap, agentVars

\* Handlers are at rest before the shutdown snapshot is taken, and every
\* active entry stays in it until it is deregistered.
LEMMA ShutdownSound ==
  ASSUME TypeOK, RegistryInv, Kept, Next
  PROVE  ShutdownCovers' /\ (phase # "down" => run > 0)'
<1>1. EntriesOK /\ ShutdownCovers /\ (phase # "down" => run > 0)
  BY RegistryInvParts
<1>2. \A s \in shutTodo : Settled(s.id)'
  BY <1>1 DEF ShutdownCovers, Kept, TypeOK, LocalService
<1>3. CASE Halt
  BY <1>3, HaltSound
<1>4. CASE UNCHANGED <<phase, run, local, h, shutTodo>>
  BY <1>1, <1>2, <1>4 DEF ShutdownCovers, ActiveLocal, Settled, LateRegister
<1>5. CASE Handlers
  <2>1. PICK c \in Caller :
          \/ \E q \in Request : Begin(c, q)
          \/ RegisterStep(c)
          \/ \E k \in Key : Drain(c, k) \/ Deregister(c, k)
    BY <1>5 DEF Handlers
  <2>2. UNCHANGED <<phase, run, shutTodo>>
    BY <2>1 DEF RegisterStep, Begin, Replay, ReplayStore, Replace, ReplaceStore, CheckDoc, PutDoc,
      RegisterService, NoInstanceID, FirstLease, Store, Drain, Deregister, OnlyHandlers
  <2>3. phase \in {"up", "closing"}
    <3>1. phase = "up" \/ h[c].pc # "idle"
      BY <2>1 DEF RegisterStep, Begin, Replay, ReplayStore, Replace, ReplaceStore, CheckDoc, PutDoc,
        RegisterService, NoInstanceID, FirstLease, Store, Drain, Deregister
    <3> QED
      BY <1>1, <3>1 DEF ShutdownCovers, TypeOK, Phase
  <2> QED
    BY <1>1, <1>2, <2>2, <2>3 DEF ShutdownCovers, Settled, LateRegister
<1>6. CASE Boot
  BY <1>1, <1>2, <1>6 DEF Boot, ShutdownCovers, TypeOK, Settled, LateRegister, consulVars
<1>7. CASE CatalogRead \/ Started \/ Terminate
  BY <1>1, <1>2, <1>7
  DEF CatalogRead, Started, Terminate, ShutdownCovers, Settled, LateRegister, consulVars
<1>8. CASE StopLeaseLoop
  <2>1. \A s \in shutTodo' : Settled(s.id)
    BY <1>1, <1>8 DEF StopLeaseLoop, EntriesOK, EntryOK, ActiveLocal, Active
  <2>2. ActiveLocal' = ActiveLocal
    BY <1>8 DEF StopLeaseLoop, ActiveLocal
  <2> QED
    BY <1>1, <1>8, <2>1, <2>2 DEF StopLeaseLoop, ShutdownCovers, Settled, LateRegister, consulVars
<1>9. ASSUME NEW t \in shutTodo, ShutdownDeregister(t)
      PROVE  ShutdownCovers' /\ (phase # "down" => run > 0)'
  <2>1. \A s \in ActiveLocal' : s \in shutTodo'
    <3> SUFFICES ASSUME NEW k \in Key, Active(local'[k]) PROVE local'[k] \in shutTodo'
      BY DEF ActiveLocal, Active
    <3>1. k # t.req.key
      BY <1>9 DEF ShutdownDeregister, Active, TypeOK, LocalService
    <3>2. local'[k] = local[k]
      BY <1>9, <3>1 DEF ShutdownDeregister, TypeOK
    <3>3. local[k] \in shutTodo
      BY <1>1, <1>9, <3>2 DEF ShutdownDeregister, ShutdownCovers, ActiveLocal, Active
    <3>4. local[k].req.key = k
      BY <1>1, <3>2 DEF EntriesOK, Active
    <3> QED
      BY <1>9, <3>1, <3>2, <3>3, <3>4 DEF ShutdownDeregister
  <2> QED
    BY <1>1, <1>2, <1>9, <2>1 DEF ShutdownDeregister, ShutdownCovers, Settled, LateRegister
<1> QED
  BY <1>3, <1>4, <1>5, <1>6, <1>7, <1>8, <1>9
  DEF Next, Lifecycle, QueryFails, SweepQuery, SweepDeregister, SweepDeregisterFails,
      AdminCloseTimesOut, ShutdownFails, ShutdownDone, Crash, LeaseLoop, LeaseTick, LeaseRefresh,
      ConsulSteps, LateCallEnds, Lapse, Reap, agentVars

-----------------------------------------------------------------------------
(* The theorems.                                                           *)

IInv == TypeOK /\ RegistryInv

LEMMA InitIInv == Init => IInv
<1> SUFFICES ASSUME Init PROVE IInv
  OBVIOUS
<1>1. EntriesOK /\ HandlersOK /\ ConsulSound /\ ShutdownCovers
  BY DEF Init, ConsulInit, EntriesOK, HandlersOK, HandlerOK, Idle, ConsulSound, ChecksBelong,
    LateRegister, ShutdownCovers
<1> QED
  BY <1>1, InitTypeOK, RegistryInvParts DEF Init, IInv

LEMMA NextIInv == IInv /\ [Next]_vars => IInv'
<1> SUFFICES ASSUME TypeOK, RegistryInv, [Next]_vars PROVE IInv'
  BY DEF IInv
<1>1. CASE UNCHANGED vars
  BY <1>1 DEF vars, IInv, TypeOK, ConsulTypeOK, RegistryInv, DeregisteredIsGone,
    DrainingOutOfRotation, OutOfRotation, IdsSettled, Settled, LateRegister, ChecksBelong,
    HandlerCopies, Active, KeysMatch, ShutdownCovers, ActiveLocal
<1>2. CASE Next
  <2>1. TypeOK'
    BY <1>2, HandlersTypeOK, LifecycleTypeOK, BackgroundTypeOK DEF Next, Handlers
  <2>2. Kept /\ ConsulSound'
    BY <1>2, StepKeeps
  <2>3. EntriesOK' /\ HandlersOK'
    BY <1>2, <2>1, <2>2, HandlersSound, OthersSound DEF Next
  <2>4. ShutdownCovers' /\ (phase # "down" => run > 0)'
    BY <1>2, <2>2, ShutdownSound
  <2>5. RegistryInv'
    BY <2>2, <2>3, <2>4
    DEF RegistryInv, ConsulSound, EntriesOK, EntryOK, HandlersOK, HandlerOK, IdsSettled,
        DeregisteredIsGone, DrainingOutOfRotation, HandlerCopies, KeysMatch, Active
  <2> QED
    BY <2>1, <2>5 DEF IInv
<1> QED
  BY <1>1, <1>2

\* The inductive invariant holds in every reachable state.
THEOREM Invariance == Spec => []IInv
BY InitIInv, NextIInv, PTL DEF Spec

\* Every variable of the registry client and of Consul keeps its type.
THEOREM TypeCorrectness == Spec => []TypeOK
<1>1. IInv => TypeOK
  BY DEF IInv
<1> QED
  BY <1>1, Invariance, PTL

\* What registry.Client reports as Deregistered is gone from Consul, and what
\* it reports as Draining receives no traffic, whatever Register calls run
\* next to Drain and Deregister and however their Consul calls end.
THEOREM LocalStateSafe == Spec => [](DeregisteredIsGone /\ DrainingOutOfRotation)
<1>1. IInv => DeregisteredIsGone /\ DrainingOutOfRotation
  BY DEF IInv, RegistryInv
<1> QED
  BY <1>1, Invariance, PTL

\* The invariant the concurrent run checks.
THEOREM RegistryInvariance == Spec => []RegistryInv
<1>1. IInv => RegistryInv
  BY DEF IInv
<1> QED
  BY <1>1, Invariance, PTL

\* Client.Shutdown without an error leaves no known instance behind.
THEOREM CleanExitHolds == Spec => CleanExit
<1>1. IInv /\ [Next]_vars =>
        [ShutdownDone => \A k \in Key : local[k] # None => local[k].id \notin services]_vars
  <2> SUFFICES ASSUME IInv, ShutdownDone, NEW k \in Key, local[k] # None
               PROVE  local[k].id \notin services
    OBVIOUS
  <2>1. ~Active(local[k])
    BY DEF IInv, RegistryInv, ShutdownCovers, ShutdownDone, ActiveLocal
  <2> QED
    BY <2>1 DEF IInv, RegistryInv, DeregisteredIsGone, Active
<1> QED
  BY <1>1, Invariance, PTL DEF Spec, CleanExit

-----------------------------------------------------------------------------
(* Registry implements InstanceLife.                                       *)

LifeStep == [Lives!Next]_Life

\* A step in which at most the instance i moves, and as InstanceLife allows.
LEMMA OneMoves ==
  ASSUME NEW i \in InstanceID,
         \A j \in InstanceID \ {i} : StageOf(j)' = StageOf(j),
         \/ StageOf(i)' = StageOf(i)
         \/ StageOf(i) = "unborn" /\ StageOf(i)' = "serving"
         \/ StageOf(i) = "serving" /\ StageOf(i)' = "draining"
         \/ StageOf(i) # "gone" /\ StageOf(i)' = "gone"
  PROVE  LifeStep
<1>1. Life = [j \in InstanceID |-> StageOf(j)] /\ Life' = [j \in InstanceID |-> StageOf(j)']
  BY DEF Life
<1>2. Life' = [Life EXCEPT ![i] = StageOf(i)']
  BY <1>1
<1>3. Life[i] = StageOf(i)
  BY <1>1
<1>4. CASE StageOf(i)' = StageOf(i)
  <2>1. Life' = Life
    BY <1>1, <1>4
  <2> QED
    BY <2>1 DEF LifeStep
<1>5. CASE StageOf(i) = "unborn" /\ StageOf(i)' = "serving"
  BY <1>2, <1>3, <1>5 DEF LifeStep, Lives!Next, Lives!Appear, Lives!Reach
<1>6. CASE StageOf(i) = "serving" /\ StageOf(i)' = "draining"
  BY <1>2, <1>3, <1>6 DEF LifeStep, Lives!Next, Lives!Drain, Lives!Reach
<1>7. CASE StageOf(i) # "gone" /\ StageOf(i)' = "gone"
  BY <1>2, <1>3, <1>7 DEF LifeStep, Lives!Next, Lives!Vanish, Lives!Reach
<1> QED
  BY <1>4, <1>5, <1>6, <1>7

LEMMA NoneMoves ==
  ASSUME UNCHANGED <<services, maintenance, meta>>,
         \A j \in InstanceID : LateRegister(j)' <=> LateRegister(j)
  PROVE  LifeStep
BY DEF LifeStep, Life, StageOf

\* An instance that leaves Consul is gone for good, for no registration of
\* it is under way.
LEMMA RemovalMoves ==
  ASSUME ConsulSound, NEW i \in InstanceID,
         services' = services \ {i}, maintenance' = maintenance \ {i},
         UNCHANGED meta, \A j \in InstanceID : LateRegister(j)' <=> LateRegister(j)
  PROVE  LifeStep
<1>1. \A j \in InstanceID \ {i} : StageOf(j)' = StageOf(j)
  BY DEF StageOf
<1>2. i \in services => StageOf(i) # "gone" /\ StageOf(i)' = "gone"
  BY DEF ConsulSound, Settled, StageOf
<1>3. i \notin services => StageOf(i)' = StageOf(i)
  BY DEF StageOf
<1> QED
  BY <1>1, <1>2, <1>3, OneMoves

LEMMA CallMoves ==
  ASSUME ConsulSound, NEW call \in {"pass", "maintain", "deregister", "put"}, NEW arg,
         call # "put" => arg \in InstanceID,
         Succeeds(call, arg) \/ Fails(call, arg), UNCHANGED meta
  PROVE  LifeStep
<1>1. \A j \in InstanceID : LateRegister(j)' <=> LateRegister(j)
  BY DEF Succeeds, Fails, LateRegister
<1>2. CASE UNCHANGED <<services, maintenance>>
  BY <1>1, <1>2, NoneMoves
<1>3. CASE call = "maintain" /\ EnableMaintenance(arg)
  <2>1. \A j \in InstanceID \ {arg} : StageOf(j)' = StageOf(j)
    BY <1>1, <1>3 DEF EnableMaintenance, StageOf
  <2>2. StageOf(arg) \in {"serving", "draining"} /\ StageOf(arg)' = "draining"
    BY <1>3 DEF EnableMaintenance, StageOf
  <2> QED
    BY <1>3, <2>1, <2>2, OneMoves
<1>4. CASE call = "deregister" /\ RemoveService(arg)
  BY <1>1, <1>4, RemovalMoves DEF RemoveService
<1> QED
  BY <1>2, <1>3, <1>4 DEF Succeeds, Fails, Performs, AddService, PassTTL, StoreDoc

LEMMA RegisterServiceMoves ==
  ASSUME TypeOK, RegistryInv, ConsulSound, NEW c \in Caller, RegisterService(c)
  PROVE  LifeStep
<1>1. PICK i \in Fresh :
        /\ meta' = [meta EXCEPT ![i] = [req |-> h[c].req, run |-> run]]
        /\ Succeeds("register", i) \/ Fails("register", i)
  BY DEF RegisterService
<1>2. i \in InstanceID /\ meta[i] = None /\ i \notin services /\ i \notin maintenance
  BY DEF Fresh, ConsulSound, ChecksBelong, Settled
<1>3. meta'[i] # None /\ \A j \in InstanceID \ {i} : meta'[j] = meta[j]
  BY <1>1, <1>2, DrawnRegistration, NoneAssumption DEF TypeOK, ConsulTypeOK
<1>4. \A j \in InstanceID \ {i} :
        /\ LateRegister(j)' <=> LateRegister(j)
        /\ j \in services' <=> j \in services
        /\ j \in maintenance' <=> j \in maintenance
  BY <1>1 DEF Succeeds, Fails, Performs, AddService, LateRegister
<1>5. \A j \in InstanceID \ {i} : StageOf(j)' = StageOf(j)
  BY <1>3, <1>4 DEF StageOf
<1>6. StageOf(i) = "unborn"
  BY <1>2 DEF StageOf
<1>7. StageOf(i)' \in {"serving", "unborn", "gone"}
  BY <1>1, <1>2 DEF Succeeds, Fails, Performs, AddService, StageOf
<1> QED
  BY <1>2, <1>5, <1>6, <1>7, OneMoves

LEMMA LateCallMoves == TypeOK /\ ConsulSound /\ LateCallEnds => LifeStep
<1> SUFFICES ASSUME TypeOK, ConsulSound, LateCallEnds PROVE LifeStep
  OBVIOUS
<1>1. PICK l \in late : LateCallArrives(l) \/ LateCallLost(l)
  BY DEF LateCallEnds
<1>2. l \in LateCall /\ meta' = meta /\ late' = late \ {l}
  BY <1>1 DEF TypeOK, ConsulTypeOK, LateCallArrives, LateCallLost
<1>3. CASE l.call = "register"
  <2>1. l.arg \in InstanceID /\ l = [call |-> "register", arg |-> l.arg]
    BY <1>2, <1>3 DEF LateCall
  <2>2. LateRegister(l.arg) /\ meta[l.arg] # None
    BY <2>1 DEF LateRegister, ConsulSound
  <2>3. l.arg \notin services /\ l.arg \notin maintenance
    BY <2>2 DEF ConsulSound, Settled, ChecksBelong
  <2>4. /\ ~LateRegister(l.arg)'
        /\ \A j \in InstanceID \ {l.arg} : LateRegister(j)' <=> LateRegister(j)
    BY <1>2, <2>1 DEF LateRegister
  <2>5. /\ maintenance' = maintenance
        /\ services' = services \/ services' = services \cup {l.arg}
    BY <1>1, <1>3 DEF LateCallArrives, LateCallLost, Performs, AddService
  <2>6. \A j \in InstanceID \ {l.arg} : StageOf(j)' = StageOf(j)
    BY <1>2, <2>4, <2>5 DEF StageOf
  <2>7. StageOf(l.arg) = "unborn"
    BY <2>2, <2>3 DEF StageOf
  <2>8. StageOf(l.arg)' \in {"serving", "gone"}
    BY <1>2, <2>2, <2>3, <2>4, <2>5 DEF StageOf
  <2> QED
    BY <2>1, <2>6, <2>7, <2>8, OneMoves
<1>4. CASE l.call # "register"
  <2>1. \A j \in InstanceID : LateRegister(j)' <=> LateRegister(j)
    BY <1>2, <1>4 DEF LateRegister
  <2>2. CASE UNCHANGED <<services, maintenance>>
    BY <1>2, <2>1, <2>2, NoneMoves
  <2>3. CASE l.call = "maintain" /\ EnableMaintenance(l.arg)
    <3>1. l.arg \in InstanceID
      BY <1>2, <2>3 DEF LateCall
    <3>2. \A j \in InstanceID \ {l.arg} : StageOf(j)' = StageOf(j)
      BY <1>2, <2>1, <2>3 DEF EnableMaintenance, StageOf
    <3>3. StageOf(l.arg) \in {"serving", "draining"} /\ StageOf(l.arg)' = "draining"
      BY <2>3 DEF EnableMaintenance, StageOf
    <3> QED
      BY <3>1, <3>2, <3>3, OneMoves
  <2>4. CASE l.call = "deregister" /\ RemoveService(l.arg)
    <3>1. l.arg \in InstanceID
      BY <1>2, <2>4 DEF LateCall
    <3> QED
      BY <1>2, <2>1, <2>4, <3>1, RemovalMoves DEF RemoveService
  <2> QED
    BY <1>1, <1>4, <2>2, <2>3, <2>4
    DEF LateCallArrives, LateCallLost, Performs, PassTTL, StoreDoc
<1> QED
  BY <1>3, <1>4

LEMMA StepMoves == IInv /\ [Next]_vars => LifeStep
<1> SUFFICES ASSUME TypeOK, RegistryInv, [Next]_vars PROVE LifeStep
  BY DEF IInv
<1>1. ConsulSound /\ HandlersOK
  BY RegistryInvParts
<1>2. CASE UNCHANGED consulVars
  BY <1>2, NoneMoves DEF consulVars, LateRegister
<1>3. CASE Handlers
  <2>1. PICK c \in Caller :
          \/ \E q \in Request : Begin(c, q)
          \/ RegisterStep(c)
          \/ \E k \in Key : Drain(c, k) \/ Deregister(c, k)
    BY <1>3 DEF Handlers
  <2>2. h[c] \in Handler /\ HandlerOK(h[c])
    BY <1>1 DEF HandlersOK, TypeOK
  <2>3. CASE Replay(c)
    <3>1. h[c].ex.id \in InstanceID
      BY <2>2, <2>3 DEF Replay, HandlerOK, Handler, LocalService
    <3> QED
      BY <1>1, <2>3, <3>1, CallMoves DEF Replay
  <2>4. CASE Replace(c)
    <3>1. h[c].ex.id \in InstanceID
      BY <2>2, <2>4 DEF Replace, HandlerOK, Handler, LocalService
    <3> QED
      BY <1>1, <2>4, <3>1, CallMoves DEF Replace
  <2>5. CASE PutDoc(c)
    BY <1>1, <2>5, CallMoves DEF PutDoc
  <2>6. CASE FirstLease(c)
    <3>1. h[c].id \in InstanceID
      BY <2>2, <2>6 DEF FirstLease, HandlerOK, Handler
    <3> QED
      BY <1>1, <2>6, <3>1, CallMoves DEF FirstLease
  <2>7. CASE RegisterService(c)
    BY <1>1, <2>7, RegisterServiceMoves
  <2>8. ASSUME NEW k \in Key, Drain(c, k) \/ Deregister(c, k) PROVE LifeStep
    <3>1. local[k].id \in InstanceID
      BY <2>8 DEF Drain, Deregister, TypeOK, LocalService
    <3>2. CASE Drain(c, k)
      BY <1>1, <3>1, <3>2, CallMoves DEF Drain
    <3>3. CASE Deregister(c, k)
      BY <1>1, <3>1, <3>3, CallMoves DEF Deregister
    <3> QED
      BY <2>8, <3>2, <3>3
  <2> QED
    BY <1>2, <2>1, <2>3, <2>4, <2>5, <2>6, <2>7, <2>8
    DEF RegisterStep, Begin, ReplayStore, ReplaceStore, CheckDoc, NoInstanceID, Store
<1>4. CASE Lifecycle
  <2>1. ASSUME NEW i \in InstanceID, SweepDeregister(i) \/ SweepDeregisterFails(i) PROVE LifeStep
    BY <1>1, <2>1, CallMoves DEF SweepDeregister, SweepDeregisterFails
  <2>2. ASSUME NEW s \in shutTodo, ShutdownDeregister(s) \/ ShutdownFails(s) PROVE LifeStep
    <3>1. s.id \in InstanceID
      BY DEF TypeOK, LocalService
    <3> QED
      BY <1>1, <2>2, <3>1, CallMoves DEF ShutdownDeregister, ShutdownFails
  <2> QED
    BY <1>2, <1>4, <2>1, <2>2
    DEF Lifecycle, Boot, CatalogRead, QueryFails, Started, SweepQuery, Terminate,
        AdminCloseTimesOut, StopLeaseLoop, ShutdownDone, Crash
<1>5. CASE LeaseTick
  BY <1>2, <1>5 DEF LeaseTick
<1>6. ASSUME NEW i \in leaseTodo, LeaseRefresh(i) PROVE LifeStep
  <2>1. i \in InstanceID
    BY DEF TypeOK
  <2> QED
    BY <1>1, <1>6, <2>1, CallMoves DEF LeaseRefresh
<1>7. CASE LateCallEnds
  BY <1>1, <1>7, LateCallMoves
<1>8. ASSUME NEW i \in InstanceID, Lapse(i) PROVE LifeStep
  BY <1>8, NoneMoves DEF Lapse, LeaseLapses, LateRegister
<1>9. ASSUME NEW i \in InstanceID, Reap(i) PROVE LifeStep
  BY <1>1, <1>9, RemovalMoves DEF Reap, Reaped, LateRegister
<1>10. CASE UNCHANGED vars
  BY <1>2, <1>10 DEF vars, consulVars
<1> QED
  BY <1>3, <1>4, <1>5, <1>6, <1>7, <1>8, <1>9, <1>10 DEF Next, LeaseLoop, ConsulSteps

\* The registry client and Consul together implement InstanceLife: an instance
\* id that has left Consul never comes back, and a drained one never serves
\* again, across replays, late calls, crashes and restarts.
THEOREM ImplementsInstanceLife == Spec => EachInstanceLivesOnce
<1>1. Init => Lives!Init
  BY DEF Init, ConsulInit, Lives!Init, Life, StageOf, LateRegister
<1>2. IInv /\ [Next]_vars => [Lives!Next]_Life
  BY StepMoves DEF LifeStep
<1> QED
  BY <1>1, <1>2, Invariance, PTL DEF Spec, EachInstanceLivesOnce, Lives!Spec
=============================================================================
