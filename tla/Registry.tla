------------------------------ MODULE Registry ------------------------------
(***************************************************************************)
(* registry.Client of one host: the admin handlers that register, drain    *)
(* and deregister local services, the ownership lease loop, the cleanup of *)
(* earlier runs at start-up and the removal of everything at shutdown,     *)
(* next to the Consul agent they all talk to.                              *)
(*                                                                         *)
(* Drain and Deregister hold the client's mutex from the lookup to the     *)
(* store, so each is one step.  Register holds it only inside localService *)
(* and storeLocalService: every Consul call it makes, and every store, is  *)
(* a step of its own and other handlers run in between.                    *)
(***************************************************************************)
EXTENDS Consul

CONSTANT Caller  \* goroutines that can be inside an admin handler at once

VARIABLES
  phase,      \* where the agent process is: see Phase
  run,        \* agent_run_id of the current process (0: none started yet)
  local,      \* Client.localServices
  h,          \* what each handler goroutine holds in its local variables
  leaseTodo,  \* instances the running tick of leaseLoop has yet to refresh
  sweepNames, \* service names cleanupPreviousRuns has yet to query
  sweepIds,   \* old instances of the last query it has yet to deregister
  shutTodo    \* the snapshot Shutdown has yet to deregister

agentVars == <<phase, run, local, h, leaseTodo, sweepNames, sweepIds, shutTodo>>
vars == <<services, passing, maintenance, meta, kv, late,
          phase, run, local, h, leaseTodo, sweepNames, sweepIds, shutTodo>>

\* down: no process.  catalog, sweep: cleanupPreviousRuns.  up: handlers and
\* lease loop run.  closing: SIGTERM seen, the admin server lets its last
\* handlers finish.  deregistering: inside Client.Shutdown, lease loop gone.
Phase == {"down", "catalog", "sweep", "up", "closing", "deregistering"}

State == {"Serving", "Draining", "Deregistered"}
LocalService == [req : Request, id : InstanceID, state : State]

PC == {"idle", "replay", "replayStore", "replace", "replaceStore",
       "checkDoc", "putDoc", "register", "lease", "store"}
Handler == [pc : PC, req : Request \cup {None},
            ex : LocalService \cup {None}, id : InstanceID \cup {None}]

ASSUME NoneIsNoLocalService == None \notin LocalService

Idle == [pc |-> "idle", req |-> None, ex |-> None, id |-> None]

TypeOK ==
  /\ ConsulTypeOK
  /\ phase \in Phase
  /\ run \in 0..MaxRuns
  /\ local \in [Key -> LocalService \cup {None}]
  /\ h \in [Caller -> Handler]
  /\ leaseTodo \subseteq InstanceID
  /\ sweepNames \subseteq Name
  /\ sweepIds \subseteq InstanceID
  /\ shutTodo \subseteq LocalService

Init ==
  /\ ConsulInit
  /\ phase = "down"
  /\ run = 0
  /\ local = [k \in Key |-> None]
  /\ h = [c \in Caller |-> Idle]
  /\ leaseTodo = {} /\ sweepNames = {} /\ sweepIds = {} /\ shutTodo = {}

-----------------------------------------------------------------------------

Active(s) == s # None /\ s.state # "Deregistered"

\* Variant with a mistake: draining entries are left out.
ServingOnly == {local[k] : k \in {j \in Key : local[j] # None /\ local[j].state = "Serving"}}

\* activeLocalServices: everything not deregistered, draining included.
ActiveLocal == {local[k] : k \in {j \in Key : Active(local[j])}}

Tracked(i) == \E s \in ActiveLocal : s.id = i

\* A handler still has the instance in hand, between two steps of Register.
InHand(i) ==
  \E c \in Caller : h[c].id = i \/ (h[c].ex # None /\ h[c].ex.id = i)

\* Somebody is there to keep the lease alive, and in time.
Attended(i) ==
  /\ phase \in {"up", "closing", "deregistering"}
  /\ Tracked(i) \/ InHand(i)

\* The process ends; what it kept in memory goes with it.
Halt ==
  /\ phase' = "down"
  /\ local' = [k \in Key |-> None]
  /\ h' = [c \in Caller |-> Idle]
  /\ leaseTodo' = {} /\ sweepNames' = {} /\ sweepIds' = {} /\ shutTodo' = {}
  /\ UNCHANGED run

-----------------------------------------------------------------------------
(* Start: a new run, then cleanupPreviousRuns.  Any error ends the process *)
(* (main calls log.Fatal).                                                 *)

Boot ==
  /\ phase = "down" /\ run < MaxRuns
  /\ run' = run + 1
  /\ phase' = "catalog"
  /\ UNCHANGED <<consulVars, local, h, leaseTodo, sweepNames, sweepIds, shutTodo>>

CatalogRead ==
  /\ phase = "catalog"
  /\ \E view \in SUBSET InstanceID :
       Visible(view) /\ sweepNames' = {meta[i].req.name : i \in view}
  /\ phase' = "sweep"
  /\ UNCHANGED <<consulVars, run, local, h, leaseTodo, sweepIds, shutTodo>>

\* Variant with a mistake: the query asks for passing instances only.
OldRunPassing(view, n) == {i \in view \cap passing : meta[i].req.name = n /\ meta[i].run # run}

\* The entries of one service that carry our agent_id and another run id.
OldRun(view, n) == {i \in view : meta[i].req.name = n /\ meta[i].run # run}

SweepQuery(n) ==
  /\ phase = "sweep" /\ n \in sweepNames /\ sweepIds = {}
  /\ sweepNames' = sweepNames \ {n}
  /\ \E view \in SUBSET InstanceID : Visible(view) /\ sweepIds' = OldRun(view, n)
  /\ UNCHANGED <<consulVars, phase, run, local, h, leaseTodo, shutTodo>>

SweepDeregister(i) ==
  /\ phase = "sweep" /\ i \in sweepIds
  /\ Succeeds("deregister", i) /\ UNCHANGED meta
  /\ sweepIds' = sweepIds \ {i}
  /\ UNCHANGED <<phase, run, local, h, leaseTodo, sweepNames, shutTodo>>

SweepDeregisterFails(i) ==
  /\ phase = "sweep" /\ i \in sweepIds
  /\ Fails("deregister", i) /\ UNCHANGED meta
  /\ Halt

\* A catalog or health query failed.
QueryFails ==
  /\ phase \in {"catalog", "sweep"} /\ sweepIds = {} /\ "call" \in Faults
  /\ Halt
  /\ UNCHANGED consulVars

Started ==
  /\ phase = "sweep" /\ sweepNames = {} /\ sweepIds = {}
  /\ phase' = "up"
  /\ UNCHANGED <<consulVars, run, local, h, leaseTodo, sweepNames, sweepIds, shutTodo>>

-----------------------------------------------------------------------------
(* Register, one step per Consul call or locked section.                   *)

Goto(c, pc) == h' = [h EXCEPT ![c].pc = pc]
Return(c) == h' = [h EXCEPT ![c] = Idle]
OnlyHandlers == UNCHANGED <<phase, run, leaseTodo, sweepNames, sweepIds, shutTodo>>

\* Names, ports and all other scalars are compared as they are and methods
\* as sorted sets, which is how Request represents them.
SameRegisterRequest(left, right) == left = right

\* Variant with a mistake: a changed request does not remove the old instance.
FirstStepKeepsOld(existing, q) ==
  IF Active(existing) /\ SameRegisterRequest(existing.req, q) THEN "replay" ELSE "checkDoc"

FirstStep(existing, q) ==
  IF ~Active(existing) THEN "checkDoc"
  ELSE IF SameRegisterRequest(existing.req, q) THEN "replay" ELSE "replace"

\* Reads localServices under the read lock and lets go of it again.
Begin(c, q) ==
  /\ phase = "up" /\ h[c].pc = "idle"
  /\ h' = [h EXCEPT ![c] =
             [pc |-> FirstStep(local[q.key], q), req |-> q, id |-> None,
              ex |-> IF Active(local[q.key]) THEN local[q.key] ELSE None]]
  /\ OnlyHandlers /\ UNCHANGED <<consulVars, local>>

\* The same request again: refresh the lease, then store the copy read above.
Replay(c) ==
  /\ h[c].pc = "replay"
  /\ \/ Succeeds("pass", h[c].ex.id) /\ Goto(c, "replayStore")
     \/ Fails("pass", h[c].ex.id) /\ Return(c)
  /\ OnlyHandlers /\ UNCHANGED <<meta, local>>

ReplayStore(c) ==
  /\ h[c].pc = "replayStore"
  /\ local' = [local EXCEPT ![h[c].ex.req.key] = h[c].ex]
  /\ Return(c)
  /\ OnlyHandlers /\ UNCHANGED consulVars

\* A changed request: the old instance goes first.
Replace(c) ==
  /\ h[c].pc = "replace"
  /\ \/ Succeeds("deregister", h[c].ex.id) /\ Goto(c, "replaceStore")
     \/ Fails("deregister", h[c].ex.id) /\ Return(c)
  /\ OnlyHandlers /\ UNCHANGED <<meta, local>>

ReplaceStore(c) ==
  /\ h[c].pc = "replaceStore"
  /\ local' = [local EXCEPT ![h[c].ex.req.key] = [h[c].ex EXCEPT !.state = "Deregistered"]]
  /\ Goto(c, "checkDoc")
  /\ OnlyHandlers /\ UNCHANGED consulVars

\* ensureRouteDocument reads the document ...
CheckDoc(c) ==
  /\ h[c].pc = "checkDoc"
  /\ LET stored == kv[h[c].req.name]
         conflict == stored # None /\ stored # h[c].req.doc
     IN \/ ~conflict /\ Goto(c, "putDoc")
        \/ (conflict \/ "call" \in Faults) /\ Return(c)
  /\ OnlyHandlers /\ UNCHANGED <<consulVars, local>>

\* ... and writes it, unconditionally, in a second call.
PutDoc(c) ==
  /\ h[c].pc = "putDoc"
  /\ \/ Succeeds("put", h[c].req) /\ Goto(c, "register")
     \/ Fails("put", h[c].req) /\ Return(c)
  /\ OnlyHandlers /\ UNCHANGED <<meta, local>>

\* Variant with a mistake: ids of removed instances are used again.
Unregistered == InstanceID \ services

\* newInstanceID draws an id nobody has used, and fails when it cannot.
Fresh == {i \in InstanceID : meta[i] = None}

RegisterService(c) ==
  /\ h[c].pc = "register"
  /\ \E i \in Fresh :
       /\ meta' = [meta EXCEPT ![i] = [req |-> h[c].req, run |-> run]]
       /\ \/ Succeeds("register", i) /\ h' = [h EXCEPT ![c].pc = "lease", ![c].id = i]
          \/ Fails("register", i) /\ Return(c)
  /\ OnlyHandlers /\ UNCHANGED local

NoInstanceID(c) ==
  /\ h[c].pc = "register" /\ Fresh = {}
  /\ Return(c)
  /\ OnlyHandlers /\ UNCHANGED <<consulVars, local>>

FirstLease(c) ==
  /\ h[c].pc = "lease"
  /\ \/ Succeeds("pass", h[c].id) /\ Goto(c, "store")
     \/ Fails("pass", h[c].id) /\ Return(c)
  /\ OnlyHandlers /\ UNCHANGED <<meta, local>>

\* Variant with a mistake: the entry is stored before it is made Serving.
StoreRegistered(c) ==
  /\ h[c].pc = "store"
  /\ local' = [local EXCEPT ![h[c].req.key] =
                 [req |-> h[c].req, id |-> h[c].id, state |-> "Registered"]]
  /\ Return(c)
  /\ OnlyHandlers /\ UNCHANGED consulVars

Store(c) ==
  /\ h[c].pc = "store"
  /\ local' = [local EXCEPT ![h[c].req.key] =
                 [req |-> h[c].req, id |-> h[c].id, state |-> "Serving"]]
  /\ Return(c)
  /\ OnlyHandlers /\ UNCHANGED consulVars

RegisterStep(c) ==
  \/ Replay(c) \/ ReplayStore(c) \/ Replace(c) \/ ReplaceStore(c)
  \/ CheckDoc(c) \/ PutDoc(c) \/ RegisterService(c) \/ NoInstanceID(c)
  \/ FirstLease(c) \/ Store(c)

-----------------------------------------------------------------------------
(* Drain and Deregister: lookup, Consul call and store under one lock.     *)
(* Neither looks at the state of the entry it finds.                       *)

SetState(k, state) == local' = [local EXCEPT ![k].state = state]

\* Variant with a mistake: the entry is Draining whether or not Consul agreed.
DrainStoreFirst(c, k) ==
  /\ phase = "up" /\ h[c].pc = "idle" /\ local[k] # None
  /\ Succeeds("maintain", local[k].id) \/ Fails("maintain", local[k].id)
  /\ SetState(k, "Draining")
  /\ OnlyHandlers /\ UNCHANGED <<meta, h>>

\* Variant with a mistake: the new state is not written back to the map.
DrainNotStored(c, k) ==
  /\ phase = "up" /\ h[c].pc = "idle" /\ local[k] # None
  /\ Succeeds("maintain", local[k].id) \/ Fails("maintain", local[k].id)
  /\ OnlyHandlers /\ UNCHANGED <<meta, local, h>>

Drain(c, k) ==
  /\ phase = "up" /\ h[c].pc = "idle" /\ local[k] # None
  /\ \/ Succeeds("maintain", local[k].id) /\ SetState(k, "Draining")
     \/ Fails("maintain", local[k].id) /\ UNCHANGED local
  /\ OnlyHandlers /\ UNCHANGED <<meta, h>>

Deregister(c, k) ==
  /\ phase = "up" /\ h[c].pc = "idle" /\ local[k] # None
  /\ \/ Succeeds("deregister", local[k].id) /\ SetState(k, "Deregistered")
     \/ Fails("deregister", local[k].id) /\ UNCHANGED local
  /\ OnlyHandlers /\ UNCHANGED <<meta, h>>

-----------------------------------------------------------------------------
(* leaseLoop: a snapshot at the tick, then one UpdateTTL after the other;  *)
(* an error is logged and the loop goes on.                                *)

\* Variant with a mistake: draining instances are not refreshed.
LeaseTickServing ==
  /\ phase \in {"up", "closing"} /\ leaseTodo = {}
  /\ leaseTodo' = {s.id : s \in ServingOnly}
  /\ UNCHANGED <<consulVars, phase, run, local, h, sweepNames, sweepIds, shutTodo>>

LeaseTick ==
  /\ phase \in {"up", "closing"} /\ leaseTodo = {}
  /\ leaseTodo' = {s.id : s \in ActiveLocal}
  /\ UNCHANGED <<consulVars, phase, run, local, h, sweepNames, sweepIds, shutTodo>>

LeaseRefresh(i) ==
  /\ phase \in {"up", "closing"} /\ i \in leaseTodo
  /\ Succeeds("pass", i) \/ Fails("pass", i)
  /\ leaseTodo' = leaseTodo \ {i}
  /\ UNCHANGED <<meta, phase, run, local, h, sweepNames, sweepIds, shutTodo>>

-----------------------------------------------------------------------------
(* Runner.Shutdown up to and including Client.Shutdown.                    *)

Terminate ==
  /\ phase = "up"
  /\ phase' = "closing"
  /\ UNCHANGED <<consulVars, run, local, h, leaseTodo, sweepNames, sweepIds, shutTodo>>

\* adminServer.Shutdown waits for the handlers until the ten seconds of
\* WaitForShutdown are over; an open /watch stream alone makes it wait.
AdminCloseTimesOut ==
  /\ phase = "closing"
  /\ Halt
  /\ UNCHANGED consulVars

\* The lease loop is cancelled and waited for, then the snapshot is taken.
StopLeaseLoop ==
  /\ phase = "closing"
  /\ \A c \in Caller : h[c].pc = "idle"
  /\ leaseTodo = {}
  /\ phase' = "deregistering"
  /\ shutTodo' = ActiveLocal
  /\ UNCHANGED <<consulVars, run, local, h, leaseTodo, sweepNames, sweepIds>>

\* Variant with a mistake: an error does not stop the loop.
ShutdownGoesOn(s) ==
  /\ phase = "deregistering" /\ s \in shutTodo
  /\ Succeeds("deregister", s.id) \/ Fails("deregister", s.id)
  /\ local' = [local EXCEPT ![s.req.key] = [s EXCEPT !.state = "Deregistered"]]
  /\ shutTodo' = shutTodo \ {s}
  /\ UNCHANGED <<meta, phase, run, h, leaseTodo, sweepNames, sweepIds>>

ShutdownDeregister(s) ==
  /\ phase = "deregistering" /\ s \in shutTodo
  /\ Succeeds("deregister", s.id) /\ UNCHANGED meta
  /\ local' = [local EXCEPT ![s.req.key] = [s EXCEPT !.state = "Deregistered"]]
  /\ shutTodo' = shutTodo \ {s}
  /\ UNCHANGED <<phase, run, h, leaseTodo, sweepNames, sweepIds>>

\* The first error ends Shutdown and, through log.Fatal, the process.
ShutdownFails(s) ==
  /\ phase = "deregistering" /\ s \in shutTodo
  /\ Fails("deregister", s.id) /\ UNCHANGED meta
  /\ Halt

ShutdownDone ==
  /\ phase = "deregistering" /\ shutTodo = {}
  /\ Halt
  /\ UNCHANGED consulVars

Crash ==
  /\ "crash" \in Faults /\ phase # "down"
  /\ Halt
  /\ UNCHANGED consulVars

-----------------------------------------------------------------------------
(* Time, as Consul sees it.                                                *)

Lapse(i) ==
  /\ "expiry" \in Faults \/ ~Attended(i)
  /\ LeaseLapses(i)
  /\ UNCHANGED agentVars

Reap(i) ==
  /\ \/ "expiry" \in Faults \/ ~Attended(i)
     \/ "app" \in Faults /\ ~InHand(i)  \* reaping takes minutes, a call seconds
  /\ Reaped(i)
  /\ UNCHANGED agentVars

LateCallEnds == \E l \in late : (LateCallArrives(l) \/ LateCallLost(l)) /\ UNCHANGED agentVars

Handlers == \E c \in Caller :
  \/ \E q \in Request : Begin(c, q)
  \/ RegisterStep(c)
  \/ \E k \in Key : Drain(c, k) \/ Deregister(c, k)

Lifecycle ==
  \/ Boot \/ CatalogRead \/ QueryFails \/ Started
  \/ \E n \in Name : SweepQuery(n)
  \/ \E i \in InstanceID : SweepDeregister(i) \/ SweepDeregisterFails(i)
  \/ Terminate \/ AdminCloseTimesOut \/ StopLeaseLoop
  \/ \E s \in shutTodo : ShutdownDeregister(s) \/ ShutdownFails(s)
  \/ ShutdownDone \/ Crash

LeaseLoop == LeaseTick \/ \E i \in leaseTodo : LeaseRefresh(i)

ConsulSteps == LateCallEnds \/ \E i \in InstanceID : Lapse(i) \/ Reap(i)

Next == Handlers \/ Lifecycle \/ LeaseLoop \/ ConsulSteps

Spec == Init /\ [][Next]_vars
-----------------------------------------------------------------------------
(* What holds of every run, with any number of handlers and every fault.   *)

\* An entry shown as Deregistered is not registered at Consul, whatever the
\* other handlers, late calls and replays of Register did in the meantime.
DeregisteredIsGone ==
  \A k \in Key : local[k] # None /\ local[k].state = "Deregistered"
                   => local[k].id \notin services

OutOfRotation(i) == i \in services => i \in maintenance

\* An entry shown as Draining receives no traffic: its instance is in
\* maintenance or gone, also after a Register that stored an older copy.
DrainingOutOfRotation ==
  \A k \in Key : local[k] # None /\ local[k].state = "Draining"
                   => OutOfRotation(local[k].id)

\* A Shutdown that ends without an error leaves none of the instances the
\* agent knew of: not one that was draining, nor one whose state another
\* handler was changing when SIGTERM arrived.
CleanExit ==
  [][ShutdownDone => \A k \in Key : local[k] # None => local[k].id \notin services]_vars

\* Every instance goes through its life once, in order (InstanceLife): ids
\* are never reused and no late call or replay brings an instance back.
LateRegister(i) == [call |-> "register", arg |-> i] \in late

StageOf(i) == IF i \in services THEN IF i \in maintenance THEN "draining" ELSE "serving"
              ELSE IF meta[i] = None \/ LateRegister(i) THEN "unborn" ELSE "gone"

Life == [i \in InstanceID |-> StageOf(i)]

Lives == INSTANCE InstanceLife WITH life <- Life
EachInstanceLivesOnce == Lives!Spec

(* Their common inductive strengthening.                                   *)

\* The instance was registered, or its registration is known to be lost.
Settled(i) == meta[i] # None /\ ~LateRegister(i)

IdsSettled ==
  /\ \A i \in services : Settled(i)
  /\ \A k \in Key : local[k] # None => Settled(local[k].id)
  /\ \A c \in Caller : h[c].ex # None => Settled(h[c].ex.id)
  /\ \A c \in Caller : h[c].pc \in {"lease", "store"} => Settled(h[c].id)
  /\ \A i \in InstanceID : LateRegister(i) => meta[i] # None

ChecksBelong == passing \subseteq services /\ maintenance \subseteq services

HandlerCopies ==
  \A c \in Caller :
    /\ h[c].pc # "idle" => h[c].req # None
    /\ h[c].pc \in {"replay", "replayStore", "replace", "replaceStore"} => h[c].ex # None
    /\ h[c].pc \in {"lease", "store"} => h[c].id # None
    /\ h[c].ex # None => Active(h[c].ex)
    /\ h[c].ex # None /\ h[c].ex.state = "Draining" => OutOfRotation(h[c].ex.id)
    /\ h[c].pc = "replaceStore" => h[c].ex.id \notin services

KeysMatch == \A k \in Key : local[k] # None => local[k].req.key = k

ShutdownCovers ==
  /\ phase \in {"down", "catalog", "sweep", "deregistering"} =>
       \A c \in Caller : h[c].pc = "idle"
  /\ phase = "deregistering" => ActiveLocal \subseteq shutTodo
  /\ \A s \in shutTodo : Settled(s.id)

\* Why the four above hold: a handler's copy of an entry is never ahead of
\* Consul, and an id with a registration still under way is in nobody's hands.
RegistryInv ==
  /\ DeregisteredIsGone /\ DrainingOutOfRotation
  /\ IdsSettled /\ ChecksBelong /\ HandlerCopies /\ KeysMatch /\ ShutdownCovers
  /\ phase # "down" => run > 0

-----------------------------------------------------------------------------
(* How the agent loses sight of an instance.                               *)

\* Handler c stores over the entry of instance i, which is not the one it had
\* read when it began.
Overtaken(c, i) ==
  /\ h[c].pc \in {"replayStore", "replaceStore", "store"}
  /\ local[h[c].req.key] # None /\ local[h[c].req.key].id = i
  /\ h[c].ex = None \/ h[c].ex.id # i

\* A Consul call of handler c about instance i fails, and c returns.
GivesUp(c, i) ==
  /\ h[c].pc \in {"replay", "replace", "lease"} /\ h'[c].pc = "idle"
  /\ h[c].id = i \/ (h[c].ex # None /\ h[c].ex.id = i)

\* The agent loses sight of a registered instance only when Register, which
\* lets go of the lock between its look-up and its store, stores over what
\* another handler stored meanwhile, or gives up on a failed call: not by a
\* changed request, a drain, a lapse, a signal or its own shutdown.
OnlyOvertakenLost ==
  [][\A i \in services \cap services' :
       Attended(i) /\ phase' # "down" /\ ~Attended(i)'
         => \E c \in Caller : h'[c].pc # h[c].pc /\ (Overtaken(c, i) \/ GivesUp(c, i))]_vars

\* Why: a handler past its look-up holds the id of a removed instance or none,
\* and Shutdown the entries as they are in the table.
SightInv ==
  /\ \A c \in Caller :
       /\ h[c].id # None => h[c].pc \in {"lease", "store"}
       /\ h[c].ex # None => h[c].pc # "idle" /\ h[c].ex.req.key = h[c].req.key
       /\ h[c].pc \in {"checkDoc", "putDoc", "register", "lease", "store"} /\ h[c].ex # None
            => h[c].ex.id \notin services
  /\ phase = "deregistering" => \A s \in shutTodo : local[s.req.key] = s

\* An instance is served, drained and deregistered in that order, and its
\* entry says so: nothing but a replay that stores the copy it read before
\* takes an entry back - no drain of what is deregistered, no failed or late
\* call, no second deregistration.
Rank == [s \in State |-> CASE s = "Serving" -> 1 [] s = "Draining" -> 2 [] OTHER -> 3]

GoesBack(k) ==
  /\ local[k] # None /\ local'[k] # None /\ local'[k].id = local[k].id
  /\ Rank[local'[k].state] < Rank[local[k].state]

OnlyReplaysGoBack ==
  [][\A k \in Key : GoesBack(k) =>
       \E c \in Caller : h[c].pc = "replayStore" /\ h[c].req.key = k /\ h'[c].pc = "idle"]_vars

\* Why: an instance that is not stored yet is in one hand only.
HandsNew ==
  \A c \in Caller : h[c].pc \in {"lease", "store"} =>
    /\ \A k \in Key : local[k] # None => local[k].id # h[c].id
    /\ \A d \in Caller : h[d].ex # None => h[d].ex.id # h[c].id
    /\ \A d \in Caller \ {c} : h[d].pc \in {"lease", "store"} => h[d].id # h[c].id

-----------------------------------------------------------------------------
(* What holds as long as admin requests come one at a time and Consul      *)
(* answers, across crashes and restarts of the agent.                      *)

Owned(i) == meta[i].run = run

\* One process, one instance: this run never registers the same name and
\* port twice.
NoDuplicateRegistration ==
  \A i, j \in services :
    Owned(i) /\ Owned(j) /\ meta[i].req.key = meta[j].req.key => i = j

\* An entry shown as Serving can receive traffic: unless some handler is at
\* work on it, its instance is registered, its ownership lease holds and it is
\* not in maintenance.
AtWorkOn(k) == \E c \in Caller : h[c].req # None /\ h[c].req.key = k

ServingInRotation ==
  \A k \in Key : local[k] # None /\ local[k].state = "Serving" /\ ~AtWorkOn(k)
    => local[k].id \in (services \cap passing) \ maintenance

\* Once the start-up cleanup is over nothing of an earlier run is left.
NoOldRunLeft == phase \in {"up", "closing", "deregistering"} => \A i \in services : Owned(i)

\* A Shutdown without an error leaves nothing this run has registered,
\* instances replaced on a changed request included.
CleanExitLeavesNothing == [][ShutdownDone => \A i \in services : ~Owned(i)]_vars

\* A changed request that got as far as removing the old instance ends with
\* an instance built from the new request.
ReplaceRebuilds ==
  [][\A c \in Caller :
       h[c].ex # None /\ h[c].pc = "checkDoc" /\ h'[c].pc = "idle" /\ phase' # "down"
         => \E i \in services' : meta'[i].req = h[c].req]_vars

-----------------------------------------------------------------------------
(* Why the cleanup leaves nothing when Consul's answers are neither late   *)
(* nor stale.                                                              *)

\* The runs come one after the other: during the cleanup whatever was drawn is
\* of an earlier one, and what is registered has its name or its id still to
\* come.
RunsInOrder ==
  \A i \in InstanceID : meta[i] # None =>
    meta[i].run <= run /\ (phase \in {"catalog", "sweep"} => meta[i].run < run)

SweepCovers == phase = "sweep" => \A i \in services : meta[i].req.name \in sweepNames \/ i \in sweepIds

CleanupInv == late = {} /\ RunsInOrder /\ SweepCovers /\ NoOldRunLeft

-----------------------------------------------------------------------------
(* Progress.  Consul's timers run out.  The lease loop's ticker fires for  *)
(* as long as the loop lives, and its calls, retried at each tick, do not  *)
(* fail for ever.  Nothing is assumed of clients.                          *)

Fairness ==
  /\ \A i \in InstanceID : WF_vars(~Attended(i) /\ Lapse(i)) /\ WF_vars(~Attended(i) /\ Reap(i))
  /\ WF_vars(LeaseTick)
  /\ \A i \in InstanceID : WF_vars(LeaseRefresh(i)) /\ SF_vars(LeaseRefresh(i) /\ PassTTL(i))

FairSpec == Spec /\ Fairness

\* An instance neither the agent's memory nor one of its handlers knows of -
\* left by a crash, a failed lease, a lost race - disappears by itself.
OrphansReaped ==
  \A i \in InstanceID :
    (i \in services /\ ~Tracked(i) /\ ~InHand(i)) ~> (i \notin services)

\* A lease that lapsed while its instance is tracked, draining ones included,
\* is taken up again, unless the instance is reaped or dropped first or the
\* agent stops.
LeaseRestored ==
  \A i \in InstanceID :
    (phase = "up" /\ Tracked(i) /\ i \in services \ passing)
      ~> (i \in passing \/ i \notin services \/ ~Tracked(i) \/ phase # "up")
=============================================================================
