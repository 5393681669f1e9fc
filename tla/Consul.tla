------------------------------- MODULE Consul -------------------------------
(***************************************************************************)
(* The Consul agent as registry/consul.go uses it: service instances with  *)
(* an ownership TTL check and a maintenance flag, the key/value store that *)
(* holds route documents, and calls whose answer the HTTP client gave up   *)
(* waiting for.  Consul itself is external: what each call does is read    *)
(* off the interfaces agentAPI and kvAPI and from how the client uses      *)
(* their results.                                                          *)
(***************************************************************************)
EXTENDS Naturals, FiniteSets

CONSTANTS
  Key,         \* keys of Client.localServices ("name:port")
  Name,        \* services, each with one route document (env/namespace/name)
  Doc,         \* route documents up to RouteDocument.Equal
  Request,     \* register requests: records with fields key, name, doc, rest
  InstanceID,  \* instance ids newInstanceID can still draw
  None,        \* "not there"
  MaxRuns,     \* how many times the agent process is started (bound)
  MaxLate,     \* timed-out calls that may still reach Consul (bound)
  Faults       \* the kinds of trouble the environment may cause

FaultKinds == {"call",    \* a Consul call fails or times out
               "expiry",  \* the agent is too slow to refresh a lease
               "app",     \* the business process stops answering on its port
               "crash",   \* the agent process dies
               "stale"}   \* AllowStale reads return an old or partial view

ASSUME RequestAssumption ==
  \A q \in Request : q.key \in Key /\ q.name \in Name /\ q.doc \in Doc
ASSUME BoundAssumption == MaxRuns \in Nat /\ MaxLate \in Nat /\ Faults \subseteq FaultKinds

VARIABLES
  services,    \* instances registered at the Consul agent
  passing,     \* those whose ownership TTL check is passing
  maintenance, \* those in maintenance mode
  meta,        \* what each drawn id was registered with, None if never drawn
  kv,          \* the route document stored for each service
  late         \* calls that timed out here and may yet take effect there

consulVars == <<services, passing, maintenance, meta, kv, late>>

\* The fields of a registration that matter here: the request it was built
\* from and the agent_run_id in its metadata.
Registration == [req : Request, run : 1..MaxRuns]

LateCall == [call : {"register", "pass", "maintain", "deregister"}, arg : InstanceID]
              \cup [call : {"put"}, arg : Request]

ASSUME NoneAssumption ==
  /\ None \notin Registration
  /\ None \notin Request
  /\ None \notin InstanceID
  /\ None \notin Doc

ConsulTypeOK ==
  /\ services \subseteq InstanceID
  /\ passing \subseteq InstanceID
  /\ maintenance \subseteq InstanceID
  /\ meta \in [InstanceID -> Registration \cup {None}]
  /\ kv \in [Name -> Doc \cup {None}]
  /\ late \subseteq LateCall

ConsulInit ==
  /\ services = {} /\ passing = {} /\ maintenance = {}
  /\ meta = [i \in InstanceID |-> None]
  /\ kv = [n \in Name |-> None]
  /\ late = {}

-----------------------------------------------------------------------------
(* What one call does once Consul handles it.                              *)

AddService(i) ==
  services' = services \cup {i} /\ UNCHANGED <<passing, maintenance, kv>>

PassTTL(i) ==
  /\ i \in services
  /\ passing' = passing \cup {i}
  /\ UNCHANGED <<services, maintenance, kv>>

EnableMaintenance(i) ==
  /\ i \in services
  /\ maintenance' = maintenance \cup {i}
  /\ UNCHANGED <<services, passing, kv>>

\* Removing an unknown service is an error in recent versions of Consul and
\* succeeds in older ones; Refused below allows the first, this the second.
RemoveService(i) ==
  /\ services' = services \ {i}
  /\ passing' = passing \ {i}
  /\ maintenance' = maintenance \ {i}
  /\ UNCHANGED kv

StoreDoc(q) ==
  kv' = [kv EXCEPT ![q.name] = q.doc] /\ UNCHANGED <<services, passing, maintenance>>

Performs(call, arg) ==
  \/ call = "register" /\ AddService(arg)
  \/ call = "pass" /\ PassTTL(arg)
  \/ call = "maintain" /\ EnableMaintenance(arg)
  \/ call = "deregister" /\ RemoveService(arg)
  \/ call = "put" /\ StoreDoc(arg)

-----------------------------------------------------------------------------
(* How a call ends for the client that made it.                            *)

Succeeds(call, arg) == Performs(call, arg) /\ UNCHANGED late

\* Checks and services are addressed by id: an unknown id is an error.
Refused(call, arg) ==
  call \in {"pass", "maintain", "deregister"} /\ arg \notin services

\* The client sees an error: Consul refused the call, never got it, or has
\* not handled it yet when the request timeout of the HTTP client strikes.
Fails(call, arg) ==
  /\ UNCHANGED <<services, passing, maintenance, kv>>
  /\ \/ Refused(call, arg) /\ UNCHANGED late
     \/ "call" \in Faults /\ UNCHANGED late
     \/ /\ "call" \in Faults
        /\ Cardinality(late) < MaxLate
        /\ late' = late \cup {[call |-> call, arg |-> arg]}

-----------------------------------------------------------------------------
(* What Consul does on its own.                                            *)

LateCallArrives(l) ==
  /\ l \in late
  /\ late' = late \ {l}
  /\ Performs(l.call, l.arg)
  /\ UNCHANGED meta

LateCallLost(l) ==
  /\ l \in late
  /\ late' = late \ {l}
  /\ UNCHANGED <<services, passing, maintenance, meta, kv>>

LeaseLapses(i) ==
  /\ i \in passing
  /\ passing' = passing \ {i}
  /\ UNCHANGED <<services, maintenance, meta, kv, late>>

\* Variant with a mistake: only the TCP check has such a limit.
CriticalTooLongTCP(i) == "app" \in Faults

\* Both checks of registrationFor carry DeregisterCriticalServiceAfter: the
\* ownership TTL, and the TCP check of the business port.
CriticalTooLong(i) == i \notin passing \/ "app" \in Faults

Reaped(i) ==
  /\ i \in services
  /\ CriticalTooLong(i)
  /\ services' = services \ {i}
  /\ passing' = passing \ {i}
  /\ maintenance' = maintenance \ {i}
  /\ UNCHANGED <<meta, kv, late>>

\* What Health().Service(name, "", false, AllowStale) can show: the instances
\* registered now or, read from a server that lags, any that once were.
Visible(view) ==
  \/ view = services
  \/ "stale" \in Faults /\ view \subseteq {i \in InstanceID : meta[i] # None}
=============================================================================
