-------------------------------- MODULE Mesh --------------------------------
(***************************************************************************)
(* The way of a service through the mesh: agents of several hosts register *)
(* services at Consul under the route documents they share, and every      *)
(* agent turns the healthy instances into the snapshot of its own Envoy.   *)
(*                                                                         *)
(* A handler of Register goes one call of Consul, or one access to the     *)
(* table, at a time; handlers of one agent and of several interleave.  A   *)
(* call that fails ends its handler, and whether Consul has executed it is *)
(* open: a handler whose answer is lost goes on in Consul with the call it *)
(* is at, after the run of its agent if need be.  The snapshot is that of  *)
(* a refresh made in this state.                                           *)
(***************************************************************************)
EXTENDS Snapshot

CONSTANTS
  Host,       \* host_ip of each agent: numbers, in the order of addresses
  ClusterOf,  \* cluster_name, zone and env of each agent
  ZoneOf,
  EnvOf,
  Offered,    \* the register requests made on each host
  Foreign,    \* instances at Consul that no agent has registered
  None,       \* no document, no handler, no instance
  Caller,     \* the handlers of Register there are at once, on all hosts
  MaxRuns,    \* bound: the runs each agent has at most
  MaxTwins,   \* bound: the instances there are of one request in one run
  MaxEntries, \* bound: the instances registered at once
  Faults      \* "stale": the sweep at start-up may miss instances
              \* "consul": calls fail, executed or not

Request == UNION {Offered[h] : h \in Host}
DocKey == {RouteConfigRef(q) : q \in Request}
DocumentOf == [q \in Request |-> Document(q)]

\* What Consul keeps: the agent, the run it was in, and a request that has
\* passed validation.  no tells instances of one request apart.
Run(h) == 1..MaxRuns[h]
Instance ==
  {e \in [host : Host, run : Nat, req : {q \in Request : Validate(q)}, no : 1..MaxTwins] :
     e.run \in Run(e.host)}

Phase == {"remove", "forget", "check", "put", "register", "pass", "store"}
Handler ==
  {x \in [host : Host, run : Nat, req : {q \in Request : Validate(q)}, at : Phase,
          inst : Instance \cup {None}] :
     /\ x.run \in Run(x.host)
     /\ x.at \in {"remove", "forget", "pass", "store"} <=> x.inst # None
     /\ x.inst # None => x.inst.host = x.host /\ x.inst.run = x.run}

Service(q) == <<Trim(q.name), Trim(q.namespace)>>

ASSUME MeshConstants ==
  /\ Host \subseteq Nat \ {0}
  /\ \A h \in Host : ClusterOf[h] \in Int /\ MaxRuns[h] \in Nat \ {0}
  /\ MaxTwins \in Nat /\ MaxEntries \in Nat /\ Faults \subseteq {"stale", "consul"}
  /\ \A q \in Request : Document(q) # None
  /\ None \notin Instance \cup Handler

\* What others register at Consul has no port or is of no environment of this
\* mesh.
ASSUME ForeignAssumption ==
  \A e \in Foreign, h \in Host : ~(e.req.port > 0 /\ Trim(e.req.env) = Trim(EnvOf[h]))

VARIABLES
  kv,        \* route documents
  entries,   \* registered instances
  passing,   \* those in rotation: port open, lease kept, not in maintenance
  run,       \* the run each agent is in
  table,     \* localServices of each agent, the Deregistered left out
  handling   \* what each handler is at

vars == <<kv, entries, passing, run, table, handling>>

TypeOK ==
  /\ kv \in [DocKey -> {Document(q) : q \in Request} \cup {None}]
  /\ entries \subseteq Instance
  /\ passing \subseteq entries
  /\ run \in [Host -> Nat] /\ \A h \in Host : run[h] \in Run(h)
  /\ DOMAIN table = Host /\ \A h \in Host : table[h] \subseteq Instance
  /\ handling \in [Caller -> Handler \cup {None}]

Init ==
  /\ kv = [k \in DocKey |-> None]
  /\ entries = {} /\ passing = {}
  /\ run = [h \in Host |-> 1]
  /\ table = [h \in Host |-> {}]
  /\ handling = [c \in Caller |-> None]

-----------------------------------------------------------------------------
(* Register.                                                               *)

SameKey(h, q) == {e \in table[h] : LocalKey(e.req) = LocalKey(q)}

\* A handler of an earlier run is a call still on its way: nobody waits for
\* the answer.
Live(x) == x.run = run[x.host]

Goto(c, at, inst) ==
  handling' = [handling EXCEPT ![c] =
                 IF Live(@) THEN [@ EXCEPT !.at = at, !.inst = inst] ELSE None]

Return(c) == handling' = [handling EXCEPT ![c] = None]

At(c, at) == handling[c] # None /\ handling[c].at = at

Starts(c, h, q, at, inst) ==
  handling' = [handling EXCEPT ![c] =
                 [host |-> h, run |-> run[h], req |-> q, at |-> at, inst |-> inst]]

\* The entry is read under the lock, which is then given up.
Begin(c, h, q) ==
  /\ handling[c] = None /\ Validate(q)
  /\ \/ SameKey(h, q) = {} /\ Starts(c, h, q, "check", None)
     \/ \E e \in SameKey(h, q) :
          Starts(c, h, q, IF SameRegisterRequest(e.req, q) THEN "pass" ELSE "remove", e)
  /\ UNCHANGED <<kv, entries, passing, run, table>>

\* A changed request: the old instance goes first, ...
Remove(c) ==
  /\ At(c, "remove")
  /\ entries' = entries \ {handling[c].inst} /\ passing' = passing \ {handling[c].inst}
  /\ Goto(c, "forget", handling[c].inst)
  /\ UNCHANGED <<kv, run, table>>

\* ... and its entry, whatever is under that key by now.
Forget(c) ==
  /\ At(c, "forget") /\ Live(handling[c])
  /\ LET x == handling[c] IN table' = [table EXCEPT ![x.host] = @ \ SameKey(x.host, x.inst.req)]
  /\ Goto(c, "check", None)
  /\ UNCHANGED <<kv, entries, passing, run>>

Conflicts(q) == kv[RouteConfigRef(q)] # None /\ ~Equal(kv[RouteConfigRef(q)], Document(q))

\* Variant with a mistake: a document that is there is not compared.
CheckDocNever(c) ==
  /\ At(c, "check") /\ Live(handling[c])
  /\ Goto(c, "put", None)
  /\ UNCHANGED <<kv, entries, passing, run, table>>

\* Variant with a mistake: what agrees with the document, or finds none, is
\* not written.
CheckDocOnly(c) ==
  /\ At(c, "check") /\ Live(handling[c]) /\ ~Conflicts(handling[c].req)
  /\ Goto(c, "register", None)
  /\ UNCHANGED <<kv, entries, passing, run, table>>

\* ensureRouteDocument reads the document and compares it, ...
CheckDoc(c) ==
  /\ At(c, "check") /\ Live(handling[c]) /\ ~Conflicts(handling[c].req)
  /\ Goto(c, "put", None)
  /\ UNCHANGED <<kv, entries, passing, run, table>>

Refuse(c) ==
  /\ At(c, "check") /\ Live(handling[c]) /\ Conflicts(handling[c].req)
  /\ Return(c)
  /\ UNCHANGED <<kv, entries, passing, run, table>>

\* ... and writes its own in a call of its own, over whatever is there.
PutDoc(c) ==
  /\ At(c, "put")
  /\ LET q == handling[c].req IN kv' = [kv EXCEPT ![RouteConfigRef(q)] = Document(q)]
  /\ Goto(c, "register", None)
  /\ UNCHANGED <<entries, passing, run, table>>

InHand == {handling[c].inst : c \in {d \in Caller : handling[d] # None}}

\* Under an instance id nobody has: ids only tell twins apart, so that the
\* first free one will do.
Unused(x) ==
  {n \in 1..MaxTwins :
     [host |-> x.host, run |-> x.run, req |-> x.req, no |-> n]
       \notin entries \cup table[x.host] \cup InHand}

RegisterService(c) ==
  /\ At(c, "register")
  /\ Cardinality(entries) < MaxEntries
  /\ \E n \in Unused(handling[c]) :
       LET x == handling[c]
           e == [host |-> x.host, run |-> x.run, req |-> x.req, no |-> n]
       IN /\ \A m \in Unused(x) : n <= m
          /\ entries' = entries \cup {e}
          /\ Goto(c, "pass", e)
  /\ UNCHANGED <<kv, passing, run, table>>

\* The lease of the new instance, or of the one that is registered already.
\* Consul puts an instance into rotation once its port has answered.
PassLease(c) ==
  /\ At(c, "pass") /\ handling[c].inst \in entries
  /\ passing' \in {passing, passing \cup {handling[c].inst}}
  /\ Goto(c, "store", handling[c].inst)
  /\ UNCHANGED <<kv, entries, run, table>>

\* Variant with a mistake: entries are kept by instance id.
StoreBeside(c) ==
  /\ At(c, "store") /\ Live(handling[c])
  /\ LET x == handling[c] IN table' = [table EXCEPT ![x.host] = @ \cup {x.inst}]
  /\ Return(c)
  /\ UNCHANGED <<kv, entries, passing, run>>

\* The entry takes the place of what is under its key by now.
Store(c) ==
  /\ At(c, "store") /\ Live(handling[c])
  /\ LET x == handling[c]
     IN table' = [table EXCEPT ![x.host] = (@ \ SameKey(x.host, x.inst.req)) \cup {x.inst}]
  /\ Return(c)
  /\ UNCHANGED <<kv, entries, passing, run>>

\* The last call has failed, or the answer to it is lost; Consul refuses the
\* lease of an instance it does not know.
Fail(c) ==
  /\ handling[c] # None
  /\ \/ "consul" \in Faults
     \/ ~Live(handling[c])
     \/ handling[c].at = "pass" /\ handling[c].inst \notin entries
  /\ Return(c)
  /\ UNCHANGED <<kv, entries, passing, run, table>>

RegisterStep(c) ==
  \/ Remove(c) \/ Forget(c) \/ CheckDoc(c) \/ Refuse(c) \/ PutDoc(c)
  \/ RegisterService(c) \/ PassLease(c) \/ Store(c) \/ Fail(c)

-----------------------------------------------------------------------------
(* The rest of an agent, and Consul.                                       *)

\* Lookup, call and store are under one lock; a failing call keeps the entry.
Deregister(h, e) ==
  /\ e \in table[h]
  /\ entries' = entries \ {e} /\ passing' = passing \ {e}
  /\ \/ table' = [table EXCEPT ![h] = @ \ {e}]
     \/ "consul" \in Faults /\ UNCHANGED table
  /\ UNCHANGED <<kv, run, handling>>

\* Variant with a mistake: an agent is known by its zone.
AgentIDOfZone(h) == Trim(ZoneOf[h])

AgentID(h) == <<Trim(ClusterOf[h]), Trim(ZoneOf[h]), h>>

\* The agent dies without deregistering anything; the next run sweeps what it
\* finds under its agent_id with another agent_run_id.
Restart(h) ==
  /\ run[h] < MaxRuns[h]
  /\ run' = [run EXCEPT ![h] = @ + 1]
  /\ table' = [table EXCEPT ![h] = {}]
  /\ \E found \in IF "stale" \in Faults THEN SUBSET entries ELSE {entries} :
       LET swept == {e \in found : AgentID(e.host) = AgentID(h) /\ e.run # run'[h]}
       IN entries' = entries \ swept /\ passing' = passing \ swept
  /\ UNCHANGED <<kv, handling>>

\* Checks of Consul change, or an instance is drained.
HealthChanges(e) ==
  /\ e \in entries
  /\ passing' = IF e \in passing THEN passing \ {e} ELSE passing \cup {e}
  /\ UNCHANGED <<kv, entries, run, table, handling>>

\* An instance out of rotation for long: a lease that is not renewed, or a
\* port that is closed.
Reap(e) ==
  /\ e \in entries \ passing
  /\ entries' = entries \ {e}
  /\ UNCHANGED <<kv, passing, run, table, handling>>

Next ==
  \/ \E c \in Caller :
       \/ \E h \in Host : \E q \in Offered[h] : Begin(c, h, q)
       \/ RegisterStep(c)
  \/ \E h \in Host : Restart(h) \/ \E e \in table[h] : Deregister(h, e)
  \/ \E e \in entries : HealthChanges(e) \/ Reap(e)

Spec == Init /\ [][Next]_vars
-----------------------------------------------------------------------------
(* Discover.                                                               *)

\* Addresses and weights are there: agents register valid ones.
ServiceInstance(e) ==
  [id |-> e, name |-> e.req.name, namespace |-> e.req.namespace, dns |-> e.req.dns,
   env |-> e.req.env, zone |-> ZoneOf[e.host], address |-> e.host, port |-> e.req.port,
   weight |-> e.req.weight, cluster |-> Trim(ClusterOf[e.host])]

Usable(e) == e.req.port > 0

Visible(h) == {e \in passing \cup Foreign : Usable(e) /\ Trim(e.req.env) = Trim(EnvOf[h])}

Discover(h) == {ServiceInstance(e) : e \in Visible(h)}

Snapshots(h) ==
  LET found == Discover(h) IN {Build(found, dns, ClusterOf[h]) : dns \in Domains(found)}
-----------------------------------------------------------------------------
\* What handlers and documents promise each other: where an instance is, or
\* is about to be, the document of its service has been written; nothing is
\* of a run to come; an agent knows of instances of its own run, of one for a
\* name and port.
Written ==
  /\ \A e \in entries : kv[RouteConfigRef(e.req)] # None
  /\ \A c \in Caller : At(c, "register") => kv[RouteConfigRef(handling[c].req)] # None

RunsPast ==
  /\ \A e \in entries : e.run <= run[e.host]
  /\ \A c \in Caller : handling[c] # None => handling[c].run <= run[handling[c].host]

TablesOwn ==
  \A h \in Host : \A e, f \in table[h] :
    /\ e.host = h /\ e.run = run[h]
    /\ LocalKey(e.req) = LocalKey(f.req) => e = f

MeshInv == TypeOK /\ Written /\ RunsPast /\ TablesOwn

\* The documents that are in play for a key: the one that is stored, those
\* of the instances, and those of handlers past the comparison.
Party(k) ==
  ({kv[k]} \ {None})
    \cup {DocumentOf[e.req] : e \in {f \in entries : RouteConfigRef(f.req) = k}}
    \cup {DocumentOf[handling[c].req] : c \in {d \in Caller :
            (At(d, "put") \/ At(d, "register")) /\ RouteConfigRef(handling[d].req) = k}}

InAgreement(k) == \A d, e \in Party(k) : d # e => Equal(d, e)

\* Two handlers are about to write different documents under one key.
Race(k) ==
  \E c, d \in Caller :
    /\ At(c, "put") /\ RouteConfigRef(handling[c].req) = k
    /\ At(d, "put") /\ RouteConfigRef(handling[d].req) = k
    /\ ~Equal(DocumentOf[handling[c].req], DocumentOf[handling[d].req])

\* Only the first registrations of a service may come to disagree: two
\* handlers that have both found no document and have both yet to write one.
\* From then on the comparison keeps every instance on one document,
\* whichever agents register, fail, restart or leave calls behind.
OnlyFirstsDisagree ==
  [][\A k \in DocKey : InAgreement(k) => InAgreement(k)' \/ (kv[k] = None /\ Race(k)')]_vars

\* The instances a host sees agree on the documents they share, and a domain
\* is that of one service.
Concordant(h) ==
  \A e, f \in Visible(h) :
    /\ RouteConfigRef(e.req) = RouteConfigRef(f.req) => Equal(Document(e.req), Document(f.req))
    /\ e.req.dns = f.req.dns => Service(e.req) = Service(f.req)

\* Envoy takes every snapshot of instances that agree: a shared document
\* keeps a service on one port and under one spelling, so no two virtual
\* hosts have a domain in common and no two clusters a name.
SnapshotsAccepted == \A h \in Host : Concordant(h) => \A s \in Snapshots(h) : Accepted(s)

SameEnv(h, e) == Trim(e.req.env) = Trim(EnvOf[h])

Peers(h, e) == {f \in passing : SameEnv(h, f) /\ Service(f.req) = Service(e.req)}
Near(h, F) == {f \in F : Trim(ClusterOf[f.host]) = Trim(ClusterOf[h])}

\* A request to a service reaches the healthy instances of that service in
\* the environment of the host it is made on, all of them and no others,
\* those of its own cluster as long as there are any - wherever and in
\* whatever order they were registered, as long as they agree on the
\* document and the domain.
RequestsArrive ==
  \A h \in Host : Concordant(h) => \A s \in Snapshots(h), e \in passing :
    LET peers == Peers(h, e)
        near == IF Near(h, peers) # {} THEN Near(h, peers) ELSE peers
    IN SameEnv(h, e) /\ (\A f \in peers : f.req.dns = e.req.dns) =>
         \A authority \in Authorities(e.req.dns, e.req.port) :
           {<<x.address, x.port>> : x \in Reached(s, authority)}
             = {<<f.host, f.req.port>> : f \in near}

\* The fingerprint of an unchanged catalog does not change: the sort keys
\* leave no choice of order among the instances the agents know of, under
\* whatever spelling and on whatever host they are.  What the agents do not
\* know of - left by a former run, by a failed call, by a handler that
\* another has overtaken - may share the key of another instance.
OrderDetermined ==
  \A h \in Host : \A i, j \in Discover(h) :
    i # j /\ SortKey(i) = SortKey(j) => \E e \in {i.id, j.id} : e \notin table[e.host]

\* The start-up sweep of one agent takes no instance of another out, not even
\* within its own cluster and zone.
SweepSparesOthers ==
  [][\A e \in entries \ entries' : \A h \in Host \ {e.host} : run'[h] = run[h]]_vars
=============================================================================
