----------------------------- MODULE MeshProofs -----------------------------
(***************************************************************************)
(* Mesh for any number of hosts, requests, handlers and restarts: only the *)
(* first registrations of a service can leave it on two documents; as long *)
(* as it is on one, Envoy takes every snapshot and a request reaches all   *)
(* the healthy instances of its service.                                   *)
(***************************************************************************)
EXTENDS Mesh, TLAPS

LEMMA RequestsHaveKeys ==
  ASSUME NEW q \in Request
  PROVE  RouteConfigRef(q) \in DocKey
  BY DEF DocKey

LEMMA InstancesHaveRequests ==
  ASSUME NEW e \in Instance
  PROVE  /\ e.host \in Host /\ e.run \in Nat /\ e.req \in Request
         /\ RouteConfigRef(e.req) \in DocKey
  BY DEF Instance, DocKey

\* What a handler has, while there is one.
LEMMA HandlerFields ==
  ASSUME TypeOK, NEW c \in Caller, handling[c] # None
  PROVE  /\ handling[c] \in Handler
         /\ handling[c].host \in Host /\ handling[c].run \in Run(handling[c].host)
         /\ handling[c].run \in Nat
         /\ handling[c].req \in Request /\ Validate(handling[c].req)
         /\ RouteConfigRef(handling[c].req) \in DocKey
         /\ handling[c].at \in {"remove", "forget", "pass", "store"} =>
              /\ handling[c].inst \in Instance
              /\ handling[c].inst.host = handling[c].host
              /\ handling[c].inst.run = handling[c].run
<1>1. handling[c] \in Handler
  BY DEF TypeOK
<1> QED
  BY <1>1, RequestsHaveKeys DEF Handler

\* Equal is an equivalence.
LEMMA EqualJoins ==
  ASSUME NEW c, NEW d, NEW e, Equal(c, d), Equal(c, e)
  PROVE  Equal(d, e)
  BY DEF Equal

\* What two requests agree on once their documents are equal.
LEMMA EqualDocuments ==
  ASSUME NEW q, NEW r, Equal(Document(q), Document(r))
  PROVE  q.name = r.name /\ q.namespace = r.namespace /\ q.port = r.port
<1>1. /\ Canonicalize(Document(q)).service = q.name
      /\ Canonicalize(Document(q)).namespace = q.namespace
      /\ Canonicalize(Document(q)).port = q.port
  BY DEF Canonicalize, Document
<1>2. /\ Canonicalize(Document(r)).service = r.name
      /\ Canonicalize(Document(r)).namespace = r.namespace
      /\ Canonicalize(Document(r)).port = r.port
  BY DEF Canonicalize, Document
<1> QED
  BY <1>1, <1>2 DEF Equal

-----------------------------------------------------------------------------
(* The invariant.                                                          *)

LEMMA InitMeshInv == Init => MeshInv
<1> SUFFICES ASSUME Init PROVE MeshInv
  OBVIOUS
<1>1. TypeOK
  <2>1. \A h \in Host : run[h] = 1 /\ 1 \in Run(h)
    BY MeshConstants DEF Init, Run
  <2> QED
    BY <2>1 DEF Init, TypeOK
<1>2. Written /\ RunsPast /\ TablesOwn
  BY DEF Init, Written, RunsPast, TablesOwn, At
<1> QED
  BY <1>1, <1>2 DEF MeshInv

\* What a handler is after it has gone on.
LEMMA GotoNext ==
  ASSUME TypeOK, NEW c \in Caller, handling[c] # None,
         NEW at \in Phase, NEW inst \in Instance \cup {None},
         at \in {"remove", "forget", "pass", "store"} <=> inst # None,
         inst # None => inst.host = handling[c].host /\ inst.run = handling[c].run,
         Goto(c, at, inst)
  PROVE  /\ handling' \in [Caller -> Handler \cup {None}]
         /\ \A d \in Caller \ {c} : handling'[d] = handling[d]
         /\ \/ handling'[c] = None
            \/ /\ handling'[c].host = handling[c].host /\ handling'[c].run = handling[c].run
               /\ handling'[c].req = handling[c].req
               /\ handling'[c].at = at /\ handling'[c].inst = inst
<1> DEFINE x == handling[c]
           y == [x EXCEPT !.at = at, !.inst = inst]
<1>1. x \in Handler
  BY HandlerFields
<1>2. /\ y \in Handler
      /\ y.host = x.host /\ y.run = x.run /\ y.req = x.req /\ y.at = at /\ y.inst = inst
  BY <1>1 DEF Handler
<1>3. handling \in [Caller -> Handler \cup {None}]
  BY DEF TypeOK
<1>4. handling' = [handling EXCEPT ![c] = IF Live(x) THEN y ELSE None]
  BY <1>3 DEF Goto
<1> HIDE DEF x, y
<1>5. handling'[c] = IF Live(x) THEN y ELSE None
  BY <1>3, <1>4
<1> QED
  BY <1>2, <1>3, <1>4, <1>5 DEF x

\* A step after which there are no new documents, instances, entries or runs,
\* and no handler in a phase it was not in before but those of at.
Calm(at) ==
  /\ kv' = kv /\ run' = run
  /\ entries' \subseteq entries /\ passing' \subseteq entries'
  /\ DOMAIN table' = Host /\ \A h \in Host : table'[h] \subseteq table[h]
  /\ handling' \in [Caller -> Handler \cup {None}]
  /\ \A c \in Caller : handling'[c] # None =>
       \/ handling'[c] = handling[c]
       \/ handling'[c].run <= run[handling'[c].host] /\ handling'[c].at \in at

LEMMA CalmKeepsInv ==
  ASSUME MeshInv, NEW at, "register" \notin at, Calm(at)
  PROVE  MeshInv'
<1>1. TypeOK'
  BY DEF MeshInv, TypeOK, Calm
<1>2. Written'
  BY DEF MeshInv, Written, Calm, At
<1>3. RunsPast'
  BY DEF MeshInv, RunsPast, Calm
<1>4. TablesOwn'
  BY DEF MeshInv, TablesOwn, Calm
<1> QED
  BY <1>1, <1>2, <1>3, <1>4 DEF MeshInv

\* A handler that goes on and makes no new document or instance.
LEMMA GotoIsCalm ==
  ASSUME MeshInv, NEW c \in Caller, handling[c] # None,
         NEW at \in Phase, NEW inst \in Instance \cup {None},
         at \in {"remove", "forget", "pass", "store"} <=> inst # None,
         inst # None => inst.host = handling[c].host /\ inst.run = handling[c].run,
         Goto(c, at, inst),
         kv' = kv, run' = run, entries' \subseteq entries, passing' \subseteq entries',
         DOMAIN table' = Host, \A h \in Host : table'[h] \subseteq table[h]
  PROVE  Calm({at})
<1>1. /\ handling' \in [Caller -> Handler \cup {None}]
      /\ \A d \in Caller \ {c} : handling'[d] = handling[d]
      /\ \/ handling'[c] = None
         \/ /\ handling'[c].host = handling[c].host /\ handling'[c].run = handling[c].run
            /\ handling'[c].at = at
  BY GotoNext DEF MeshInv
<1>2. handling[c].run <= run[handling[c].host]
  BY DEF MeshInv, RunsPast
<1> QED
  BY <1>1, <1>2 DEF Calm

LEMMA ReturnIsCalm ==
  ASSUME MeshInv, NEW c \in Caller, Return(c), UNCHANGED <<kv, entries, passing, run, table>>
  PROVE  Calm({})
  BY DEF MeshInv, TypeOK, Return, Calm

\* Not between the comparison of documents and the registration.
Quiet == Phase \ {"put", "register"}

LEMMA CalmWithin ==
  ASSUME NEW at, NEW more, at \subseteq more, Calm(at)
  PROVE  Calm(more)
  BY DEF Calm

LEMMA BeginIsCalm ==
  ASSUME MeshInv, NEW c \in Caller, NEW h \in Host, NEW q \in Offered[h], Begin(c, h, q)
  PROVE  Calm(Quiet)
<1>1. q \in Request /\ Validate(q) /\ run[h] \in Run(h) /\ run[h] \in Nat
  BY DEF Begin, Request, MeshInv, TypeOK
<1>2. ASSUME NEW at \in Quiet, NEW inst \in Instance \cup {None},
             at \in {"remove", "forget", "pass", "store"} <=> inst # None,
             inst # None => inst.host = h /\ inst.run = run[h],
             Starts(c, h, q, at, inst)
      PROVE  Calm(Quiet)
  <2> DEFINE x == [host |-> h, run |-> run[h], req |-> q, at |-> at, inst |-> inst]
  <2>1. x \in Handler /\ x.run = run[x.host] /\ x.at \in Quiet
    BY <1>1, <1>2 DEF Handler, Quiet
  <2>2. handling' = [handling EXCEPT ![c] = x]
    BY <1>2 DEF Starts
  <2>3. x.run <= run[x.host]
    BY <1>1, <2>1
  <2> HIDE DEF x
  <2> QED
    BY <2>1, <2>2, <2>3 DEF Begin, MeshInv, TypeOK, Calm
<1>3. CASE Starts(c, h, q, "check", None)
  BY <1>2, <1>3 DEF Quiet, Phase
<1>4. ASSUME NEW e \in SameKey(h, q),
             Starts(c, h, q, IF SameRegisterRequest(e.req, q) THEN "pass" ELSE "remove", e)
      PROVE  Calm(Quiet)
  <2>1. e \in Instance /\ e # None /\ e.host = h /\ e.run = run[h]
    BY MeshConstants DEF SameKey, MeshInv, TypeOK, TablesOwn
  <2> QED
    BY <1>2, <1>4, <2>1 DEF Quiet, Phase
<1> QED
  BY <1>3, <1>4 DEF Begin

\* Every step of a handler but the four that lead to a new instance.
LEMMA CalmSteps ==
  ASSUME MeshInv, NEW c \in Caller,
         Remove(c) \/ Forget(c) \/ Refuse(c) \/ PassLease(c) \/ Fail(c)
  PROVE  Calm(Quiet)
<1>1. TypeOK
  BY DEF MeshInv
<1>2. CASE Remove(c)
  <2>1. handling[c].inst \in Instance \ {None}
    BY <1>1, <1>2, HandlerFields, MeshConstants DEF Remove, At
  <2>2. Calm({"forget"})
    BY <1>1, <1>2, <2>1, HandlerFields, GotoIsCalm DEF Remove, At, TypeOK, Phase
  <2> QED
    BY <2>2, CalmWithin DEF Quiet, Phase
<1>3. CASE Forget(c)
  <2>1. \A h \in Host : table'[h] \subseteq table[h] /\ DOMAIN table' = Host
    BY <1>1, <1>3, HandlerFields DEF Forget, At, TypeOK
  <2>2. Calm({"check"})
    BY <1>1, <1>3, <2>1, GotoIsCalm DEF Forget, At, TypeOK, Phase
  <2> QED
    BY <2>2, CalmWithin DEF Quiet, Phase
<1>4. CASE PassLease(c)
  <2>1. handling[c].inst \in Instance \ {None} /\ handling[c].inst \in entries
    BY <1>1, <1>4, HandlerFields, MeshConstants DEF PassLease, At
  <2>2. Calm({"store"})
    BY <1>1, <1>4, <2>1, HandlerFields, GotoIsCalm DEF PassLease, At, TypeOK, Phase
  <2> QED
    BY <2>2, CalmWithin DEF Quiet, Phase
<1>5. CASE Refuse(c) \/ Fail(c)
  BY <1>5, ReturnIsCalm, CalmWithin DEF Refuse, Fail
<1> QED
  BY <1>2, <1>3, <1>4, <1>5

\* The comparison lets a handler on.
LEMMA CheckDocIsCalm ==
  ASSUME MeshInv, NEW c \in Caller, CheckDoc(c)
  PROVE  Calm({"put"})
  BY GotoIsCalm DEF MeshInv, CheckDoc, At, TypeOK, Phase

LEMMA OtherCalmSteps ==
  ASSUME MeshInv,
         \/ \E h \in Host : \E e \in table[h] : Deregister(h, e)
         \/ \E e \in entries : HealthChanges(e) \/ Reap(e)
         \/ UNCHANGED vars
  PROVE  Calm(Quiet)
<1>1. ASSUME NEW h \in Host, NEW e \in table[h], Deregister(h, e) PROVE Calm(Quiet)
  BY <1>1 DEF Deregister, Calm, MeshInv, TypeOK
<1>2. ASSUME NEW e \in entries, HealthChanges(e) \/ Reap(e) PROVE Calm(Quiet)
  BY <1>2 DEF HealthChanges, Reap, Calm, MeshInv, TypeOK
<1>3. CASE UNCHANGED vars
  BY <1>3 DEF vars, Calm, MeshInv, TypeOK
<1> QED
  BY <1>1, <1>2, <1>3

\* From here on the document of the handler is there.
LEMMA PutDocKeepsInv ==
  ASSUME MeshInv, NEW c \in Caller, PutDoc(c)
  PROVE  MeshInv'
<1> DEFINE q == handling[c].req
           key == RouteConfigRef(q)
<1>1. TypeOK /\ handling[c] # None /\ Goto(c, "register", None)
  BY DEF MeshInv, PutDoc, At
<1>2. q \in Request /\ key \in DocKey /\ Document(q) # None
  BY <1>1, HandlerFields, MeshConstants
<1>3. /\ kv' = [kv EXCEPT ![key] = Document(q)]
      /\ entries' = entries /\ passing' = passing /\ run' = run /\ table' = table
  BY DEF PutDoc
<1>4. /\ handling' \in [Caller -> Handler \cup {None}]
      /\ \A d \in Caller \ {c} : handling'[d] = handling[d]
      /\ \/ handling'[c] = None
         \/ /\ handling'[c].host = handling[c].host /\ handling'[c].run = handling[c].run
            /\ handling'[c].req = q
  BY <1>1, GotoNext DEF Phase
<1> HIDE DEF q, key
<1>5. TypeOK'
  BY <1>1, <1>2, <1>3, <1>4 DEF TypeOK
<1>6. kv'[key] # None /\ \A k \in DocKey \ {key} : kv'[k] = kv[k]
  BY <1>1, <1>2, <1>3 DEF TypeOK
<1>7. Written'
  <2>1. \A e \in entries' : kv'[RouteConfigRef(e.req)] # None
    BY <1>1, <1>3, <1>6, InstancesHaveRequests DEF MeshInv, Written, TypeOK
  <2>2. ASSUME NEW d \in Caller, handling'[d] # None, handling'[d].at = "register"
        PROVE  kv'[RouteConfigRef(handling'[d].req)] # None
    <3>1. CASE d = c
      BY <1>4, <1>6, <2>2, <3>1 DEF key
    <3>2. CASE d # c
      BY <1>1, <1>4, <1>6, <2>2, <3>2, HandlerFields DEF MeshInv, Written, At
    <3> QED
      BY <3>1, <3>2
  <2> QED
    BY <2>1, <2>2 DEF Written, At
<1>8. RunsPast'
  BY <1>1, <1>3, <1>4 DEF MeshInv, RunsPast
<1>9. TablesOwn'
  BY <1>3 DEF MeshInv, TablesOwn
<1> QED
  BY <1>5, <1>7, <1>8, <1>9 DEF MeshInv

\* The instance that is registered has the document of its handler.
LEMMA RegisterServiceKeepsInv ==
  ASSUME MeshInv, NEW c \in Caller, RegisterService(c)
  PROVE  MeshInv'
<1> DEFINE x == handling[c]
<1>1. /\ TypeOK /\ x # None /\ x.at = "register"
      /\ kv' = kv /\ passing' = passing /\ run' = run /\ table' = table
  BY DEF MeshInv, RegisterService, At
<1>2. PICK n \in 1..MaxTwins :
        LET e == [host |-> x.host, run |-> x.run, req |-> x.req, no |-> n]
        IN entries' = entries \cup {e} /\ Goto(c, "pass", e)
  BY DEF RegisterService, Unused
<1> DEFINE e == [host |-> x.host, run |-> x.run, req |-> x.req, no |-> n]
<1>3. /\ e \in Instance /\ e # None
      /\ e.host = x.host /\ e.run = x.run /\ e.req = x.req
  <2>1. e \in Instance
    BY <1>1, HandlerFields DEF Instance
  <2> QED
    BY <2>1, MeshConstants
<1>4. entries' = entries \cup {e} /\ Goto(c, "pass", e)
  BY <1>2
<1> HIDE DEF e
<1>5. /\ handling' \in [Caller -> Handler \cup {None}]
      /\ \A d \in Caller \ {c} : handling'[d] = handling[d]
      /\ \/ handling'[c] = None
         \/ /\ handling'[c].host = x.host /\ handling'[c].run = x.run
            /\ handling'[c].at = "pass"
  BY <1>1, <1>3, <1>4, GotoNext DEF Phase
<1>6. kv[RouteConfigRef(x.req)] # None /\ x.run <= run[x.host]
  BY <1>1 DEF MeshInv, Written, RunsPast, At
<1> HIDE DEF x
<1>7. TypeOK'
  BY <1>1, <1>3, <1>4, <1>5 DEF TypeOK
<1>8. Written'
  <2>1. \A f \in entries' : kv'[RouteConfigRef(f.req)] # None
    BY <1>1, <1>3, <1>4, <1>6 DEF MeshInv, Written
  <2>2. \A d \in Caller : At(d, "register")' => kv'[RouteConfigRef(handling'[d].req)] # None
    BY <1>1, <1>5 DEF MeshInv, Written, At
  <2> QED
    BY <2>1, <2>2 DEF Written, At
<1>9. RunsPast'
  BY <1>1, <1>3, <1>4, <1>5, <1>6 DEF MeshInv, RunsPast
<1>10. TablesOwn'
  BY <1>1 DEF MeshInv, TablesOwn
<1> QED
  BY <1>7, <1>8, <1>9, <1>10 DEF MeshInv

\* The entry replaces what was under its name and port, and a handler of an
\* earlier run stores nothing.
LEMMA StoreKeepsInv ==
  ASSUME MeshInv, NEW c \in Caller, Store(c)
  PROVE  MeshInv'
<1> DEFINE x == handling[c]
           e == x.inst
           kept == table[x.host] \ SameKey(x.host, e.req)
<1>1. /\ TypeOK /\ x # None /\ x.at = "store" /\ x.run = run[x.host]
      /\ table' = [table EXCEPT ![x.host] = kept \cup {e}]
      /\ kv' = kv /\ entries' = entries /\ passing' = passing /\ run' = run
      /\ handling' = [handling EXCEPT ![c] = None]
  BY DEF MeshInv, Store, At, Live, Return, TypeOK
<1>2. e \in Instance /\ e.host = x.host /\ e.run = run[x.host] /\ x.host \in Host
  BY <1>1, HandlerFields
<1>3. /\ kept \subseteq table[x.host]
      /\ \A f \in kept : LocalKey(f.req) # LocalKey(e.req)
  BY DEF SameKey
<1> HIDE DEF x, e, kept
<1>4. /\ DOMAIN table' = Host /\ table'[x.host] = kept \cup {e}
      /\ \A h \in Host \ {x.host} : table'[h] = table[h]
  BY <1>1, <1>2 DEF TypeOK
<1>5. handling' \in [Caller -> Handler \cup {None}]
  BY <1>1 DEF TypeOK
<1>6. TypeOK'
  <2>1. \A h \in Host : table'[h] \subseteq Instance
    BY <1>1, <1>2, <1>3, <1>4 DEF TypeOK
  <2> QED
    BY <1>1, <1>4, <1>5, <2>1 DEF TypeOK
<1>7. Written'
  BY <1>1, <1>5 DEF MeshInv, Written, At, TypeOK
<1>8. RunsPast'
  BY <1>1 DEF MeshInv, RunsPast, TypeOK
<1>9. TablesOwn'
  <2> SUFFICES ASSUME NEW h \in Host, NEW f \in table'[h], NEW g \in table'[h]
               PROVE  /\ f.host = h /\ f.run = run'[h]
                      /\ LocalKey(f.req) = LocalKey(g.req) => f = g
    BY DEF TablesOwn
  <2>1. CASE h = x.host
    BY <1>1, <1>2, <1>3, <1>4, <2>1 DEF MeshInv, TablesOwn
  <2>2. CASE h # x.host
    BY <1>1, <1>4, <2>2 DEF MeshInv, TablesOwn
  <2> QED
    BY <2>1, <2>2
<1> QED
  BY <1>6, <1>7, <1>8, <1>9 DEF MeshInv

LEMMA RestartKeepsInv ==
  ASSUME MeshInv, NEW h \in Host, Restart(h)
  PROVE  MeshInv'
<1>1. /\ TypeOK
      /\ run' = [run EXCEPT ![h] = @ + 1] /\ run[h] < MaxRuns[h]
      /\ table' = [table EXCEPT ![h] = {}]
      /\ kv' = kv /\ handling' = handling
      /\ entries' \subseteq entries /\ passing' \subseteq entries'
  BY DEF Restart, MeshInv, TypeOK
<1>2. \A i \in Host : run[i] \in 1..MaxRuns[i] /\ run[i] \in Nat /\ MaxRuns[i] \in Nat
  BY <1>1, MeshConstants DEF TypeOK, Run
<1>3. /\ run' \in [Host -> Nat] /\ run'[h] = run[h] + 1
      /\ \A i \in Host \ {h} : run'[i] = run[i]
  BY <1>1, <1>2 DEF TypeOK
<1>4. \A i \in Host : run'[i] \in Run(i) /\ run[i] <= run'[i]
  BY <1>1, <1>2, <1>3 DEF Run
<1>5. /\ DOMAIN table' = Host /\ table'[h] = {}
      /\ \A i \in Host \ {h} : table'[i] = table[i]
  BY <1>1 DEF TypeOK
<1>6. TypeOK'
  <2>1. \A i \in Host : table'[i] \subseteq Instance
    BY <1>1, <1>5 DEF TypeOK
  <2> QED
    BY <1>1, <1>3, <1>4, <1>5, <2>1 DEF TypeOK
<1>7. Written'
  BY <1>1 DEF MeshInv, Written, At
<1>8. RunsPast'
  <2>1. ASSUME NEW e \in entries' PROVE e.run <= run'[e.host]
    <3>1. e.host \in Host /\ e.run \in Nat /\ e.run <= run[e.host]
      BY <1>1, <2>1, InstancesHaveRequests DEF MeshInv, RunsPast, TypeOK
    <3> QED
      BY <1>2, <1>3, <1>4, <3>1
  <2>2. ASSUME NEW c \in Caller, handling'[c] # None
        PROVE  handling'[c].run <= run'[handling'[c].host]
    <3>1. /\ handling[c].host \in Host /\ handling[c].run \in Nat
          /\ handling[c].run <= run[handling[c].host]
      BY <1>1, <2>2, HandlerFields DEF MeshInv, RunsPast
    <3> QED
      BY <1>1, <1>2, <1>3, <1>4, <3>1
  <2> QED
    BY <2>1, <2>2 DEF RunsPast
<1>9. TablesOwn'
  BY <1>3, <1>5 DEF MeshInv, TablesOwn
<1> QED
  BY <1>6, <1>7, <1>8, <1>9 DEF MeshInv

LEMMA NextKeepsMeshInv ==
  ASSUME MeshInv, [Next]_vars
  PROVE  MeshInv'
<1>1. ASSUME NEW c \in Caller, NEW h \in Host, NEW q \in Offered[h], Begin(c, h, q)
      PROVE  MeshInv'
  BY <1>1, BeginIsCalm, CalmKeepsInv DEF Quiet
<1>2. ASSUME NEW c \in Caller, RegisterStep(c) PROVE MeshInv'
  <2>1. CASE Remove(c) \/ Forget(c) \/ Refuse(c) \/ PassLease(c) \/ Fail(c)
    BY <2>1, CalmSteps, CalmKeepsInv DEF Quiet
  <2>2. CASE CheckDoc(c)
    BY <2>2, CheckDocIsCalm, CalmKeepsInv
  <2> QED
    BY <1>2, <2>1, <2>2, PutDocKeepsInv, RegisterServiceKeepsInv, StoreKeepsInv DEF RegisterStep
<1>3. ASSUME NEW h \in Host, Restart(h) PROVE MeshInv'
  BY <1>3, RestartKeepsInv
<1>4. CASE \/ \E h \in Host : \E e \in table[h] : Deregister(h, e)
           \/ \E e \in entries : HealthChanges(e) \/ Reap(e)
           \/ UNCHANGED vars
  BY <1>4, OtherCalmSteps, CalmKeepsInv DEF Quiet
<1> QED
  BY <1>1, <1>2, <1>3, <1>4 DEF Next

\* Whoever registers, fails, restarts or dies with calls on their way: no
\* instance without a document, none of a run to come, and tables of the
\* agents' own instances, one for a name and port.
THEOREM MeshInvariance == Spec => []MeshInv
  BY InitMeshInv, NextKeepsMeshInv, PTL DEF Spec

-----------------------------------------------------------------------------
(* Documents.                                                              *)

PartyOf(k, d) ==
  \/ d = kv[k] /\ d # None
  \/ \E e \in entries : RouteConfigRef(e.req) = k /\ d = DocumentOf[e.req]
  \/ \E c \in Caller : /\ At(c, "put") \/ At(c, "register")
                       /\ RouteConfigRef(handling[c].req) = k /\ d = DocumentOf[handling[c].req]

LEMMA DocumentsOf ==
  ASSUME NEW q \in Request
  PROVE  DocumentOf[q] = Document(q)
  BY DEF DocumentOf

LEMMA PartyMembers ==
  ASSUME NEW k
  PROVE  \A d : d \in Party(k) <=> PartyOf(k, d)
  BY DEF Party, PartyOf

LEMMA PartyMembersNext ==
  ASSUME NEW k
  PROVE  \A d : d \in Party(k)' <=> PartyOf(k, d)'
  BY DEF Party, PartyOf

LEMMA CalmKeepsParty ==
  ASSUME Calm(Quiet), NEW k
  PROVE  Party(k)' \subseteq Party(k)
<1> SUFFICES ASSUME NEW d, PartyOf(k, d)' PROVE PartyOf(k, d)
  BY PartyMembers, PartyMembersNext
<1>1. CASE d = kv'[k] /\ d # None
  BY <1>1 DEF Calm, PartyOf
<1>2. CASE \E e \in entries' : RouteConfigRef(e.req) = k /\ d = DocumentOf[e.req]
  BY <1>2 DEF Calm, PartyOf
<1>3. ASSUME NEW c \in Caller, At(c, "put")' \/ At(c, "register")',
             RouteConfigRef(handling'[c].req) = k, d = DocumentOf[handling'[c].req]
      PROVE  PartyOf(k, d)
  <2>1. handling'[c] # None /\ handling'[c].at \notin Quiet
    BY <1>3 DEF At, Quiet
  <2>2. handling'[c] = handling[c]
    BY <2>1 DEF Calm
  <2> QED
    BY <1>3, <2>2 DEF PartyOf, At
<1> QED
  BY <1>1, <1>2, <1>3 DEF PartyOf

\* What is written, and what is registered, was in play before.
LEMMA WritersKeepParty ==
  ASSUME MeshInv, NEW c \in Caller, PutDoc(c) \/ RegisterService(c), NEW k \in DocKey
  PROVE  Party(k)' \subseteq Party(k)
<1> SUFFICES ASSUME NEW d, PartyOf(k, d)' PROVE PartyOf(k, d)
  BY PartyMembers, PartyMembersNext
<1>1. TypeOK /\ handling[c] # None
  BY DEF MeshInv, PutDoc, RegisterService, At
<1>2. /\ \A b \in Caller \ {c} : handling'[b] = handling[b]
      /\ handling'[c] = None \/ handling'[c].req = handling[c].req
  <2>1. CASE PutDoc(c)
    BY <1>1, <2>1, GotoNext DEF PutDoc, Phase
  <2>2. CASE RegisterService(c)
    <3>1. PICK n \in 1..MaxTwins :
            Goto(c, "pass", [host |-> handling[c].host, run |-> handling[c].run,
                             req |-> handling[c].req, no |-> n])
      BY <2>2 DEF RegisterService, Unused
    <3> DEFINE e == [host |-> handling[c].host, run |-> handling[c].run,
                     req |-> handling[c].req, no |-> n]
    <3>2. e \in Instance /\ e.host = handling[c].host /\ e.run = handling[c].run
      BY <1>1, HandlerFields DEF Instance
    <3>3. e # None
      BY <3>2, MeshConstants
    <3>4. Goto(c, "pass", e)
      BY <3>1
    <3> HIDE DEF e
    <3> QED
      BY <1>1, <3>2, <3>3, <3>4, GotoNext DEF Phase
  <2> QED
    BY <2>1, <2>2
<1>3. (At(c, "put") \/ At(c, "register")) /\ RouteConfigRef(handling[c].req) \in DocKey
  BY <1>1, HandlerFields DEF PutDoc, RegisterService
<1>1a. handling[c].req \in Request /\ DocumentOf[handling[c].req] = Document(handling[c].req)
  BY <1>1, HandlerFields, DocumentsOf
<1>4. RouteConfigRef(handling[c].req) = k => PartyOf(k, DocumentOf[handling[c].req])
  BY <1>3 DEF PartyOf
<1>5. CASE d = kv'[k] /\ d # None
  <2>1. \/ kv'[k] = kv[k]
        \/ kv'[k] = DocumentOf[handling[c].req] /\ RouteConfigRef(handling[c].req) = k
    BY <1>1a, <1>1, <1>3 DEF PutDoc, RegisterService, TypeOK
  <2> QED
    BY <1>4, <1>5, <2>1 DEF PartyOf
<1>6. ASSUME NEW e \in entries', RouteConfigRef(e.req) = k, d = DocumentOf[e.req]
      PROVE  PartyOf(k, d)
  <2>1. e \in entries \/ e.req = handling[c].req
    <3>1. CASE PutDoc(c)
      BY <1>6, <3>1 DEF PutDoc
    <3>2. CASE RegisterService(c)
      <4>1. PICK n \in 1..MaxTwins :
              entries' = entries \cup {[host |-> handling[c].host, run |-> handling[c].run,
                                        req |-> handling[c].req, no |-> n]}
        BY <3>2 DEF RegisterService, Unused
      <4> QED
        BY <1>6, <4>1
    <3> QED
      BY <3>1, <3>2
  <2> QED
    BY <1>4, <1>6, <2>1 DEF PartyOf
<1>7. ASSUME NEW b \in Caller, At(b, "put")' \/ At(b, "register")',
             RouteConfigRef(handling'[b].req) = k, d = DocumentOf[handling'[b].req]
      PROVE  PartyOf(k, d)
  <2>1. CASE b = c
    BY <1>2, <1>4, <1>7, <2>1 DEF At
  <2>2. CASE b # c
    BY <1>2, <1>7, <2>2 DEF At, PartyOf
  <2> QED
    BY <2>1, <2>2
<1> QED
  BY <1>5, <1>6, <1>7 DEF PartyOf

LEMMA StoreKeepsParty ==
  ASSUME NEW c \in Caller, Store(c), NEW k
  PROVE  Party(k)' \subseteq Party(k)
<1>1. /\ kv' = kv /\ entries' = entries
      /\ handling' = [handling EXCEPT ![c] = None]
  BY DEF Store, Return
<1> QED
  BY <1>1, PartyMembers, PartyMembersNext DEF PartyOf, At

LEMMA RestartKeepsParty ==
  ASSUME NEW h \in Host, Restart(h), NEW k
  PROVE  Party(k)' \subseteq Party(k)
<1>1. kv' = kv /\ entries' \subseteq entries /\ handling' = handling
  BY DEF Restart
<1> QED
  BY <1>1, PartyMembers, PartyMembersNext DEF PartyOf, At

\* The comparison adds one document, and that one equals what is stored.
LEMMA CheckDocAdds ==
  ASSUME MeshInv, NEW c \in Caller, CheckDoc(c), NEW k \in DocKey, NEW d \in Party(k)'
  PROVE  \/ d \in Party(k)
         \/ kv[k] # None => Equal(kv[k], d)
<1>1. /\ TypeOK /\ handling[c] # None /\ ~Conflicts(handling[c].req)
      /\ kv' = kv /\ entries' = entries
  BY DEF MeshInv, CheckDoc, At
<1>2. /\ \A b \in Caller \ {c} : handling'[b] = handling[b]
      /\ handling'[c] = None \/ handling'[c].req = handling[c].req
  BY <1>1, GotoNext DEF CheckDoc, Phase
<1>1a. handling[c].req \in Request /\ DocumentOf[handling[c].req] = Document(handling[c].req)
  BY <1>1, HandlerFields, DocumentsOf
<1>3. PartyOf(k, d)'
  BY PartyMembersNext
<1>4. CASE \/ d = kv'[k] /\ d # None
          \/ \E e \in entries' : RouteConfigRef(e.req) = k /\ d = DocumentOf[e.req]
  BY <1>1, <1>4, PartyMembers DEF PartyOf
<1>5. ASSUME NEW b \in Caller, At(b, "put")' \/ At(b, "register")',
             RouteConfigRef(handling'[b].req) = k, d = DocumentOf[handling'[b].req]
      PROVE  d \in Party(k) \/ (kv[k] # None => Equal(kv[k], d))
  <2>1. CASE b = c
    BY <1>1a, <1>1, <1>2, <1>5, <2>1 DEF At, Conflicts
  <2>2. CASE b # c
    BY <1>2, <1>5, <2>2, PartyMembers DEF At, PartyOf
  <2> QED
    BY <2>1, <2>2
<1> QED
  BY <1>3, <1>4, <1>5 DEF PartyOf

\* Where nothing is written, all that is in play are handlers that are about
\* to write.
LEMMA UnwrittenParty ==
  ASSUME MeshInv', NEW k, kv'[k] = None, NEW d \in Party(k)'
  PROVE  \E c \in Caller : /\ At(c, "put")' /\ RouteConfigRef(handling'[c].req) = k
                           /\ d = DocumentOf[handling'[c].req]
<1>1. PartyOf(k, d)'
  BY PartyMembersNext
<1>2. Written'
  BY DEF MeshInv
<1> QED
  BY <1>1, <1>2 DEF PartyOf, Written, At

LEMMA AgreementStep ==
  ASSUME MeshInv, [Next]_vars, NEW k \in DocKey, InAgreement(k), ~InAgreement(k)'
  PROVE  kv[k] = None /\ Race(k)'
<1>1. MeshInv'
  BY NextKeepsMeshInv
<1>2. ~(Party(k)' \subseteq Party(k))
  BY DEF InAgreement
<1>3. PICK c \in Caller : CheckDoc(c)
  <2>1. SUFFICES ASSUME \A c \in Caller : ~CheckDoc(c)
                 PROVE  FALSE
    OBVIOUS
  <2>2. ASSUME NEW c \in Caller, RegisterStep(c) PROVE FALSE
    <3>1. CASE Remove(c) \/ Forget(c) \/ Refuse(c) \/ PassLease(c) \/ Fail(c)
      BY <1>2, <3>1, CalmSteps, CalmKeepsParty
    <3>2. CASE PutDoc(c) \/ RegisterService(c)
      BY <1>2, <3>2, WritersKeepParty
    <3>3. CASE Store(c)
      <4>1. Party(k)' \subseteq Party(k)
        BY <3>3, StoreKeepsParty
      <4> QED
        BY <1>2, <4>1
    <3> QED
      BY <2>1, <2>2, <3>1, <3>2, <3>3 DEF RegisterStep
  <2>3. ASSUME NEW c \in Caller, NEW h \in Host, NEW q \in Offered[h], Begin(c, h, q)
        PROVE  FALSE
    BY <1>2, <2>3, BeginIsCalm, CalmKeepsParty
  <2>4. ASSUME NEW h \in Host, Restart(h) PROVE FALSE
    BY <1>2, <2>4, RestartKeepsParty
  <2>5. CASE \/ \E h \in Host : \E e \in table[h] : Deregister(h, e)
             \/ \E e \in entries : HealthChanges(e) \/ Reap(e)
             \/ UNCHANGED vars
    BY <1>2, <2>5, OtherCalmSteps, CalmKeepsParty
  <2> QED
    BY <2>2, <2>3, <2>4, <2>5 DEF Next
<1>4. PICK d \in Party(k)', e \in Party(k)' : ~Equal(d, e)
  BY DEF InAgreement
<1>5. kv[k] = None
  <2>1. SUFFICES ASSUME kv[k] # None PROVE FALSE
    OBVIOUS
  <2>2. kv[k] \in Party(k)
    BY <2>1 DEF Party
  <2>3. \A f \in Party(k)' : Equal(kv[k], f)
    <3>1. Equal(kv[k], kv[k])
      BY DEF Equal
    <3> QED
      BY <1>3, <2>1, <2>2, <3>1, CheckDocAdds DEF InAgreement
  <2> QED
    BY <1>4, <2>3, EqualJoins
<1>6. kv'[k] = None
  BY <1>3, <1>5 DEF CheckDoc
<1>7. Race(k)'
  <2>1. PICK b \in Caller : /\ At(b, "put")' /\ RouteConfigRef(handling'[b].req) = k
                            /\ d = DocumentOf[handling'[b].req]
    BY <1>1, <1>4, <1>6, UnwrittenParty
  <2>2. PICK a \in Caller : /\ At(a, "put")' /\ RouteConfigRef(handling'[a].req) = k
                            /\ e = DocumentOf[handling'[a].req]
    BY <1>1, <1>4, <1>6, UnwrittenParty
  <2> QED
    BY <1>4, <2>1, <2>2 DEF Race
<1> QED
  BY <1>5, <1>7

\* A service can be left on two documents only by handlers that have both
\* found none; from its first document on every registration, wherever and
\* with whatever failures, keeps the agreement there is.
THEOREM OnlyFirstsDisagreeHolds == Spec => OnlyFirstsDisagree
<1>1. MeshInv /\ [Next]_vars
        => [\A k \in DocKey :
              InAgreement(k) => InAgreement(k)' \/ (kv[k] = None /\ Race(k)')]_vars
  BY AgreementStep
<1> QED
  BY <1>1, MeshInvariance, PTL DEF Spec, OnlyFirstsDisagree

\* Every service is on one document; no two first registrations under one key
\* are under way at once.
Agreement == \A k \in DocKey : InAgreement(k)
Raceless == \A k \in DocKey : ~Race(k)

\* Where first registrations under one key do not overlap, all instances of
\* all services are for ever on one document.
THEOREM AgreementHolds == Spec /\ []Raceless => []Agreement
<1>1. Init => Agreement
  BY DEF Init, Agreement, InAgreement, Party, At
<1>2. MeshInv /\ Agreement /\ [Next]_vars /\ Raceless' => Agreement'
  <2> SUFFICES ASSUME MeshInv, Agreement, [Next]_vars, Raceless', NEW k \in DocKey,
                      ~InAgreement(k)'
               PROVE  FALSE
    BY DEF Agreement
  <2>1. Race(k)'
    BY AgreementStep DEF Agreement
  <2> QED
    BY <2>1 DEF Raceless
<1> QED
  BY <1>1, <1>2, MeshInvariance, PTL DEF Spec

-----------------------------------------------------------------------------

LEMMA VisibleAreRegistered ==
  ASSUME MeshInv, NEW h \in Host, NEW e \in Visible(h)
  PROVE  e \in entries
<1>1. e \notin Foreign
  BY ForeignAssumption DEF Visible, Usable
<1> QED
  BY <1>1 DEF Visible, MeshInv, TypeOK

\* Two instances that go into one snapshot and are of one service agree on
\* port and spelling: they share a document.
LEMMA VisibleAgree ==
  ASSUME NEW h \in Host, Concordant(h), NEW e \in Visible(h), NEW f \in Visible(h),
         Service(e.req) = Service(f.req)
  PROVE  e.req.name = f.req.name /\ e.req.namespace = f.req.namespace /\ e.req.port = f.req.port
<1>1. Trim(e.req.env) = Trim(f.req.env)
  BY DEF Visible
<1>2. RouteConfigRef(e.req) = RouteConfigRef(f.req)
  BY <1>1 DEF Service, RouteConfigRef
<1>3. Equal(Document(e.req), Document(f.req))
  BY <1>2 DEF Concordant
<1> QED
  BY <1>3, EqualDocuments

\* What is in a snapshot, in terms of the instances it is made of.
LEMMA Sources ==
  ASSUME NEW h \in Host, NEW g \in Groups(Discover(h))
  PROVE  \E e \in Visible(h) : g = <<e.req.name, e.req.namespace, e.req.port>>
<1>1. PICK i \in Discover(h) : g = Group(i)
  BY DEF Groups
<1>2. PICK e \in Visible(h) : i = ServiceInstance(e)
  BY <1>1 DEF Discover
<1>3. i.name = e.req.name /\ i.namespace = e.req.namespace /\ i.port = e.req.port
  BY <1>2 DEF ServiceInstance
<1> QED
  BY <1>1, <1>3 DEF Group

LEMMA DomainSources ==
  ASSUME NEW h \in Host, NEW dns \in Domains(Discover(h)), NEW g \in Groups(Discover(h))
  PROVE  \E e \in Visible(h) :
           g = <<e.req.name, e.req.namespace, e.req.port>> /\ dns[g] = e.req.dns
<1>1. PICK i \in Members(Discover(h), g) : dns[g] = i.dns
  BY DEF Domains
<1>2. i \in Discover(h) /\ Group(i) = g
  BY <1>1 DEF Members
<1>3. PICK e \in Visible(h) : i = ServiceInstance(e)
  BY <1>2 DEF Discover
<1>4. /\ i.name = e.req.name /\ i.namespace = e.req.namespace /\ i.port = e.req.port
      /\ i.dns = e.req.dns
  BY <1>3 DEF ServiceInstance
<1> QED
  BY <1>1, <1>2, <1>4 DEF Group

\* Two groups of one cluster name, or of one domain, are one group.
LEMMA OneGroup ==
  ASSUME NEW h \in Host, Concordant(h), NEW e \in Visible(h), NEW f \in Visible(h),
         Service(e.req) = Service(f.req)
  PROVE  <<e.req.name, e.req.namespace, e.req.port>> = <<f.req.name, f.req.namespace, f.req.port>>
  BY VisibleAgree

LEMMA ClustersDiffer ==
  ASSUME NEW h \in Host, Concordant(h),
         NEW g \in Groups(Discover(h)), NEW k \in Groups(Discover(h)),
         ClusterName(g) = ClusterName(k)
  PROVE  g = k
<1>1. PICK e \in Visible(h) : g = <<e.req.name, e.req.namespace, e.req.port>>
  BY Sources
<1>2. PICK f \in Visible(h) : k = <<f.req.name, f.req.namespace, f.req.port>>
  BY Sources
<1>3. Service(e.req) = Service(f.req)
  BY <1>1, <1>2 DEF ClusterName, Service
<1> QED
  BY <1>1, <1>2, <1>3, OneGroup

\* The domains of a virtual host, with the port and without.
LEMMA AuthoritiesMeet ==
  ASSUME NEW c, NEW d, NEW p, NEW q, Authorities(c, p) \cap Authorities(d, q) # {}
  PROVE  c = d
  BY DEF Authorities

LEMMA DomainsDiffer ==
  ASSUME NEW h \in Host, Concordant(h), NEW dns \in Domains(Discover(h)),
         NEW g \in Groups(Discover(h)), NEW k \in Groups(Discover(h)),
         dns[g] = dns[k]
  PROVE  g = k
<1>1. PICK e \in Visible(h) :
        g = <<e.req.name, e.req.namespace, e.req.port>> /\ dns[g] = e.req.dns
  BY DomainSources
<1>2. PICK f \in Visible(h) :
        k = <<f.req.name, f.req.namespace, f.req.port>> /\ dns[k] = f.req.dns
  BY DomainSources
<1>3. Service(e.req) = Service(f.req)
  BY <1>1, <1>2 DEF Concordant
<1> QED
  BY <1>1, <1>2, <1>3, OneGroup

\* Whatever was registered where, as long as it agrees on documents and
\* domains Envoy takes the snapshot: no two virtual hosts share a domain and
\* no two clusters a name.
THEOREM SnapshotsAcceptedHolds == Spec => []SnapshotsAccepted
<1>1. SnapshotsAccepted
  <2> SUFFICES ASSUME NEW h \in Host, Concordant(h), NEW dns \in Domains(Discover(h))
               PROVE  Accepted(Build(Discover(h), dns, ClusterOf[h]))
    BY DEF SnapshotsAccepted, Snapshots
  <2> DEFINE found == Discover(h)
             s == Build(found, dns, ClusterOf[h])
  <2>1. /\ s.virtualHosts = {VirtualHost(g, dns[g]) : g \in Groups(found)}
        /\ s.assignments = {LoadAssignment(found, g, ClusterOf[h]) : g \in Groups(found)}
    BY DEF Build
  <2>2. ASSUME NEW v \in s.virtualHosts, NEW w \in s.virtualHosts,
               v.domains \cap w.domains # {}
        PROVE  v = w
    <3>1. PICK g \in Groups(found) : v = VirtualHost(g, dns[g])
      BY <2>1
    <3>2. PICK k \in Groups(found) : w = VirtualHost(k, dns[k])
      BY <2>1
    <3>3. Authorities(dns[g], g[3]) \cap Authorities(dns[k], k[3]) # {}
      BY <2>2, <3>1, <3>2 DEF VirtualHost
    <3>4. g = k
      BY <3>3, AuthoritiesMeet, DomainsDiffer
    <3> QED
      BY <3>1, <3>2, <3>4
  <2>3. ASSUME NEW a \in s.assignments, NEW b \in s.assignments, a.cluster = b.cluster
        PROVE  a = b
    <3>1. PICK g \in Groups(found) : a = LoadAssignment(found, g, ClusterOf[h])
      BY <2>1
    <3>2. PICK k \in Groups(found) : b = LoadAssignment(found, k, ClusterOf[h])
      BY <2>1
    <3>3. ClusterName(g) = ClusterName(k)
      BY <2>3, <3>1, <3>2 DEF LoadAssignment
    <3> QED
      BY <3>1, <3>2, <3>3, ClustersDiffer
  <2> QED
    BY <2>2, <2>3 DEF Accepted
<1> QED
  BY <1>1, MeshInvariance, PTL

-----------------------------------------------------------------------------
(* Where a request goes.                                                   *)

\* The peers of an instance are what the snapshot is made of: a healthy
\* instance of the environment is usable, and no stranger is.
LEMMA PeersVisible ==
  ASSUME MeshInv, NEW h \in Host, NEW e \in passing
  PROVE  Peers(h, e) = {f \in Visible(h) : Service(f.req) = Service(e.req)}
<1>1. ASSUME NEW f \in passing PROVE Usable(f)
  <2>1. f \in Instance
    BY <1>1 DEF MeshInv, TypeOK
  <2>2. Validate(f.req)
    BY <2>1 DEF Instance
  <2>3. f.req.port \in 1..MaxPort
    BY <2>2 DEF Validate
  <2> QED
    BY <2>3 DEF Usable
<1>2. Visible(h) = {f \in passing : SameEnv(h, f)}
  BY <1>1, ForeignAssumption DEF Visible, SameEnv, Usable
<1> QED
  BY <1>2 DEF Peers

GroupOf(e) == <<e.req.name, e.req.namespace, e.req.port>>

\* All peers get into one group, and nobody else gets into it.
LEMMA PeersAreMembers ==
  ASSUME MeshInv, NEW h \in Host, Concordant(h), NEW e \in passing, SameEnv(h, e)
  PROVE  /\ GroupOf(e) \in Groups(Discover(h))
         /\ Members(Discover(h), GroupOf(e)) = {ServiceInstance(f) : f \in Peers(h, e)}
         /\ e \in Peers(h, e)
         /\ \A f \in Peers(h, e) : GroupOf(f) = GroupOf(e)
<1>1. e \in Peers(h, e) /\ e \in Visible(h)
  BY PeersVisible DEF Peers
<1>2. \A f \in Peers(h, e) : f \in Visible(h) /\ GroupOf(f) = GroupOf(e)
  BY <1>1, PeersVisible, OneGroup DEF GroupOf
<1>3. \A f \in Visible(h) : Group(ServiceInstance(f)) = GroupOf(f)
  BY DEF Group, ServiceInstance, GroupOf
<1>4. GroupOf(e) \in Groups(Discover(h))
  <2>1. ServiceInstance(e) \in Discover(h)
    BY <1>1 DEF Discover
  <2> QED
    BY <1>1, <1>3, <2>1 DEF Groups
<1>5. ASSUME NEW i \in Members(Discover(h), GroupOf(e))
      PROVE  i \in {ServiceInstance(f) : f \in Peers(h, e)}
  <2>1. PICK f \in Visible(h) : i = ServiceInstance(f)
    BY <1>5 DEF Members, Discover
  <2>2. GroupOf(f) = GroupOf(e)
    BY <1>3, <1>5, <2>1 DEF Members
  <2>3. Service(f.req) = Service(e.req)
    BY <2>2 DEF GroupOf, Service
  <2> QED
    BY <1>1, <2>1, <2>3, PeersVisible
<1>6. ASSUME NEW f \in Peers(h, e)
      PROVE  ServiceInstance(f) \in Members(Discover(h), GroupOf(e))
  BY <1>2, <1>3 DEF Members, Discover
<1>7. Members(Discover(h), GroupOf(e)) \subseteq Discover(h)
  BY DEF Members
<1>8. Members(Discover(h), GroupOf(e)) = {ServiceInstance(f) : f \in Peers(h, e)}
  BY <1>5, <1>6
<1> QED
  BY <1>1, <1>2, <1>4, <1>8

\* If they agree on the domain it is that of the group, whichever instance
\* comes first.
LEMMA PeersNameDomain ==
  ASSUME MeshInv, NEW h \in Host, Concordant(h), NEW e \in passing, SameEnv(h, e),
         \A f \in Peers(h, e) : f.req.dns = e.req.dns,
         NEW dns \in Domains(Discover(h))
  PROVE  dns[GroupOf(e)] = e.req.dns
<1>1. PICK i \in Members(Discover(h), GroupOf(e)) : dns[GroupOf(e)] = i.dns
  BY PeersAreMembers DEF Domains
<1>2. PICK f \in Peers(h, e) : i = ServiceInstance(f)
  BY PeersAreMembers
<1> QED
  BY <1>1, <1>2 DEF ServiceInstance

Endpoint(h, f) == LbEndpoint(ServiceInstance(f), ClusterOf[h])

\* An authority leads to one virtual host, and that to one cluster.
LEMMA AuthorityLeads ==
  ASSUME MeshInv, NEW h \in Host, Concordant(h), NEW e \in passing, SameEnv(h, e),
         \A f \in Peers(h, e) : f.req.dns = e.req.dns,
         NEW dns \in Domains(Discover(h)),
         NEW authority \in Authorities(e.req.dns, e.req.port)
  PROVE  LET s == Build(Discover(h), dns, ClusterOf[h])
             all == {Endpoint(h, f) : f \in Peers(h, e)}
         IN Reached(s, authority) = {x \in all : \A y \in all : x.priority <= y.priority}
<1> DEFINE found == Discover(h)
           s == Build(found, dns, ClusterOf[h])
           g == GroupOf(e)
           all == {Endpoint(h, f) : f \in Peers(h, e)}
           hosts == {v \in s.virtualHosts : authority \in v.domains}
           chosen == {b \in s.assignments : \E v \in hosts : v.cluster = b.cluster}
<1>1. /\ s.virtualHosts = {VirtualHost(k, dns[k]) : k \in Groups(found)}
      /\ s.assignments = {LoadAssignment(found, k, ClusterOf[h]) : k \in Groups(found)}
  BY DEF Build
<1>2. g \in Groups(found) /\ dns[g] = e.req.dns /\ g[3] = e.req.port
  BY PeersAreMembers, PeersNameDomain DEF GroupOf
<1>3. hosts = {VirtualHost(g, dns[g])}
  <2>1. VirtualHost(g, dns[g]) \in hosts
    BY <1>1, <1>2 DEF VirtualHost
  <2>2. ASSUME NEW v \in hosts PROVE v = VirtualHost(g, dns[g])
    <3>1. PICK k \in Groups(found) : v = VirtualHost(k, dns[k])
      BY <1>1
    <3>2. authority \in Authorities(dns[k], k[3])
      BY <3>1 DEF VirtualHost
    <3>3. dns[k] = dns[g]
      BY <1>2, <3>2, AuthoritiesMeet
    <3>4. k = g
      BY <1>2, <3>3, DomainsDiffer
    <3> QED
      BY <3>1, <3>4
  <2> QED
    BY <2>1, <2>2
<1>4. chosen = {LoadAssignment(found, g, ClusterOf[h])}
  <2>1. \A k : VirtualHost(k, dns[k]).cluster = ClusterName(k)
    BY DEF VirtualHost
  <2>2. \A k : LoadAssignment(found, k, ClusterOf[h]).cluster = ClusterName(k)
    BY DEF LoadAssignment
  <2>3. LoadAssignment(found, g, ClusterOf[h]) \in chosen
    BY <1>1, <1>2, <1>3, <2>1, <2>2
  <2>4. ASSUME NEW b \in chosen PROVE b = LoadAssignment(found, g, ClusterOf[h])
    <3>1. PICK k \in Groups(found) : b = LoadAssignment(found, k, ClusterOf[h])
      BY <1>1
    <3>2. ClusterName(k) = ClusterName(g)
      BY <1>3, <2>1, <2>2, <2>4, <3>1
    <3> QED
      BY <1>2, <3>1, <3>2, ClustersDiffer
  <2> QED
    BY <2>3, <2>4
<1>5. LoadAssignment(found, g, ClusterOf[h]).endpoints = all
  <2>1. LoadAssignment(found, g, ClusterOf[h]).endpoints
          = {LbEndpoint(i, ClusterOf[h]) : i \in Members(found, g)}
    BY DEF LoadAssignment
  <2>2. Members(found, g) = {ServiceInstance(f) : f \in Peers(h, e)}
    BY PeersAreMembers
  <2> QED
    BY <2>1, <2>2 DEF Endpoint
<1>6. UNION {a.endpoints : a \in chosen} = all
  BY <1>4, <1>5
<1> HIDE DEF found, s, all
<1>7. Reached(s, authority) = {x \in all : \A y \in all : x.priority <= y.priority}
  BY <1>6 DEF Reached
<1> QED
  BY <1>7 DEF found, s, all

\* Priority 0 is that of the caller's own cluster.
LEMMA NearFirst ==
  ASSUME NEW h \in Host, NEW f, f.host \in Host
  PROVE  /\ Endpoint(h, f).address = f.host /\ Endpoint(h, f).port = f.req.port
         /\ Endpoint(h, f).priority
              = IF Trim(ClusterOf[f.host]) = Trim(ClusterOf[h]) THEN 0 ELSE 1
<1>1. ClusterOf[f.host] \in Int
  BY MeshConstants
<1>2. Trim(Trim(ClusterOf[f.host])) = Trim(ClusterOf[f.host])
  BY <1>1 DEF Trim
<1> QED
  BY <1>2 DEF Endpoint, LbEndpoint, ServiceInstance, Priority

\* A request to a service reaches all its healthy instances in the caller's
\* environment and nothing else, its own cluster first: what any number of
\* agents have registered in any order yields one group, one virtual host and
\* one cluster on every host that sees them agree.
THEOREM RequestsArriveHolds == Spec => []RequestsArrive
<1>1. MeshInv => RequestsArrive
  <2> SUFFICES ASSUME MeshInv, NEW h \in Host, Concordant(h), NEW dns \in Domains(Discover(h)), NEW e \in passing,
                      SameEnv(h, e), \A f \in Peers(h, e) : f.req.dns = e.req.dns,
                      NEW authority \in Authorities(e.req.dns, e.req.port)
               PROVE  LET s == Build(Discover(h), dns, ClusterOf[h])
                          peers == Peers(h, e)
                          near == IF Near(h, peers) # {} THEN Near(h, peers) ELSE peers
                      IN {<<x.address, x.port>> : x \in Reached(s, authority)}
                           = {<<f.host, f.req.port>> : f \in near}
    BY DEF RequestsArrive, Snapshots
  <2> DEFINE s == Build(Discover(h), dns, ClusterOf[h])
             peers == Peers(h, e)
             near == IF Near(h, peers) # {} THEN Near(h, peers) ELSE peers
             all == {Endpoint(h, f) : f \in peers}
             best == {x \in all : \A y \in all : x.priority <= y.priority}
  <2>1. Reached(s, authority) = best
    BY AuthorityLeads
  <2>2. ASSUME NEW f \in peers
        PROVE  /\ Endpoint(h, f).address = f.host /\ Endpoint(h, f).port = f.req.port
               /\ Endpoint(h, f).priority = IF f \in Near(h, peers) THEN 0 ELSE 1
    <3>1. f.host \in Host
      BY <2>2, InstancesHaveRequests DEF MeshInv, TypeOK, Peers
    <3> QED
      BY <2>2, <3>1, NearFirst DEF Near
  <2>3. Near(h, peers) \subseteq peers
    BY DEF Near
  <2> HIDE DEF peers
  <2>4. ASSUME NEW f \in peers PROVE Endpoint(h, f) \in best <=> f \in near
    <3>1. CASE Near(h, peers) # {}
      <4>1. PICK n \in Near(h, peers) : Endpoint(h, n) \in all /\ Endpoint(h, n).priority = 0
        BY <2>2, <2>3, <3>1
      <4>2. \A y \in all : y.priority = 0 \/ y.priority = 1
        BY <2>2
      <4> QED
        BY <2>2, <2>4, <3>1, <4>1, <4>2
    <3>2. CASE Near(h, peers) = {}
      <4>1. \A y \in all : y.priority = 1
        BY <2>2, <3>2
      <4> QED
        BY <2>2, <2>4, <3>2, <4>1
    <3> QED
      BY <3>1, <3>2
  <2>5. near \subseteq peers
    BY <2>3
  <2> HIDE DEF near
  <2>6. \A x \in best : \E f \in near : x = Endpoint(h, f)
    BY <2>4
  <2>7. \A f \in near : Endpoint(h, f) \in best
    BY <2>4, <2>5
  <2> HIDE DEF best
  <2>8. {<<x.address, x.port>> : x \in best} = {<<f.host, f.req.port>> : f \in near}
    BY <2>2, <2>5, <2>6, <2>7
  <2> QED
    BY <2>1, <2>8 DEF near, peers
<1> QED
  BY <1>1, MeshInvariance, PTL

\* The order of a snapshot, and with it the fingerprint of a view, is fixed by
\* the sort keys among the instances the agents have in their tables.
THEOREM OrderDeterminedHolds == Spec => []OrderDetermined
<1>1. MeshInv => OrderDetermined
  <2> SUFFICES ASSUME MeshInv, NEW h \in Host, NEW i \in Discover(h), NEW j \in Discover(h),
                      SortKey(i) = SortKey(j),
                      \A e \in {i.id, j.id} : e \in table[e.host]
               PROVE  i = j
    BY DEF OrderDetermined
  <2>1. PICK e \in Visible(h) : i = ServiceInstance(e)
    BY DEF Discover
  <2>2. PICK f \in Visible(h) : j = ServiceInstance(f)
    BY DEF Discover
  <2>3. /\ i.id = e /\ j.id = f
        /\ e.req.name = f.req.name /\ e.req.port = f.req.port /\ e.host = f.host
    BY <2>1, <2>2 DEF ServiceInstance, SortKey
  <2>4. e \in entries /\ f \in entries
    BY VisibleAreRegistered
  <2>5. e.host \in Host
    BY <2>4, InstancesHaveRequests DEF MeshInv, TypeOK
  <2>6. e \in table[e.host] /\ f \in table[e.host] /\ LocalKey(e.req) = LocalKey(f.req)
    BY <2>3 DEF LocalKey
  <2>7. e = f
    BY <2>5, <2>6 DEF MeshInv, TablesOwn
  <2> QED
    BY <2>1, <2>2, <2>7
<1> QED
  BY <1>1, MeshInvariance, PTL

\* agent_id names one host: what the sweep of a restarted agent takes out are
\* instances of its own.
THEOREM SweepSparesOthersHolds == Spec => SweepSparesOthers
<1>1. MeshInv /\ [Next]_vars
        => [\A e \in entries \ entries' : \A h \in Host \ {e.host} : run'[h] = run[h]]_vars
  <2> SUFFICES ASSUME MeshInv, [Next]_vars,
                      NEW e \in entries \ entries', NEW h \in Host \ {e.host}
               PROVE  run'[h] = run[h]
    OBVIOUS
  <2>1. CASE UNCHANGED run
    BY <2>1
  <2>2. ASSUME NEW i \in Host, Restart(i) PROVE run'[h] = run[h]
    <3>1. e.host = i
      BY <2>2 DEF Restart, AgentID
    <3> QED
      BY <2>2, <3>1 DEF Restart, MeshInv, TypeOK
  <2>3. ASSUME NEW c \in Caller, RegisterStep(c) PROVE UNCHANGED run
    BY <2>3 DEF RegisterStep, Remove, Forget, CheckDoc, Refuse, PutDoc, RegisterService,
                PassLease, Store, Fail
  <2> QED
    BY <2>1, <2>2, <2>3 DEF Next, Begin, Deregister, HealthChanges, Reap, vars
<1> QED
  BY <1>1, MeshInvariance, PTL DEF Spec, SweepSparesOthers
=============================================================================
