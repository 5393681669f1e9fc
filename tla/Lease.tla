-------------------------------- MODULE Lease --------------------------------
(***************************************************************************)
(* The clock side of the registry: the ticker of leaseLoop, rounds of      *)
(* UpdateTTL calls that follow one another, the handlers that register,    *)
(* drain and deregister meanwhile, the mutex of localServices they share   *)
(* with the loop, and Consul's TTL checks - under every configuration      *)
(* Validate lets through.                                                  *)
(*                                                                         *)
(* Time passes in units; the agent's own steps take none.  Calls do: those *)
(* of the loop and those under the mutex up to the request timeout, those  *)
(* of Register for as long as they like.  A refresh that Consul handles    *)
(* after the client gave up would only help and is left out, as is an      *)
(* instance after Register has failed to pass its lease or a newer one has *)
(* taken its place in the table: nothing keeps that (module Registry).     *)
(***************************************************************************)
EXTENDS Integers, FiniteSets

CONSTANTS
  Service,     \* instances of this host, one at a time under each name
  None,        \* nobody
  Configs,     \* the configurations looked at
  MaxMissed,   \* bound: failed refreshes in a row
  MaxHandlers, \* bound: Register handlers at work
  MaxLate      \* bound: age of a lease when its entry is stored

\* agent_lease_refresh_interval, agent_lease_ttl and request_timeout.
Config == [interval : Int, ttl : Int, timeout : Int]

ASSUME LeaseConstants ==
  /\ IsFiniteSet(Service) /\ None \notin Service
  /\ Configs \subseteq Config
  /\ MaxMissed \in Nat /\ MaxHandlers \in Nat /\ MaxLate \in Nat

\* Durations have to parse; zero and negative ones do.
Validate(c) == c.interval < c.ttl

VARIABLES
  config,
  loop,        \* leaseLoop: off, waiting for a tick, locking the table,
               \* refreshing, or panicked
  next,        \* time until the ticker fires
  tick,        \* ticks in the channel of the ticker
  todo,        \* services this round has still to refresh
  call,        \* the service of the call under way
  handled,     \* whether Consul has handled it: "yes" or "no"
  taken,       \* how long that call has taken
  table,       \* localServices: absent, kept or deregistered
  handlers,    \* Register: the entry read, and to be stored in which state
  holder,      \* the service whose drain or deregistration holds the mutex
  op,          \* which of the two
  held,        \* how long its call has taken
  registered,  \* services with an instance at Consul
  age,         \* time since the check was last passed, up to the TTL
  missed,      \* calls for the service that have failed since
  late         \* the age when the entry was stored, until the next refresh

loopVars == <<loop, next, tick>>
callVars == <<todo, call, handled, taken>>
tableVars == <<table, handlers>>
mutexVars == <<holder, op, held>>
consulVars == <<registered, age, missed, late>>
vars == <<config, loop, next, tick, todo, call, handled, taken, table, handlers,
          holder, op, held, registered, age, missed, late>>

Entry == {"absent", "kept", "deregistered"}
Step == {"read", "kept", "deregistered"}

TypeOK ==
  /\ config \in Configs
  /\ loop \in {"off", "waiting", "locking", "refreshing", "panicked"}
  /\ next \in Nat /\ tick \in 0..1
  /\ todo \subseteq Service /\ call \in todo \cup {None}
  /\ handled \in {"yes", "no"} /\ taken \in Nat
  /\ table \in [Service -> Entry] /\ handlers \subseteq Service \X Step
  /\ holder \in Service \cup {None} /\ op \in {"drain", "deregister"} /\ held \in Nat
  /\ registered \subseteq Service
  /\ age \in [Service -> Nat] /\ missed \in [Service -> 0..MaxMissed]
  /\ late \in [Service -> 0..MaxLate]

Zero == [s \in Service |-> 0]

Init ==
  /\ config \in {c \in Configs : Validate(c)}
  /\ loop = "off" /\ next = 0 /\ tick = 0
  /\ todo = {} /\ call = None /\ handled = "no" /\ taken = 0
  /\ table = [s \in Service |-> "absent"] /\ handlers = {}
  /\ holder = None /\ op = "drain" /\ held = 0
  /\ registered = {} /\ age = Zero /\ missed = Zero /\ late = Zero

Up == loop \in {"waiting", "locking", "refreshing"}

\* RWMutex: a reader that waits goes before the next writer.
Unlocked == holder = None /\ loop # "locking"

Passed(s) ==
  /\ age' = [age EXCEPT ![s] = 0] /\ missed' = [missed EXCEPT ![s] = 0]
  /\ late' = [late EXCEPT ![s] = 0]

-----------------------------------------------------------------------------
(* Register.                                                               *)

\* A name without a live entry: ServiceRegister and passLease.
Enrol(s) ==
  /\ Up /\ Cardinality(handlers) < MaxHandlers
  /\ s \notin registered \cup todo /\ table[s] # "kept" /\ holder # s
  /\ \A step \in Step : <<s, step>> \notin handlers
  /\ handlers' = handlers \cup {<<s, "kept">>}
  /\ registered' = registered \cup {s} /\ Passed(s)
  /\ UNCHANGED <<config, loopVars, callVars, table, mutexVars>>

\* localService, of a name registered before.
Read(s) ==
  /\ Up /\ Cardinality(handlers) < MaxHandlers
  /\ holder = None /\ table[s] = "kept"
  /\ handlers' = handlers \cup {<<s, "read">>}
  /\ UNCHANGED <<config, loopVars, callVars, table, mutexVars, consulVars>>

Proceed(s, step) ==
  /\ <<s, "read">> \in handlers /\ s \in registered
  /\ handlers' = (handlers \ {<<s, "read">>}) \cup {<<s, step>>}
  /\ UNCHANGED <<config, loopVars, callVars, table, mutexVars>>

\* The same request again: passLease.
Replay(s) == Proceed(s, "kept") /\ Passed(s) /\ UNCHANGED registered

\* Another request: ServiceDeregister, before the new instance is enrolled.
Replace(s) ==
  /\ Proceed(s, "deregistered")
  /\ registered' = registered \ {s}
  /\ UNCHANGED <<age, missed, late>>

\* storeLocalService, some time after Consul has answered and the mutex was
\* free.  Another handler may have put another instance under the name.
Store(s, state) ==
  /\ Unlocked /\ <<s, state>> \in handlers /\ state # "read" /\ age[s] <= MaxLate
  /\ handlers' = handlers \ {<<s, state>>}
  /\ \E gone \in SUBSET {o \in Service \ {s} : table[o] # "absent"} :
       /\ \A o, p \in gone : o = p
       /\ table' = [o \in Service |-> IF o = s THEN state ELSE IF o \in gone THEN "absent" ELSE table[o]]
  /\ late' = IF state = "kept" /\ table[s] # "kept" THEN [late EXCEPT ![s] = age[s]] ELSE late
  /\ UNCHANGED <<config, loopVars, callVars, mutexVars, registered, age, missed>>

\* A call of the handler fails or times out, handled or not.
GiveUp(h) ==
  /\ h \in handlers /\ handlers' = handlers \ {h}
  /\ UNCHANGED <<config, loopVars, callVars, table, mutexVars, consulVars>>

-----------------------------------------------------------------------------
(* Drain and Deregister hold the mutex over their call.                    *)

\* Variant with a mistake: writers overtake the reader that waits.
LockOvertakes(s, o) ==
  /\ Up /\ holder = None /\ table[s] # "absent"
  /\ holder' = s /\ op' = o /\ held' = 0
  /\ UNCHANGED <<config, loopVars, callVars, tableVars, consulVars>>

Lock(s, o) ==
  /\ Up /\ Unlocked /\ table[s] # "absent"
  /\ holder' = s /\ op' = o /\ held' = 0
  /\ UNCHANGED <<config, loopVars, callVars, tableVars, consulVars>>

\* ServiceDeregister at Consul.
HandleDeregister ==
  /\ holder \in registered /\ op = "deregister"
  /\ registered' = registered \ {holder}
  /\ UNCHANGED <<config, loopVars, callVars, tableVars, mutexVars, age, missed, late>>

\* The call returns.  A drained service is still kept, and so is one whose
\* deregistration has failed.
Unlock ==
  /\ holder # None
  /\ \/ UNCHANGED table
     \/ /\ op = "deregister" /\ holder \notin registered
        /\ table' = [table EXCEPT ![holder] = "deregistered"]
  /\ holder' = None /\ held' = 0
  /\ UNCHANGED <<config, loopVars, callVars, handlers, op, consulVars>>

-----------------------------------------------------------------------------
(* leaseLoop.                                                              *)

\* NewTicker panics on an interval that is not positive.
Start ==
  /\ loop = "off"
  /\ \/ config.interval > 0 /\ loop' = "waiting" /\ next' = config.interval
     \/ config.interval <= 0 /\ loop' = "panicked" /\ UNCHANGED next
  /\ UNCHANGED <<config, tick, callVars, tableVars, mutexVars, consulVars>>

\* Variant with a mistake: ticks pile up.
FireQueued ==
  /\ Up /\ next = 0
  /\ next' = config.interval
  /\ tick' = tick + 1
  /\ UNCHANGED <<config, loop, callVars, tableVars, mutexVars, consulVars>>

\* The channel of a ticker holds one tick.
Fire ==
  /\ Up /\ next = 0
  /\ next' = config.interval
  /\ tick' = 1
  /\ UNCHANGED <<config, loop, callVars, tableVars, mutexVars, consulVars>>

Take ==
  /\ loop = "waiting" /\ tick = 1
  /\ loop' = "locking" /\ tick' = 0
  /\ UNCHANGED <<config, next, callVars, tableVars, mutexVars, consulVars>>

Kept == {s \in Service : table[s] = "kept"}

\* activeLocalServices.
Round ==
  /\ loop = "locking" /\ holder = None
  /\ todo' = Kept
  /\ loop' = IF Kept = {} THEN "waiting" ELSE "refreshing"
  /\ UNCHANGED <<config, next, tick, call, handled, taken, tableVars, mutexVars, consulVars>>

Call(s) ==
  /\ loop = "refreshing" /\ call = None /\ s \in todo
  /\ call' = s /\ handled' = "no" /\ taken' = 0
  /\ UNCHANGED <<config, loopVars, todo, tableVars, mutexVars, consulVars>>

\* UpdateTTL at Consul.
Handle ==
  /\ call \in registered /\ handled = "no"
  /\ handled' = "yes" /\ Passed(call)
  /\ UNCHANGED <<config, loopVars, todo, call, taken, tableVars, mutexVars, registered>>

\* Variant with a mistake: a failed call ends the round.
ReturnAborts ==
  /\ call # None
  /\ IF handled = "yes" \/ call \notin registered THEN UNCHANGED missed
     ELSE missed[call] < MaxMissed /\ missed' = [missed EXCEPT ![call] = @ + 1]
  /\ call' = None /\ handled' = "no" /\ taken' = 0
  /\ todo' = IF handled = "yes" THEN todo \ {call} ELSE {}
  /\ loop' = IF todo' = {} THEN "waiting" ELSE "refreshing"
  /\ UNCHANGED <<config, next, tick, tableVars, mutexVars, registered, age, late>>

\* The call returns: in time, refused, failed, or timed out.
Return ==
  /\ call # None
  /\ IF handled = "yes" \/ call \notin registered THEN UNCHANGED missed
     ELSE missed[call] < MaxMissed /\ missed' = [missed EXCEPT ![call] = @ + 1]
  /\ call' = None /\ handled' = "no" /\ taken' = 0
  /\ todo' = todo \ {call}
  /\ loop' = IF todo' = {} THEN "waiting" ELSE "refreshing"
  /\ UNCHANGED <<config, next, tick, tableVars, mutexVars, registered, age, late>>

-----------------------------------------------------------------------------
(* Time.                                                                   *)

\* New sets no timeout on the HTTP client unless it is positive.
Limited == config.timeout > 0
InTime(t) == Limited => t < config.timeout

\* Nothing that takes no time is left to do.
Settled ==
  /\ Up /\ next > 0
  /\ loop = "waiting" => tick = 0
  /\ loop = "locking" => holder # None
  /\ loop = "refreshing" => call # None /\ InTime(taken)
  /\ holder # None => InTime(held)

Older(a) == IF a < config.ttl THEN a + 1 ELSE a

Elapse ==
  /\ Settled
  /\ next' = next - 1
  /\ taken' = IF Limited /\ call # None THEN taken + 1 ELSE taken
  /\ held' = IF Limited /\ holder # None THEN held + 1 ELSE held
  /\ age' = [s \in Service |-> IF s \in registered THEN Older(age[s]) ELSE age[s]]
  /\ UNCHANGED <<config, loop, tick, todo, call, handled, tableVars, holder, op,
                 registered, missed, late>>

\* Consul drops an instance: a deregistration that timed out is handled after
\* all, or the instance was critical for too long.
Drop(s) ==
  /\ s \in registered /\ registered' = registered \ {s}
  /\ UNCHANGED <<config, loopVars, callVars, tableVars, mutexVars, age, missed, late>>

Handlers(s) ==
  \/ Enrol(s) \/ Read(s) \/ Replay(s) \/ Replace(s)
  \/ \E state \in Step : Store(s, state) \/ GiveUp(<<s, state>>)
  \/ \E o \in {"drain", "deregister"} : Lock(s, o)

Next ==
  \/ Start \/ Fire \/ Take \/ Round \/ Handle \/ Return \/ Elapse
  \/ HandleDeregister \/ Unlock
  \/ \E s \in Service : Handlers(s) \/ Call(s) \/ Drop(s)

Spec == Init /\ [][Next]_vars
-----------------------------------------------------------------------------

\* A round makes a call for each service; first it may find the table locked.
Calls == Cardinality(Service) * config.timeout
Longest == config.timeout + Calls

\* How far the tick of a round can be from the tick of the round before, and
\* from the moment that round had the table.
Apart == IF config.interval > Longest THEN config.interval ELSE Longest
First == IF config.interval > Calls THEN config.interval ELSE Calls

\* From the refresh of a service to the tick of the k-th round after it.
Gap(k) == IF k = 0 THEN 0 ELSE First + (k - 1) * Apart

Lapsed(s) == s \in registered /\ age[s] = config.ttl

\* What it takes to keep the lease of a service in the table, serving or
\* draining: with a request timeout it lapses only if the TTL leaves no room
\* for one slow round - a drain or deregistration in its way, then every call
\* as slow as can be - after as many rounds as refreshes have failed and one
\* more, on top of how old the lease was when Register stored the entry.
\* With the defaults (3s, 10s, 3s) one service survives a slow Consul, but no
\* failed refresh; two services do not survive a slow Consul.
LeaseKept ==
  Limited => \A s \in Kept :
    Lapsed(s) => config.ttl <= late[s] + Gap(missed[s] + 1) + Longest

-----------------------------------------------------------------------------
(* Why.  An age is traced back to the start of the last round: a service   *)
(* whose turn is over is as old as its failed refreshes took and the time  *)
(* since then, one whose turn is still to come is a round older.           *)

Pending(s) == loop = "locking" \/ (s \in todo /\ ~(call = s /\ handled = "yes"))
Behind(s) == missed[s] + (IF Pending(s) THEN 1 ELSE 0)

\* The time since the ticker fired bounds that since the last tick was taken,
\* while there is no other; within a round the lock and the calls so far do,
\* the calls alone for a service this round has refreshed.
SinceFired == config.interval - next
SinceTable == (Cardinality(Service) - Cardinality(todo)) * config.timeout + taken
SinceTick ==
  IF loop = "locking" THEN IF holder # None THEN held ELSE config.timeout
  ELSE config.timeout + SinceTable
SinceBegun(s) == IF Behind(s) = 0 THEN SinceTable ELSE SinceTick

RoundInv ==
  /\ Validate(config)
  /\ ~Up => registered = {} /\ Kept = {} /\ handlers = {} /\ holder = None /\ age = Zero
  /\ todo = {} <=> loop # "refreshing"
  /\ call = None => taken = 0 /\ handled = "no"
  /\ Up => 0 < config.interval /\ next <= config.interval
  /\ Limited => taken <= config.timeout /\ held <= config.timeout
  /\ Up => \A s \in Service : age[s] <= config.ttl

Traced(s) ==
  /\ tick = 0 => age[s] <= late[s] + Gap(Behind(s)) + SinceFired
  /\ loop \in {"locking", "refreshing"} => age[s] <= late[s] + Gap(Behind(s)) + SinceBegun(s)
  /\ loop = "waiting" => age[s] <= late[s] + Gap(Behind(s) + 1)

AgeInv == Limited => \A s \in Kept \cap registered : Traced(s)

LeaseInv == TypeOK /\ RoundInv /\ AgeInv
=============================================================================
