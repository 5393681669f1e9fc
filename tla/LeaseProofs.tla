----------------------------- MODULE LeaseProofs -----------------------------
(***************************************************************************)
(* Lease for any number of services and handlers and every configuration:  *)
(* how old a check of Consul can get between two refreshes, and with it    *)
(* the margin the TTL must leave for a lease not to lapse.                 *)
(***************************************************************************)
EXTENDS Lease, FiniteSetTheorems, TLAPS

-----------------------------------------------------------------------------
(* Products, stated once so that the steps below stay linear.              *)

LEMMA Products ==
  ASSUME NEW m \in Nat, NEW a \in Nat
  PROVE  m * a \in Nat /\ (m + 1) * a = m * a + a
  OBVIOUS

LEMMA ProductsGrow ==
  ASSUME NEW m \in Nat, NEW k \in Nat, NEW a \in Nat, m <= k
  PROVE  m * a <= k * a
<1>1. PICK d \in Nat : k = m + d
  <2>1. k - m \in Nat /\ k = m + (k - m)
    OBVIOUS
  <2> QED
    BY <2>1
<1>2. k * a = m * a + d * a
  BY <1>1
<1>3. m * a \in Nat /\ d * a \in Nat /\ k * a \in Nat
  OBVIOUS
<1> QED
  BY <1>2, <1>3

\* What is measured is a running loop with a request timeout.
Measured == config \in Config /\ 0 < config.interval /\ 0 < config.timeout

LEMMA Distances ==
  ASSUME Measured
  PROVE  /\ Cardinality(Service) \in Nat /\ config.interval \in Nat /\ config.timeout \in Nat
         /\ Calls \in Nat /\ Longest \in Nat /\ Apart \in Nat /\ First \in Nat
         /\ Longest <= Apart /\ config.interval <= Apart
         /\ Calls <= First /\ config.interval <= First
         /\ Longest = config.timeout + Calls
<1>1. Cardinality(Service) \in Nat
  BY LeaseConstants, FS_CardinalityType
<1>2. config.interval \in Nat /\ config.timeout \in Nat
  BY DEF Measured, Config
<1>3. Calls \in Nat
  BY <1>1, <1>2, Products DEF Calls
<1>4. Longest \in Nat
  BY <1>2, <1>3 DEF Longest
<1> QED
  BY <1>1, <1>2, <1>3, <1>4 DEF Apart, First, Longest

\* One round more is an interval more, and the slowest round.
LEMMA Gaps ==
  ASSUME Measured, NEW k \in Nat
  PROVE  /\ Gap(k) \in Nat /\ Gap(k + 1) \in Nat
         /\ Gap(k) + config.interval <= Gap(k + 1)
         /\ k = 0 => Calls <= Gap(k + 1)
         /\ k # 0 => Gap(k) + Longest <= Gap(k + 1)
<1>1. First \in Nat /\ Apart \in Nat /\ Calls <= First /\ config.interval <= First
      /\ config.interval <= Apart /\ Longest <= Apart
      /\ config.interval \in Nat /\ Longest \in Nat /\ Calls \in Nat
  BY Distances
<1>2. CASE k = 0
  <2>1. (k + 1) - 1 = 0 /\ 0 * Apart = 0
    BY <1>1, <1>2
  <2>2. Gap(k) = 0 /\ Gap(k + 1) = First
    BY <1>1, <1>2, <2>1 DEF Gap
  <2> QED
    BY <1>1, <1>2, <2>2
<1>3. CASE k # 0
  <2> DEFINE j == k - 1
  <2>1. j \in Nat /\ (k + 1) - 1 = j + 1 /\ k + 1 # 0
    BY <1>3
  <2>2. Gap(k) = First + j * Apart /\ Gap(k + 1) = First + (j + 1) * Apart
    BY <1>3, <2>1 DEF Gap
  <2> HIDE DEF j
  <2>3. (j + 1) * Apart = j * Apart + Apart /\ j * Apart \in Nat
    BY <1>1, <2>1, Products
  <2> QED
    BY <1>1, <1>3, <2>2, <2>3
<1> QED
  BY <1>2, <1>3

\* How much of a round is done when the services of T are left.
LEMMA Done ==
  ASSUME NEW T \in SUBSET Service, NEW c \in Nat
  PROVE  /\ IsFiniteSet(T) /\ Cardinality(T) \in Nat /\ Cardinality(T) <= Cardinality(Service)
         /\ (Cardinality(Service) - Cardinality(T)) * c \in Nat
<1>1. /\ IsFiniteSet(T) /\ Cardinality(T) \in Nat /\ Cardinality(Service) \in Nat
      /\ Cardinality(T) <= Cardinality(Service)
  BY LeaseConstants, FS_Subset, FS_CardinalityType
<1>2. Cardinality(Service) - Cardinality(T) \in Nat
  BY <1>1
<1> QED
  BY <1>1, <1>2, Products

LEMMA Measures ==
  ASSUME TypeOK, RoundInv, Up, Limited
  PROVE  /\ Measured
         /\ SinceFired \in Nat /\ SinceFired <= config.interval
         /\ SinceTable \in Nat /\ SinceTick \in Nat
         /\ \A s \in Service : /\ missed[s] \in Nat /\ Behind(s) \in Nat
                               /\ age[s] \in Nat /\ late[s] \in Nat
                               /\ Behind(s) \in {missed[s], missed[s] + 1}
<1>1. Measured
  BY LeaseConstants DEF Measured, TypeOK, RoundInv, Limited
<1>2. SinceFired \in Nat /\ SinceFired <= config.interval
  BY <1>1, Distances DEF SinceFired, TypeOK, RoundInv
<1>3. (Cardinality(Service) - Cardinality(todo)) * config.timeout \in Nat
  BY <1>1, Done, Distances DEF TypeOK
<1>4. SinceTable \in Nat
  BY <1>3 DEF SinceTable, TypeOK
<1>5. SinceTick \in Nat
  BY <1>1, <1>4, Distances DEF SinceTick, TypeOK
<1>6. \A s \in Service : missed[s] \in Nat /\ age[s] \in Nat /\ late[s] \in Nat
  BY LeaseConstants DEF TypeOK
<1> QED
  BY <1>1, <1>2, <1>4, <1>5, <1>6 DEF Behind

\* Within a round no more time has passed than a whole round may take.
LEMMA RoundIsShort ==
  ASSUME TypeOK, RoundInv, Up, Limited, loop = "refreshing"
  PROVE  SinceTable <= Calls /\ SinceTick <= Longest
<1> DEFINE n == Cardinality(Service)
           k == Cardinality(todo)
<1>0. Measured
  BY Measures
<1>1. n \in Nat /\ k \in Nat /\ k <= n /\ k # 0
  BY <1>0, Done, Distances, FS_EmptySet DEF RoundInv, TypeOK
<1>2. config.timeout \in Nat /\ taken \in Nat /\ taken <= config.timeout
  BY <1>0, Distances DEF TypeOK, RoundInv, Limited
<1> HIDE DEF n, k
<1>3. n - k \in Nat /\ (n - k) + 1 \in Nat /\ (n - k) + 1 <= n
  BY <1>1
<1>4. ((n - k) + 1) * config.timeout = (n - k) * config.timeout + config.timeout
  BY <1>2, <1>3, Products
<1>5. ((n - k) + 1) * config.timeout <= n * config.timeout
  BY <1>1, <1>2, <1>3, ProductsGrow
<1>6. (n - k) * config.timeout \in Nat /\ n * config.timeout \in Nat
  BY <1>1, <1>2, <1>3, Products
<1>7. SinceTable <= Calls /\ SinceTable \in Nat /\ Calls \in Nat
  BY <1>2, <1>4, <1>5, <1>6 DEF SinceTable, Calls, n, k
<1> QED
  BY <1>2, <1>7 DEF SinceTick, Longest

-----------------------------------------------------------------------------
LEMMA InitLeaseInv == Init => LeaseInv
<1> SUFFICES ASSUME Init PROVE LeaseInv
  OBVIOUS
<1>1. TypeOK
  BY LeaseConstants DEF Init, TypeOK, Zero, Entry
<1>2. RoundInv
  BY LeaseConstants DEF Init, RoundInv, Up, Kept, Limited, Config
<1>3. AgeInv
  BY DEF Init, AgeInv
<1> QED
  BY <1>1, <1>2, <1>3 DEF LeaseInv

LEMMA TypeStep == TypeOK /\ RoundInv /\ [Next]_vars => TypeOK'
<1> SUFFICES ASSUME TypeOK, RoundInv, [Next]_vars PROVE TypeOK'
  OBVIOUS
<1> USE LeaseConstants
    DEF TypeOK, RoundInv, loopVars, callVars, tableVars, mutexVars, consulVars, Passed, Up
<1>1. CASE Start
  BY <1>1 DEF Start, Config
<1>2. CASE Fire
  BY <1>2 DEF Fire, Config
<1>3. CASE Take
  BY <1>3 DEF Take
<1>4. CASE Round
  BY <1>4 DEF Round, Kept
<1>5. CASE Handle
  BY <1>5 DEF Handle
<1>6. CASE Return
  BY <1>6 DEF Return
<1>7. CASE Elapse
  <2>1. next' \in Nat /\ taken' \in Nat /\ held' \in Nat
    BY <1>7 DEF Elapse, Settled
  <2>2. \A s \in Service : Older(age[s]) \in Nat
    BY DEF Older
  <2> QED
    BY <1>7, <2>1, <2>2 DEF Elapse
<1>8. CASE HandleDeregister \/ Unlock
  BY <1>8 DEF HandleDeregister, Unlock, Entry
<1>9. ASSUME NEW s \in Service, Handlers(s) PROVE TypeOK'
  <2>1. CASE Enrol(s)
    BY <2>1 DEF Enrol, Step
  <2>2. CASE Read(s)
    BY <2>2 DEF Read, Step
  <2>3. CASE Replay(s) \/ Replace(s)
    BY <2>3 DEF Replay, Replace, Proceed, Step
  <2>4. ASSUME NEW state \in Step, Store(s, state) PROVE TypeOK'
    <3>1. table' \in [Service -> Entry]
      BY <2>4 DEF Store, Entry, Step
    <3>2. late' \in [Service -> 0..MaxLate]
      BY <2>4 DEF Store
    <3> QED
      BY <2>4, <3>1, <3>2 DEF Store
  <2>5. ASSUME NEW state \in Step, GiveUp(<<s, state>>) PROVE TypeOK'
    BY <2>5 DEF GiveUp
  <2>6. ASSUME NEW o \in {"drain", "deregister"}, Lock(s, o) PROVE TypeOK'
    BY <2>6 DEF Lock
  <2> QED
    BY <1>9, <2>1, <2>2, <2>3, <2>4, <2>5, <2>6 DEF Handlers
<1>10. ASSUME NEW s \in Service, Call(s) \/ Drop(s) PROVE TypeOK'
  BY <1>10 DEF Call, Drop
<1>11. CASE UNCHANGED vars
  BY <1>11 DEF vars
<1> QED
  BY <1>1, <1>2, <1>3, <1>4, <1>5, <1>6, <1>7, <1>8, <1>9, <1>10, <1>11 DEF Next

LEMMA RoundStep == TypeOK /\ RoundInv /\ [Next]_vars => RoundInv'
<1> SUFFICES ASSUME TypeOK, RoundInv, [Next]_vars PROVE RoundInv'
  OBVIOUS
<1>0. config.interval \in Int /\ config.ttl \in Int /\ config.timeout \in Int
      /\ config.interval < config.ttl /\ next \in Nat /\ age \in [Service -> Nat]
  BY LeaseConstants DEF TypeOK, RoundInv, Config, Validate
<1>a. (Up => 0 <= config.ttl) /\ (Limited => 0 <= config.timeout)
  BY <1>0 DEF RoundInv, Limited
<1> USE <1>0, <1>a, LeaseConstants
    DEF TypeOK, RoundInv, Validate, loopVars, callVars, tableVars, mutexVars, consulVars, Passed,
        Up, Kept, Limited
<1>1. CASE Start
  BY <1>1 DEF Start, Zero
<1>2. CASE Fire
  BY <1>2 DEF Fire
<1>3. CASE Take
  BY <1>3 DEF Take
<1>4. CASE Round
  BY <1>4 DEF Round
<1>5. CASE Handle
  BY <1>5 DEF Handle
<1>6. CASE Return
  BY <1>6 DEF Return
<1>7. CASE Elapse
  <2>1. /\ next' <= config.interval /\ (call = None => taken' = taken)
        /\ Limited => taken' <= config.timeout /\ held' <= config.timeout
    BY <1>7 DEF Elapse, Settled, InTime
  <2>2. Up => \A s \in Service : Older(age[s]) <= config.ttl
    BY DEF Older
  <2> QED
    BY <1>7, <2>1, <2>2 DEF Elapse, Settled
<1>8. CASE HandleDeregister \/ Unlock
  BY <1>8 DEF HandleDeregister, Unlock
<1>9. ASSUME NEW s \in Service, Handlers(s) PROVE RoundInv'
  <2>1. CASE Enrol(s)
    BY <2>1 DEF Enrol
  <2>2. CASE Read(s)
    BY <2>2 DEF Read
  <2>3. CASE Replay(s) \/ Replace(s)
    BY <2>3 DEF Replay, Replace, Proceed
  <2>4. ASSUME NEW state \in Step, Store(s, state) PROVE RoundInv'
    BY <2>4 DEF Store
  <2>5. ASSUME NEW state \in Step, GiveUp(<<s, state>>) PROVE RoundInv'
    BY <2>5 DEF GiveUp
  <2>6. ASSUME NEW o \in {"drain", "deregister"}, Lock(s, o) PROVE RoundInv'
    BY <2>6 DEF Lock
  <2> QED
    BY <1>9, <2>1, <2>2, <2>3, <2>4, <2>5, <2>6 DEF Handlers
<1>10. ASSUME NEW s \in Service, Call(s) \/ Drop(s) PROVE RoundInv'
  BY <1>10 DEF Call, Drop
<1>11. CASE UNCHANGED vars
  BY <1>11 DEF vars
<1> QED
  BY <1>1, <1>2, <1>3, <1>4, <1>5, <1>6, <1>7, <1>8, <1>9, <1>10, <1>11 DEF Next

-----------------------------------------------------------------------------
(* Ages.                                                                   *)

\* Traced in the next state, in terms of distances that do not change.
LEMMA TracedNext ==
  ASSUME config' = config, NEW s, NEW b, Behind(s)' = b,
         tick' = 0 => age'[s] <= late'[s] + Gap(b) + SinceFired',
         loop' \in {"locking", "refreshing"} =>
           age'[s] <= late'[s] + Gap(b) + (IF b = 0 THEN SinceTable' ELSE SinceTick'),
         loop' = "waiting" => age'[s] <= late'[s] + Gap(b + 1)
  PROVE  Traced(s)'
BY DEF Traced, SinceBegun, Gap, First, Apart, Longest, Calls

LEMMA MeasuresNext ==
  ASSUME TypeOK', RoundInv', Up', Limited', config' = config
  PROVE  /\ Measured
         /\ SinceFired' \in Nat /\ SinceTable' \in Nat /\ SinceTick' \in Nat
         /\ \A s \in Service : Behind(s)' \in Nat /\ age'[s] \in Nat /\ late'[s] \in Nat
<1>1. Measured
  BY LeaseConstants DEF Measured, TypeOK, RoundInv, Limited
<1>2. SinceFired' \in Nat
  BY <1>1, Distances DEF SinceFired, TypeOK, RoundInv
<1>3. (Cardinality(Service) - Cardinality(todo')) * config.timeout \in Nat
  BY <1>1, Done, Distances DEF TypeOK
<1>4. SinceTable' \in Nat
  BY <1>3 DEF SinceTable, TypeOK
<1>5. SinceTick' \in Nat
  BY <1>1, <1>4, Distances DEF SinceTick, TypeOK
<1>6. \A s \in Service : missed'[s] \in Nat /\ age'[s] \in Nat /\ late'[s] \in Nat
  BY LeaseConstants DEF TypeOK
<1> QED
  BY <1>1, <1>2, <1>4, <1>5, <1>6 DEF Behind

\* A lease no older than when its entry was stored is traced, whatever the
\* loop is about.
LEMMA FreshIsTraced ==
  ASSUME TypeOK', RoundInv', Up', Limited', config' = config, NEW s \in Service,
         age'[s] <= late'[s]
  PROVE  Traced(s)'
<1>1. /\ SinceFired' \in Nat /\ SinceTable' \in Nat /\ SinceTick' \in Nat
      /\ Behind(s)' \in Nat /\ age'[s] \in Nat /\ late'[s] \in Nat /\ Measured
  BY MeasuresNext
<1>2. PICK b \in Nat : Behind(s)' = b
  BY <1>1
<1>3. Gap(b) \in Nat /\ Gap(b + 1) \in Nat
  BY <1>1, <1>2, Gaps
<1> QED
  BY <1>1, <1>2, <1>3, TracedNext

\* A step that leaves the clocks, the round and the service alone.
LEMMA QuietIsTraced ==
  ASSUME config' = config, NEW s, Traced(s), Behind(s)' = Behind(s),
         age'[s] = age[s], late'[s] = late[s], loop' = loop, tick' = tick,
         SinceFired' = SinceFired, SinceTable' = SinceTable, SinceTick' = SinceTick
  PROVE  Traced(s)'
BY TracedNext DEF Traced, SinceBegun

\* What the steps below start from.
LEMMA Tracing ==
  ASSUME LeaseInv, Limited, NEW s \in Kept \cap registered
  PROVE  /\ s \in Service /\ Up /\ Traced(s) /\ Measured
         /\ SinceFired \in Nat /\ SinceFired <= config.interval
         /\ SinceTable \in Nat /\ SinceTick \in Nat
         /\ age[s] \in Nat /\ late[s] \in Nat /\ missed[s] \in Nat /\ Behind(s) \in Nat
         /\ Gap(Behind(s)) \in Nat /\ Gap(Behind(s) + 1) \in Nat
<1>1. s \in Service /\ Up /\ Traced(s)
  BY DEF LeaseInv, TypeOK, RoundInv, AgeInv
<1> QED
  BY <1>1, Measures, Gaps DEF LeaseInv

\* The loop takes a tick: who is behind is behind by one more.
LEMMA TakeTraces ==
  ASSUME LeaseInv, TypeOK', RoundInv', Limited, Take, NEW s \in Kept \cap registered
  PROVE  Traced(s)'
<1>1. config' = config /\ Up' /\ Limited' /\ age' = age /\ late' = late /\ s \in Service
  BY Tracing DEF Take, Up, Limited, consulVars
<1>2. SinceFired' \in Nat /\ SinceTable' \in Nat /\ SinceTick' \in Nat
  BY <1>1, MeasuresNext
<1>3. Behind(s) = missed[s] /\ Behind(s)' = missed[s] + 1 /\ missed[s] \in Nat
  BY <1>1, Tracing DEF Take, Behind, Pending, LeaseInv, RoundInv, callVars, consulVars
<1>4. age[s] <= late[s] + Gap(missed[s] + 1) /\ age[s] \in Nat /\ late[s] \in Nat
      /\ Gap(missed[s] + 1) \in Nat
  BY <1>3, Tracing DEF Take, Traced
<1>5. missed[s] + 1 # 0 /\ loop' # "waiting"
  BY <1>3 DEF Take
<1> QED
  BY <1>1, <1>2, <1>3, <1>4, <1>5, TracedNext

\* The loop gets the table: from now on its calls are what takes time.
LEMMA RoundTraces ==
  ASSUME LeaseInv, TypeOK', RoundInv', Limited, Round, NEW s \in Kept \cap registered
  PROVE  Traced(s)'
<1>1. /\ config' = config /\ Up' /\ Limited' /\ age' = age /\ late' = late /\ tick' = tick
      /\ s \in Service /\ loop' = "refreshing" /\ SinceFired' = SinceFired
  BY Tracing DEF Round, Up, Limited, consulVars, SinceFired
<1>2. SinceTable' \in Nat /\ config.timeout \in Nat /\ SinceTick = config.timeout
      /\ SinceTick' = config.timeout + SinceTable'
  <2>1. SinceTable' \in Nat /\ config.timeout \in Nat
    BY <1>1, MeasuresNext, Distances
  <2> QED
    BY <1>1, <2>1 DEF SinceTick, Round
<1>3. Behind(s) = missed[s] + 1 /\ Behind(s)' = Behind(s) /\ missed[s] \in Nat
  <2>1. call = None /\ None \notin Service
    BY LeaseConstants DEF LeaseInv, TypeOK, RoundInv, Round
  <2> QED
    BY <2>1, Tracing DEF Round, Behind, Pending, LeaseInv, TypeOK, consulVars
<1>4. Behind(s) # 0 /\ SinceBegun(s) = SinceTick
  BY <1>3 DEF SinceBegun
<1>5. /\ age[s] \in Nat /\ late[s] \in Nat /\ Gap(Behind(s)) \in Nat
      /\ age[s] <= late[s] + Gap(Behind(s)) + SinceTick
      /\ tick = 0 => age[s] <= late[s] + Gap(Behind(s)) + SinceFired
  BY <1>4, Tracing DEF Traced, Round
<1>6. age'[s] <= late'[s] + Gap(Behind(s)) + SinceTick'
  BY <1>1, <1>2, <1>5
<1> QED
  BY <1>1, <1>3, <1>4, <1>5, <1>6, TracedNext

\* A call returns: its service leaves the round, one more failure behind it or
\* refreshed, and the round has got on by what a call may take.
LEMMA ReturnTraces ==
  ASSUME LeaseInv, Limited, Return, NEW s \in Kept \cap registered
  PROVE  Traced(s)'
<1>1. /\ config' = config /\ age' = age /\ late' = late /\ tick' = tick /\ SinceFired' = SinceFired
      /\ s \in Service /\ loop = "refreshing" /\ loop' \in {"waiting", "refreshing"}
      /\ Measured
  BY Tracing DEF Return, LeaseInv, TypeOK, RoundInv, SinceFired
<1>2. Behind(s)' = Behind(s)
  BY <1>1, LeaseConstants DEF LeaseInv, TypeOK, Return, Behind, Pending
<1>3. /\ age[s] \in Nat /\ late[s] \in Nat /\ SinceTable \in Nat /\ SinceTick \in Nat
      /\ Behind(s) \in Nat /\ Gap(Behind(s)) \in Nat /\ Gap(Behind(s) + 1) \in Nat
      /\ tick = 0 => age[s] <= late[s] + Gap(Behind(s)) + SinceFired
      /\ age[s] <= late[s] + Gap(Behind(s)) + SinceBegun(s)
  BY <1>1, Tracing DEF Traced
<1>4. ASSUME loop' = "waiting" PROVE age'[s] <= late'[s] + Gap(Behind(s) + 1)
  <2>1. SinceTable <= Calls /\ SinceTick <= Longest /\ Calls \in Nat /\ Longest \in Nat
    BY <1>1, RoundIsShort, Tracing, Distances DEF LeaseInv
  <2>2. CASE Behind(s) = 0
    <3>1. Gap(Behind(s)) = 0 /\ Calls <= Gap(Behind(s) + 1)
      BY <1>1, <1>3, <2>2, Gaps DEF Gap
    <3> QED
      BY <1>1, <1>3, <2>1, <2>2, <3>1 DEF SinceBegun
  <2>3. CASE Behind(s) # 0
    <3>1. Gap(Behind(s)) + Longest <= Gap(Behind(s) + 1)
      BY <1>1, <1>3, <2>3, Gaps
    <3> QED
      BY <1>1, <1>3, <2>1, <2>3, <3>1 DEF SinceBegun
  <2> QED
    BY <2>2, <2>3
<1>5. SinceTable' \in Nat /\ SinceTable <= SinceTable'
  <2> DEFINE n == Cardinality(Service)
             k == Cardinality(todo)
  <2>0. config.timeout \in Nat
    BY <1>1, Distances
  <2>1. n \in Nat /\ k \in Nat /\ k <= n /\ IsFiniteSet(todo) /\ call \in todo
    BY <1>1, <2>0, Done, Distances DEF Return, LeaseInv, TypeOK
  <2>2. Cardinality(todo') = k - 1 /\ k - 1 \in Nat
    <3>1. todo' = todo \ {call}
      BY DEF Return
    <3>2. Cardinality(todo') = k - 1
      BY <2>1, <3>1, FS_RemoveElement
    <3>3. Cardinality(todo') \in Nat
      BY <2>0, <2>1, <3>1, Done DEF LeaseInv, TypeOK
    <3> QED
      BY <3>2, <3>3
  <2>3. taken \in Nat /\ taken <= config.timeout /\ taken' = 0
    BY DEF LeaseInv, TypeOK, RoundInv, Return
  <2> HIDE DEF n, k
  <2>4. n - k \in Nat /\ n - (k - 1) = (n - k) + 1
    BY <2>1, <2>2
  <2>5. ((n - k) + 1) * config.timeout = (n - k) * config.timeout + config.timeout
        /\ (n - k) * config.timeout \in Nat
    BY <2>0, <2>4, Products
  <2>6. SinceTable' = ((n - k) + 1) * config.timeout
    BY <1>1, <2>0, <2>2, <2>3, <2>4, <2>5 DEF SinceTable, n
  <2>7. SinceTable = (n - k) * config.timeout + taken
    BY DEF SinceTable, n, k
  <2> QED
    BY <2>0, <2>3, <2>5, <2>6, <2>7
<1>6. loop' = "refreshing" => SinceTick' = config.timeout + SinceTable'
  BY <1>1 DEF SinceTick
<1>7. SinceTick = config.timeout + SinceTable /\ config.timeout \in Nat
  BY <1>1, Distances DEF SinceTick
<1>8. ASSUME loop' = "refreshing"
      PROVE  age'[s] <= late'[s] + Gap(Behind(s)) + (IF Behind(s) = 0 THEN SinceTable' ELSE SinceTick')
  BY <1>1, <1>3, <1>5, <1>6, <1>7, <1>8 DEF SinceBegun
<1> QED
  BY <1>1, <1>2, <1>3, <1>4, <1>8, TracedNext

\* Time passes: an age grows no faster than what it is traced to.
LEMMA ElapseTraces ==
  ASSUME LeaseInv, Limited, Elapse, NEW s \in Kept \cap registered
  PROVE  Traced(s)'
<1>1. /\ config' = config /\ late' = late /\ tick' = tick /\ loop' = loop
      /\ (loop = "waiting" => tick = 0) /\ s \in Service /\ Measured
  BY Tracing DEF Elapse, Settled
<1>2. Behind(s)' = Behind(s)
  BY DEF Elapse, Behind, Pending
<1>3. age[s] \in Nat /\ age'[s] \in Nat /\ age'[s] <= age[s] + 1
  BY <1>1, Tracing DEF Elapse, Older, LeaseInv, TypeOK
<1>4. /\ SinceFired \in Nat /\ SinceFired' = SinceFired + 1 /\ SinceFired' <= config.interval
      /\ config.interval \in Nat
  BY <1>1, Tracing, Distances DEF Elapse, Settled, SinceFired, LeaseInv, TypeOK, RoundInv
<1>5. loop = "refreshing" => SinceTable' = SinceTable + 1
  <2>1. (Cardinality(Service) - Cardinality(todo)) * config.timeout \in Nat
    BY <1>1, Done, Distances DEF LeaseInv, TypeOK
  <2> QED
    BY <1>1, <2>1 DEF Elapse, Settled, SinceTable, LeaseInv, TypeOK
<1>6. loop = "locking" => Behind(s) # 0 /\ SinceTick' = SinceTick + 1
  BY <1>1, Tracing DEF Elapse, Settled, SinceTick, Behind, Pending
<1>7. loop = "refreshing" => SinceTick' = SinceTick + 1
  BY <1>1, <1>5, Tracing, Distances DEF SinceTick
<1>8. /\ late[s] \in Nat /\ Behind(s) \in Nat /\ Gap(Behind(s)) \in Nat /\ Gap(Behind(s) + 1) \in Nat
      /\ SinceTable \in Nat /\ SinceTick \in Nat
      /\ Gap(Behind(s)) + config.interval <= Gap(Behind(s) + 1)
      /\ tick = 0 => age[s] <= late[s] + Gap(Behind(s)) + SinceFired
      /\ loop \in {"locking", "refreshing"} => age[s] <= late[s] + Gap(Behind(s)) + SinceBegun(s)
  BY <1>1, Tracing, Gaps DEF Traced
<1>9. ASSUME tick' = 0 PROVE age'[s] <= late'[s] + Gap(Behind(s)) + SinceFired'
  BY <1>1, <1>3, <1>4, <1>8, <1>9
<1>10. ASSUME loop' \in {"locking", "refreshing"}
       PROVE  age'[s] <= late'[s] + Gap(Behind(s)) + (IF Behind(s) = 0 THEN SinceTable' ELSE SinceTick')
  BY <1>1, <1>3, <1>5, <1>6, <1>7, <1>8, <1>10 DEF SinceBegun
<1>11. ASSUME loop' = "waiting" PROVE age'[s] <= late'[s] + Gap(Behind(s) + 1)
  BY <1>1, <1>3, <1>4, <1>8, <1>9, <1>11
<1> QED
  BY <1>1, <1>2, <1>9, <1>10, <1>11, TracedNext

\* Who is in the table and registered has been so, or has just been passed.
LEMMA HandlersTrace ==
  ASSUME LeaseInv, TypeOK', RoundInv', Limited, NEW r \in Service, Handlers(r),
         NEW s \in Service, s \in Kept', s \in registered'
  PROVE  Traced(s)'
<1>0. Up /\ Up' /\ Limited' /\ config' = config /\ loop' = loop /\ tick' = tick
      /\ UNCHANGED callVars /\ next' = next
  BY DEF Handlers, Enrol, Read, Replay, Replace, Proceed, Store, GiveUp, Lock, loopVars, Up,
         LeaseInv, RoundInv, Limited
<1>1. SinceFired' = SinceFired /\ SinceTable' = SinceTable
      /\ Pending(s)' = Pending(s)
  BY <1>0 DEF SinceFired, SinceTable, callVars, Pending
<1>2. ASSUME ~\E o \in {"drain", "deregister"} : Lock(r, o) PROVE UNCHANGED mutexVars
  BY <1>2 DEF Handlers, Enrol, Read, Replay, Replace, Proceed, Store, GiveUp
<1>3. SinceTick' = SinceTick
  <2>1. CASE \E o \in {"drain", "deregister"} : Lock(r, o)
    BY <1>0, <1>1, <2>1 DEF Lock, Unlocked, SinceTick
  <2>2. CASE ~\E o \in {"drain", "deregister"} : Lock(r, o)
    BY <1>0, <1>1, <1>2, <2>2 DEF SinceTick, mutexVars
  <2> QED
    BY <2>1, <2>2
<1>4. ASSUME s \in Kept \cap registered, age'[s] = age[s], late'[s] = late[s], missed'[s] = missed[s]
      PROVE  Traced(s)'
  <2>1. Behind(s)' = Behind(s)
    BY <1>1, <1>4 DEF Behind
  <2> QED
    BY <1>0, <1>1, <1>3, <1>4, <2>1, Tracing, QuietIsTraced
<1>5. ASSUME age'[s] <= late'[s] PROVE Traced(s)'
  BY <1>0, <1>5, FreshIsTraced
<1>6. ASSUME Enrol(r) \/ Replay(r) PROVE Traced(s)'
  <2>1. CASE s = r
    BY <1>5, <1>6, <2>1 DEF Enrol, Replay, Passed, LeaseInv, TypeOK
  <2>2. CASE s # r
    BY <1>4, <1>6, <2>2 DEF Enrol, Replay, Proceed, Passed, Kept, LeaseInv, TypeOK
  <2> QED
    BY <2>1, <2>2
<1>7. ASSUME Read(r) \/ Replace(r) PROVE Traced(s)'
  BY <1>4, <1>7 DEF Read, Replace, Proceed, Kept, consulVars
<1>8. ASSUME NEW state \in Step, Store(r, state) PROVE Traced(s)'
  <2>1. CASE s = r /\ table[r] # "kept"
    <3>1. age'[s] = age[s] /\ late'[s] = age[s] /\ age[s] \in Nat
      BY <1>8, <2>1 DEF Store, Kept, LeaseInv, TypeOK
    <3> QED
      BY <1>5, <3>1
  <2>2. CASE ~(s = r /\ table[r] # "kept")
    <3>1. s \in Kept \cap registered /\ late'[s] = late[s]
      BY <1>8, <2>2 DEF Store, Kept, LeaseInv, TypeOK
    <3> QED
      BY <1>4, <1>8, <3>1 DEF Store
  <2> QED
    BY <2>1, <2>2
<1>9. ASSUME NEW state \in Step, GiveUp(<<r, state>>) PROVE Traced(s)'
  BY <1>4, <1>9 DEF GiveUp, Kept, consulVars
<1>10. ASSUME NEW o \in {"drain", "deregister"}, Lock(r, o) PROVE Traced(s)'
  BY <1>4, <1>10 DEF Lock, Kept, tableVars, consulVars
<1> QED
  BY <1>6, <1>7, <1>8, <1>9, <1>10 DEF Handlers

\* Letting go of the mutex, Consul's own steps, and calls.
LEMMA OthersTrace ==
  ASSUME LeaseInv, TypeOK', RoundInv', Limited, NEW s \in Service, s \in Kept', s \in registered',
         \/ Fire \/ Handle \/ HandleDeregister \/ Unlock \/ UNCHANGED vars
         \/ \E r \in Service : Call(r) \/ Drop(r)
  PROVE  Traced(s)'
<1>0. Up /\ Limited' /\ config' = config /\ loop' = loop
  BY DEF Fire, Handle, HandleDeregister, Unlock, Call, Drop, loopVars, Up, Kept, consulVars,
         LeaseInv, RoundInv, TypeOK, Limited, tableVars, vars
<1>1. s \in Kept \cap registered
  BY DEF Fire, Handle, HandleDeregister, Unlock, Call, Drop, Kept, tableVars, consulVars, vars,
         LeaseInv, TypeOK
<1>2. Traced(s) /\ age[s] \in Nat /\ late[s] \in Nat /\ Gap(Behind(s)) \in Nat
      /\ SinceTick \in Nat /\ Measured
  BY <1>1, Tracing
<1>3. CASE Fire
  <2>1. tick' = 1 /\ Behind(s)' = Behind(s) /\ age' = age /\ late' = late
        /\ SinceTable' = SinceTable /\ SinceTick' = SinceTick
    BY <1>3 DEF Fire, consulVars, callVars, mutexVars, Behind, Pending, SinceTable, SinceTick
  <2> QED
    BY <1>0, <1>2, <2>1, TracedNext DEF Traced, SinceBegun
<1>4. CASE Handle
  <2>1. CASE s = call
    <3>1. age'[s] <= late'[s] /\ Up'
      BY <1>0, <1>4, <2>1 DEF Handle, Passed, LeaseInv, TypeOK, Up
    <3> QED
      BY <1>0, <3>1, FreshIsTraced
  <2>2. CASE s # call
    <3>1. /\ age'[s] = age[s] /\ late'[s] = late[s] /\ Behind(s)' = Behind(s) /\ tick' = tick
          /\ SinceTable' = SinceTable /\ SinceTick' = SinceTick /\ SinceFired' = SinceFired
      BY <1>4, <2>2
      DEF Handle, Passed, LeaseInv, TypeOK, Behind, Pending, SinceTable, SinceTick, SinceFired,
          loopVars, mutexVars
    <3> QED
      BY <1>0, <1>2, <3>1, QuietIsTraced
  <2> QED
    BY <2>1, <2>2
<1>5. CASE HandleDeregister \/ \E r \in Service : Drop(r)
  <2>1. /\ age' = age /\ late' = late /\ Behind(s)' = Behind(s) /\ tick' = tick
        /\ SinceTable' = SinceTable /\ SinceTick' = SinceTick /\ SinceFired' = SinceFired
    BY <1>5
    DEF HandleDeregister, Drop, Behind, Pending, SinceTable, SinceTick, SinceFired, loopVars,
        callVars, mutexVars
  <2> QED
    BY <1>0, <1>2, <2>1, QuietIsTraced
<1>6. CASE Unlock
  <2>1. /\ age' = age /\ late' = late /\ Behind(s)' = Behind(s) /\ tick' = tick
        /\ SinceTable' = SinceTable /\ SinceFired' = SinceFired
    BY <1>6 DEF Unlock, Behind, Pending, SinceTable, SinceFired, loopVars, callVars, consulVars
  <2>2. SinceTick <= SinceTick' /\ SinceTick' \in Nat
    <3>1. held \in Nat /\ held <= config.timeout /\ config.timeout \in Nat
      BY <1>2, Distances DEF LeaseInv, TypeOK, RoundInv
    <3>2. CASE loop = "locking"
      BY <1>0, <1>6, <3>1, <3>2 DEF Unlock, SinceTick
    <3>3. CASE loop # "locking"
      BY <1>0, <1>2, <2>1, <3>3 DEF SinceTick
    <3> QED
      BY <3>2, <3>3
  <2>3. loop' \in {"locking", "refreshing"} =>
          age'[s] <= late'[s] + Gap(Behind(s)) + (IF Behind(s) = 0 THEN SinceTable' ELSE SinceTick')
    BY <1>0, <1>2, <2>1, <2>2 DEF Traced, SinceBegun
  <2> QED
    BY <1>0, <1>2, <2>1, <2>3, TracedNext DEF Traced
<1>7. ASSUME NEW r \in Service, Call(r) PROVE Traced(s)'
  <2>1. call = None /\ handled = "no" /\ taken = 0 /\ s # None
    BY <1>7, LeaseConstants DEF Call, LeaseInv, RoundInv
  <2>2. /\ age' = age /\ late' = late /\ Behind(s)' = Behind(s) /\ tick' = tick
        /\ SinceTable' = SinceTable /\ SinceTick' = SinceTick /\ SinceFired' = SinceFired
    BY <1>7, <2>1
    DEF Call, Behind, Pending, SinceTable, SinceTick, SinceFired, loopVars, mutexVars, consulVars
  <2> QED
    BY <1>0, <1>2, <2>2, QuietIsTraced
<1>8. CASE UNCHANGED vars
  BY <1>0, <1>2, <1>8, QuietIsTraced
  DEF vars, Behind, Pending, SinceTable, SinceTick, SinceFired
<1> QED
  BY <1>3, <1>4, <1>5, <1>6, <1>7, <1>8

LEMMA AgeStep == LeaseInv /\ TypeOK' /\ RoundInv' /\ [Next]_vars => AgeInv'
<1>0. ASSUME LeaseInv, [Next]_vars PROVE config' = config
  BY <1>0 DEF Next, Start, Fire, Take, Round, Handle, Return, Elapse, HandleDeregister, Unlock,
              Handlers, Enrol, Read, Replay, Replace, Proceed, Store, GiveUp, Lock, Call, Drop, vars
<1> SUFFICES ASSUME LeaseInv, TypeOK', RoundInv', [Next]_vars, Limited, NEW s \in Service,
                    s \in Kept', s \in registered'
             PROVE  Traced(s)'
  BY <1>0 DEF AgeInv, Limited, Kept
<1>1. CASE Start
  BY <1>1 DEF Start, LeaseInv, RoundInv, Up, consulVars
<1>2. CASE Take
  BY <1>2, TakeTraces DEF Take, Kept, tableVars, consulVars
<1>3. CASE Round
  BY <1>3, RoundTraces DEF Round, Kept, tableVars, consulVars
<1>4. CASE Return
  BY <1>4, ReturnTraces DEF Return, Kept, tableVars
<1>5. CASE Elapse
  BY <1>5, ElapseTraces DEF Elapse, Kept, tableVars
<1>6. ASSUME NEW r \in Service, Handlers(r) PROVE Traced(s)'
  BY <1>6, HandlersTrace
<1>7. CASE \/ Fire \/ Handle \/ HandleDeregister \/ Unlock \/ UNCHANGED vars
           \/ \E r \in Service : Call(r) \/ Drop(r)
  BY <1>7, OthersTrace
<1> QED
  BY <1>1, <1>2, <1>3, <1>4, <1>5, <1>6, <1>7 DEF Next

-----------------------------------------------------------------------------

\* Every age is traced to the start of the last round, whatever the calls
\* take, however many of them fail, whoever holds the table locked and
\* whenever services come and go.
THEOREM LeaseInvariance == Spec => []LeaseInv
<1>1. LeaseInv /\ [Next]_vars => LeaseInv'
  BY TypeStep, RoundStep, AgeStep DEF LeaseInv
<1> QED
  BY InitLeaseInv, <1>1, PTL DEF Spec

\* Clock, ticker, round, table, mutex and Consul's view of every service keep
\* their types under every configuration Validate lets through.
THEOREM TypeCorrectness == Spec => []TypeOK
<1>1. LeaseInv => TypeOK
  BY DEF LeaseInv
<1> QED
  BY <1>1, LeaseInvariance, PTL

\* The ownership lease of leaseLoop: with a request timeout, the TTL of a
\* service in the table runs out only if it leaves no room for one slow round,
\* the wait for the table included, after a round for each failed refresh and
\* one more, on top of the age at which Register stored the entry.
THEOREM LeaseKeptHolds == Spec => []LeaseKept
<1>1. LeaseInv => LeaseKept
  <2> SUFFICES ASSUME LeaseInv, Limited, NEW s \in Kept, Lapsed(s)
               PROVE  config.ttl <= late[s] + Gap(missed[s] + 1) + Longest
    BY DEF LeaseKept
  <2>1. s \in Kept \cap registered /\ age[s] = config.ttl
    BY DEF Lapsed
  <2>2. /\ Up /\ Traced(s) /\ Measured /\ s \in Service
        /\ SinceTable \in Nat /\ SinceTick \in Nat
        /\ age[s] \in Nat /\ late[s] \in Nat /\ missed[s] \in Nat /\ Behind(s) \in Nat
        /\ Gap(Behind(s)) \in Nat
    BY <2>1, Tracing
  <2>3. Gap(missed[s]) \in Nat /\ Gap(missed[s] + 1) \in Nat
        /\ Gap(missed[s]) <= Gap(missed[s] + 1)
    BY <2>2, Gaps, Distances
  <2>4. Behind(s) = missed[s] \/ Behind(s) = missed[s] + 1
    BY <2>2 DEF Behind
  <2>5. Gap(Behind(s)) <= Gap(missed[s] + 1)
    BY <2>3, <2>4
  <2>6. Longest \in Nat /\ Calls \in Nat /\ Longest = config.timeout + Calls /\ config.timeout \in Nat
    BY <2>2, Distances
  <2>7. CASE loop = "refreshing"
    <3>1. SinceTable <= Calls /\ SinceTick <= Longest
      BY <2>2, <2>7, RoundIsShort DEF LeaseInv
    <3> QED
      BY <2>1, <2>2, <2>3, <2>5, <2>6, <2>7, <3>1 DEF Traced, SinceBegun
  <2>8. CASE loop = "locking"
    <3>1. SinceTick <= config.timeout /\ Behind(s) # 0
      BY <2>2, <2>6, <2>8 DEF SinceTick, Behind, Pending, LeaseInv, TypeOK, RoundInv
    <3> QED
      BY <2>1, <2>2, <2>3, <2>5, <2>6, <2>8, <3>1 DEF Traced, SinceBegun
  <2>9. CASE loop = "waiting"
    <3>1. Behind(s) = missed[s]
      BY <2>2, <2>9 DEF LeaseInv, RoundInv, Behind, Pending
    <3> QED
      BY <2>1, <2>2, <2>3, <2>6, <2>9, <3>1 DEF Traced
  <2> QED
    BY <2>2, <2>7, <2>8, <2>9 DEF Up
<1> QED
  BY <1>1, LeaseInvariance, PTL
=============================================================================
