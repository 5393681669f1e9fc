------------------------- MODULE EnvoyManagerProofs -------------------------
(***************************************************************************)
(* EnvoyManager for any number of restarts and every set of faults: there  *)
(* is one Envoy at a time, and a Stop that succeeded is final.             *)
(***************************************************************************)
EXTENDS EnvoyManager, TLAPS

LEMMA NoProcIsNone == NoProc \notin Proc
  BY EnvoyConstants DEF NoProc, Proc

LEMMA InitEnvoyInv == Init => EnvoyInv
<1> SUFFICES ASSUME Init PROVE EnvoyInv
  OBVIOUS
<1>1. TypeOK
  BY DEF Init, TypeOK, ProcState, WaiterState, WatchPC, ProcOrNone
<1>2. ProcessInv
  BY DEF Init, ProcessInv, Running
<1>3. WatchInv
  BY DEF Init, WatchInv
<1>4. StopInv
  BY DEF Init, StopInv
<1> QED
  BY <1>1, <1>2, <1>3, <1>4 DEF EnvoyInv

LEMMA Returning ==
  ASSUME WatchReturns
  PROVE  watch' \in [pc : WatchPC, cmd : ProcOrNone, done : ProcOrNone] /\ watch'.pc = "returned"
  BY DEF WatchReturns, WatchPC, ProcOrNone

LEMMA TypeStep == TypeOK /\ [Next]_vars => TypeOK'
<1> SUFFICES ASSUME TypeOK, [Next]_vars PROVE TypeOK'
  OBVIOUS
<1> USE DEF TypeOK, ProcState, WaiterState, WatchPC, ProcOrNone, managerVars
<1>1. ASSUME StartProcess
      PROVE  /\ proc' \in [Proc -> ProcState] /\ waiter' \in [Proc -> WaiterState]
             /\ cmd' \in ProcOrNone /\ waitDone' \in ProcOrNone
  BY <1>1 DEF StartProcess, Unused
<1>2. CASE Start
  BY <1>1, <1>2 DEF Start, WatchGoto
<1>3. CASE Signal
  BY <1>3 DEF Signal
<1>4. ASSUME NEW p \in Proc, Exit(p) PROVE TypeOK'
  BY <1>4 DEF Exit
<1>5. ASSUME NEW p \in Proc, WaitReturns(p) \/ StoreWaitErr(p) \/ CloseDone(p) PROVE TypeOK'
  BY <1>5 DEF WaitReturns, StoreWaitErr, CloseDone, Waiter
<1>6. CASE WatchRead
  BY <1>6, Returning DEF WatchRead
<1>7. CASE WatchChannel
  BY <1>7 DEF WatchChannel
<1>8. CASE WatchWait
  BY <1>8 DEF WatchWait, WatchGoto
<1>9. CASE WatchClean
  BY <1>9, Returning DEF WatchClean, WatchGoto
<1>10. CASE WatchBackoff
  BY <1>10, Returning DEF WatchBackoff, WatchGoto
<1>11. CASE WatchRestart
  <2>1. CASE Cancelled
    BY <1>11, <2>1, Returning DEF WatchRestart
  <2>2. CASE ~Cancelled
    <3>1. StartProcess /\ WatchGoto("read") /\ UNCHANGED <<context, stop, stopped>>
      BY <1>11, <2>2 DEF WatchRestart
    <3> QED
      BY <1>1, <3>1 DEF WatchGoto
  <2> QED
    BY <2>1, <2>2
<1>12. CASE WatchRestartFails
  BY <1>12 DEF WatchRestartFails, WatchGoto
<1>13. CASE StopBegin
  BY <1>13 DEF StopBegin
<1>14. CASE StopDone
  BY <1>14 DEF StopDone
<1>15. CASE StopTimesOut
  BY <1>15 DEF StopTimesOut
<1>16. CASE StopFails
  BY <1>16 DEF StopFails
<1>17. CASE UNCHANGED vars
  BY <1>17 DEF vars
<1> QED
  BY <1>2, <1>3, <1>4, <1>5, <1>6, <1>7, <1>8, <1>9, <1>10, <1>11, <1>12, <1>13, <1>14, <1>15, <1>16, <1>17
  DEF Next, Processes, Crashes, Killed, Waiters, WatchLoop, StopStep

-----------------------------------------------------------------------------

\* A process is started only where no other can be running: cmd is NoProc at
\* both places that start one.
LEMMA StartStarts ==
  ASSUME EnvoyInv, TypeOK', Start \/ (WatchRestart /\ ~Cancelled)
  PROVE  EnvoyInv'
<1> USE DEF EnvoyInv, ProcessInv, WatchInv, StopInv, WatchAt, WatchGoto, Running
<1>1. cmd = NoProc /\ StartProcess /\ watch' = [watch EXCEPT !.pc = "read"]
      /\ UNCHANGED <<context, stop, stopped>> /\ stop = "idle"
  BY DEF Start, WatchRestart
<1>2. PICK p \in Proc :
        /\ proc' = [proc EXCEPT ![p] = "running"]
        /\ waiter' = [waiter EXCEPT ![p] = "waiting"]
        /\ cmd' = p /\ waitDone' = p
  BY <1>1 DEF StartProcess, Unused
<1>3. \A q \in Proc : proc[q] # "running"
  BY <1>1, NoProcIsNone
<1>4. watch'.pc = "read"
  BY <1>1 DEF TypeOK
<1>5. ProcessInv'
  BY <1>2, <1>3 DEF TypeOK
<1>6. WatchInv' /\ StopInv'
  BY <1>1, <1>4
<1> QED
  BY <1>5, <1>6

\* The other steps of the watch loop.  The one that matters is WatchClean: the
\* channel it has waited for belongs to the process it read, or to none.
LEMMA WatchLoopWatches ==
  ASSUME EnvoyInv, TypeOK',
         \/ WatchRead \/ WatchChannel \/ WatchWait \/ WatchClean
         \/ WatchBackoff \/ WatchRestartFails \/ (WatchRestart /\ Cancelled)
  PROVE  EnvoyInv'
<1> USE DEF EnvoyInv, ProcessInv, WatchInv, StopInv, WatchAt, Running,
        WatchGoto, managerVars
<1>1. CASE WatchRead
  BY <1>1, Returning DEF WatchRead, TypeOK, Closed, Cancelled
<1>2. CASE WatchChannel
  BY <1>2 DEF WatchChannel, TypeOK, Closed, Cancelled
<1>3. CASE WatchWait
  BY <1>3 DEF WatchWait, TypeOK, Closed, Cancelled
<1>4. CASE WatchClean
  <2>1. watch.done = watch.cmd /\ watch.cmd \in Proc /\ waiter[watch.cmd] = "closed"
    BY <1>4 DEF WatchClean, Closed, TypeOK, ProcOrNone
  <2>2. \A p \in Proc : proc[p] # "running"
    BY <1>4, <2>1, NoProcIsNone DEF WatchClean
  <2>3. cmd' = NoProc /\ waitDone' = NoProc /\ watch'.pc \in {"backoff", "returned"}
    BY <1>4, <2>1, Returning DEF WatchClean, TypeOK
  <2> QED
    BY <1>4, <2>2, <2>3 DEF WatchClean, Cancelled
<1>5. CASE WatchBackoff
  BY <1>5, Returning DEF WatchBackoff, TypeOK, Cancelled
<1>6. CASE WatchRestartFails
  BY <1>6, Returning DEF WatchRestartFails, TypeOK, Cancelled
<1>7. CASE WatchRestart /\ Cancelled
  BY <1>7, Returning DEF WatchRestart, Cancelled
<1> QED
  BY <1>1, <1>2, <1>3, <1>4, <1>5, <1>6, <1>7

\* Exits, and the goroutine that reports them.
LEMMA ExitsAreReported ==
  ASSUME EnvoyInv, TypeOK', Processes \/ Waiters \/ Signal
  PROVE  EnvoyInv'
<1> USE DEF EnvoyInv, ProcessInv, WatchInv, StopInv, Running, managerVars
<1>1. ASSUME NEW p \in Proc, Exit(p) PROVE EnvoyInv'
  BY <1>1 DEF Exit, TypeOK, Closed, Cancelled
<1>2. ASSUME NEW p \in Proc, WaitReturns(p) \/ StoreWaitErr(p) \/ CloseDone(p) PROVE EnvoyInv'
  <2>1. proc[p] = "exited" /\ waiter[p] # "closed"
        /\ \E to \in {"locking", "closing", "closed"} : waiter' = [waiter EXCEPT ![p] = to]
        /\ UNCHANGED <<proc, cmd, waitDone, context, watch, stop, stopped>>
    BY <1>2 DEF WaitReturns, StoreWaitErr, CloseDone, Waiter
  <2> QED
    <3>1. PICK to \in {"locking", "closing", "closed"} : waiter' = [waiter EXCEPT ![p] = to]
      BY <2>1
    <3>2. \A q \in Proc : waiter[q] = "closed" => waiter'[q] = "closed"
      BY <2>1, <3>1 DEF TypeOK
    <3>3. Closed(watch.done) => Closed(watch.done)'
      BY <2>1, <3>2 DEF TypeOK, ProcOrNone, Closed
    <3>4. ProcessInv'
      BY <2>1, <3>1 DEF TypeOK
    <3> QED
      BY <2>1, <3>3, <3>4 DEF Cancelled
<1>3. CASE Signal
  BY <1>3 DEF Signal, Closed, Cancelled
<1> QED
  BY <1>1, <1>2, <1>3 DEF Processes, Crashes, Killed, Waiters

LEMMA StopStops ==
  ASSUME EnvoyInv, TypeOK', StopStep
  PROVE  EnvoyInv'
<1> USE DEF EnvoyInv, ProcessInv, WatchInv, StopInv, WatchAt, Running, managerVars
<1>1. CASE StopBegin
  <2>1. cmd = NoProc => \A p \in Proc : proc[p] # "running"
    BY NoProcIsNone
  <2>2. UNCHANGED <<proc, waiter, cmd, waitDone, watch>> /\ watch.pc # "off" /\ Cancelled'
    BY <1>1 DEF StopBegin, Cancelled
  <2>3. ProcessInv' /\ WatchInv'
    BY <2>2 DEF Closed
  <2>4. StopInv'
    BY <1>1, <2>1, <2>2 DEF StopBegin, TypeOK
  <2> QED
    BY <2>3, <2>4
<1>2. CASE StopDone
  <2>1. \A p \in Proc : proc[p] # "running"
    BY <1>2 DEF StopDone, Closed
  <2> QED
    <3>1. ProcessInv' /\ WatchInv'
      BY <1>2, <2>1 DEF StopDone, Closed
    <3>2. StopInv'
      BY <1>2, <2>1 DEF StopDone, Cancelled
    <3> QED
      BY <3>1, <3>2
<1>3. CASE StopFails
  BY <1>3 DEF StopFails, Closed, Cancelled
<1>4. CASE StopTimesOut
  BY <1>4 DEF StopTimesOut, Closed, Cancelled
<1> QED
  BY <1>1, <1>2, <1>3, <1>4 DEF StopStep

LEMMA StepKeepsInv == EnvoyInv /\ [Next]_vars => EnvoyInv'
<1>1. EnvoyInv /\ UNCHANGED vars => EnvoyInv'
  BY DEF EnvoyInv, TypeOK, ProcessInv, WatchInv, StopInv, Running, Closed, Cancelled, vars
<1> SUFFICES ASSUME EnvoyInv, [Next]_vars PROVE EnvoyInv'
  OBVIOUS
<1>2. TypeOK'
  BY TypeStep DEF EnvoyInv
<1> QED
  BY <1>1, <1>2, StartStarts, WatchLoopWatches, ExitsAreReported, StopStops
  DEF Next, WatchLoop

\* The inductive invariant of the manager: watchLoop, the waiting goroutines
\* and Stop agree on which process there is, whatever the order they run in.
THEOREM EnvoyInvariance == Spec => []EnvoyInv
  BY InitEnvoyInv, StepKeepsInv, PTL DEF Spec

\* A restart never overlaps the process it replaces, so two Envoys never
\* compete for the listener and admin ports of the host.
THEOREM OneEnvoyHolds == Spec => []OneEnvoy
<1>1. EnvoyInv => OneEnvoy
  BY DEF EnvoyInv, ProcessInv, OneEnvoy
<1> QED
  BY <1>1, EnvoyInvariance, PTL

\* When Manager.Stop has returned nil, no Envoy is running, and the watch loop
\* never starts another one.
THEOREM StopIsFinalHolds == Spec => []StopIsFinal
<1>1. EnvoyInv => StopIsFinal
  BY DEF EnvoyInv, StopInv, StopIsFinal
<1> QED
  BY <1>1, EnvoyInvariance, PTL

-----------------------------------------------------------------------------
(* The manager implements Supervisor.                                      *)

\* The steps that leave the processes, the context and the result of Stop
\* alone are none of Supervisor's.
LEMMA Hidden ==
  ASSUME UNCHANGED <<proc, context, stopped>>
  PROVE  UNCHANGED <<Life, Phase>>
  BY DEF Life, Phase, Cancelled

LEMMA StartIsLaunch ==
  ASSUME EnvoyInv, EnvoyInv', Start \/ (WatchRestart /\ ~Cancelled)
  PROVE  \E p \in Proc : Promised!Launch(p)
<1>1. cmd = NoProc /\ stopped = "" /\ ~Cancelled /\ StartProcess /\ UNCHANGED <<context, stop, stopped>>
  BY DEF Start, WatchRestart, EnvoyInv, WatchInv, StopInv, WatchAt, Free, TypeOK, Cancelled
<1>2. PICK p \in Unused : proc' = [proc EXCEPT ![p] = "running"]
  BY <1>1 DEF StartProcess
<1>3. p \in Proc /\ Life[p] = "none" /\ Life' = [Life EXCEPT ![p] = "running"]
  BY <1>2 DEF Life, Unused, EnvoyInv, TypeOK, ProcState
<1>4. \A q \in Proc : Life[q] # "running"
  BY <1>1, NoProcIsNone DEF Life, EnvoyInv, TypeOK, ProcState, ProcessInv, Running
<1>5. Phase = "open" /\ UNCHANGED Phase
  BY <1>1 DEF Phase, Cancelled
<1> QED
  BY <1>3, <1>4, <1>5 DEF Promised!Launch, Promised!Nobody

LEMMA ExitIsDeath ==
  ASSUME EnvoyInv, NEW p \in Proc, Exit(p)
  PROVE  Promised!Dies(p)
<1>1. Life[p] = "running" /\ Life' = [Life EXCEPT ![p] = "gone"]
  BY DEF Exit, Life, EnvoyInv, TypeOK, ProcState
<1>2. UNCHANGED Phase
  BY DEF Exit, Phase, Cancelled
<1> QED
  BY <1>1, <1>2 DEF Promised!Dies

LEMMA StopIsClose ==
  ASSUME EnvoyInv, EnvoyInv', StopStep
  PROVE  Promised!Closing \/ Promised!Close \/ UNCHANGED <<Life, Phase>>
<1>1. UNCHANGED Life
  BY DEF StopStep, StopBegin, StopDone, StopFails, StopTimesOut, Life, managerVars
<1>2. CASE stopped' = "ok"
  <2>1. \A p \in Proc : Life[p] # "running"
    BY <1>1, <1>2 DEF EnvoyInv, StopInv, Running, Life, TypeOK, ProcState
  <2>2. Phase # "closed" /\ Phase' = "closed"
    BY <1>2 DEF StopStep, StopBegin, StopDone, StopFails, StopTimesOut, Phase, EnvoyInv, StopInv
  <2> QED
    BY <1>1, <2>1, <2>2 DEF Promised!Close, Promised!Nobody
<1>3. CASE stopped' # "ok"
  <2>1. stopped # "ok" /\ (context' = context \/ context' = "cancelled")
    BY <1>3 DEF StopStep, StopBegin, StopDone, StopFails, StopTimesOut, EnvoyInv, StopInv
  <2>2. UNCHANGED Phase \/ (Phase = "open" /\ Phase' = "closing")
    BY <1>3, <2>1 DEF Phase, Cancelled
  <2> QED
    BY <1>1, <2>2 DEF Promised!Closing
<1> QED
  BY <1>2, <1>3

\* Whichever goroutine starts, kills or waits for an Envoy, the agent sees one
\* process after the other, none started once the manager is told to stop and
\* none alive once Stop has succeeded.
THEOREM ImplementsSupervisor == Spec => Supervises
<1>1. Init => Promised!Init
  BY DEF Init, Promised!Init, Life, Phase, Cancelled
<1>2. EnvoyInv /\ EnvoyInv' /\ [Next]_vars => [Promised!Next]_<<Life, Phase>>
  <2> SUFFICES ASSUME EnvoyInv, EnvoyInv', [Next]_vars
               PROVE  Promised!Next \/ UNCHANGED <<Life, Phase>>
    OBVIOUS
  <2>1. CASE Start \/ (WatchRestart /\ ~Cancelled)
    BY <2>1, StartIsLaunch DEF Promised!Next
  <2>2. CASE Signal
    <3>1. UNCHANGED <<Life>> /\ stopped' = stopped /\ ~Cancelled /\ Cancelled'
      BY <2>2 DEF Signal, Life, Cancelled
    <3> QED
      BY <3>1 DEF Phase, Promised!Next, Promised!Closing
  <2>3. CASE Processes
    BY <2>3, ExitIsDeath DEF Processes, Crashes, Killed, Promised!Next
  <2>4. CASE Waiters
    BY <2>4, Hidden DEF Waiters, WaitReturns, StoreWaitErr, CloseDone, Waiter
  <2>5. CASE WatchLoop /\ ~(WatchRestart /\ ~Cancelled)
    BY <2>5, Hidden
    DEF WatchLoop, WatchRead, WatchChannel, WatchWait, WatchClean, WatchBackoff, WatchRestart, WatchRestartFails
  <2>6. CASE StopStep
    BY <2>6, StopIsClose DEF Promised!Next
  <2>7. CASE UNCHANGED vars
    BY <2>7, Hidden DEF vars
  <2> QED
    BY <2>1, <2>2, <2>3, <2>4, <2>5, <2>6, <2>7 DEF Next
<1> QED
  BY <1>1, <1>2, EnvoyInvariance, PTL DEF Spec, Supervises, Promised!Spec
=============================================================================
