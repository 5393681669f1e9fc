---------------------------- MODULE EnvoyManager ----------------------------
(***************************************************************************)
(* envoy.Manager: the Envoy child process, the goroutine that waits for    *)
(* it, the watch loop that starts it again, and Stop.                      *)
(*                                                                         *)
(* Manager.cancel is not nil between Start and the first line of Stop, and *)
(* Manager.ctx becomes nil only where cmd does, so neither is a variable.  *)
(* A started process is a number; cmd.Wait of process p is called by one   *)
(* goroutine, and waitDone is named after the process it belongs to.  The  *)
(* manager's mutex is held across steps by Stop alone; every other locked  *)
(* section is one step.                                                    *)
(***************************************************************************)
EXTENDS Integers

CONSTANTS
  MaxProcs,  \* bound: processes started
  Faults     \* which of "fork" (cmd.Start fails), "crash" (Envoy exits by
             \* itself), "exit0" (Envoy exits without an error as it is
             \* killed), "timeout" (Stop's context runs out), "sigterm" (the
             \* signal cannot be sent) can happen

ASSUME EnvoyConstants ==
  MaxProcs \in Nat /\ Faults \subseteq {"fork", "crash", "exit0", "timeout", "sigterm"}

NoProc == 0
Proc == 1..MaxProcs
ProcOrNone == Proc \cup {NoProc}

VARIABLES
  proc,       \* each process, as the operating system sees it
  waiter,     \* the goroutine of each process that calls cmd.Wait
  cmd,        \* Manager.cmd
  waitDone,   \* Manager.waitDone
  context,    \* the context of the watch loop and of the processes
  watch,      \* watchLoop: where it is and the cmd and waitDone it has read
  stop,       \* Manager.Stop: where it is
  stopped     \* what Stop returned ("": has not)

managerVars == <<cmd, waitDone>>
vars == <<proc, waiter, cmd, waitDone, context, watch, stop, stopped>>

ProcState == {"none", "running", "exited"}
\* waiting: in cmd.Wait.  locking: Wait has returned, waitErr is to be stored.
\* closing: stored, the channel is still open.  closed: it is not.
WaiterState == {"none", "waiting", "locking", "closing", "closed"}
WatchPC == {"off", "read", "channel", "wait", "clean", "backoff", "restart", "returned"}

TypeOK ==
  /\ proc \in [Proc -> ProcState]
  /\ waiter \in [Proc -> WaiterState]
  /\ cmd \in ProcOrNone /\ waitDone \in ProcOrNone
  /\ context \in {"live", "cancelled"}
  /\ watch \in [pc : WatchPC, cmd : ProcOrNone, done : ProcOrNone]
  /\ stop \in {"idle", "waiting", "returned"}
  /\ stopped \in {"", "ok", "error", "timeout"}

Init ==
  /\ proc = [p \in Proc |-> "none"]
  /\ waiter = [p \in Proc |-> "none"]
  /\ cmd = NoProc /\ waitDone = NoProc
  /\ context = "live"
  /\ watch = [pc |-> "off", cmd |-> NoProc, done |-> NoProc]
  /\ stop = "idle" /\ stopped = ""

-----------------------------------------------------------------------------

Cancelled == context = "cancelled"
Free == stop # "waiting"  \* nobody holds Manager.mu across steps
WatchAt(pc) == watch.pc = pc
WatchGoto(pc) == watch' = [watch EXCEPT !.pc = pc]
WatchReturns == watch' = [pc |-> "returned", cmd |-> NoProc, done |-> NoProc]

Unused == {p \in Proc : proc[p] = "none"}

\* startProcessLocked, with the goroutine it starts.
StartProcess ==
  \E p \in Unused :
    /\ \A q \in Unused : p <= q
    /\ proc' = [proc EXCEPT ![p] = "running"]
    /\ waiter' = [waiter EXCEPT ![p] = "waiting"]
    /\ cmd' = p /\ waitDone' = p

\* A command of a cancelled context is not started.
Start ==
  /\ WatchAt("off") /\ ~Cancelled
  /\ StartProcess
  /\ WatchGoto("read")
  /\ UNCHANGED <<context, stop, stopped>>

-----------------------------------------------------------------------------
(* The processes.                                                          *)

Exit(p) ==
  /\ proc[p] = "running"
  /\ proc' = [proc EXCEPT ![p] = "exited"]
  /\ UNCHANGED <<waiter, managerVars, context, watch, stop, stopped>>

Crashes(p) == "crash" \in Faults /\ Exit(p)

\* CommandContext kills the process once the context is cancelled; Stop
\* cancels it before it sends SIGTERM.
Killed(p) == Cancelled /\ Exit(p)

\* The agent was told to stop: main cancels the context Start was given.
Signal ==
  /\ ~Cancelled /\ context' = "cancelled"
  /\ UNCHANGED <<proc, waiter, managerVars, watch, stop, stopped>>

-----------------------------------------------------------------------------
(* The goroutine of cmd.Wait.                                              *)

Waiter(p, from, to) ==
  /\ waiter[p] = from
  /\ waiter' = [waiter EXCEPT ![p] = to]
  /\ UNCHANGED <<proc, managerVars, context, watch, stop, stopped>>

WaitReturns(p) == proc[p] = "exited" /\ Waiter(p, "waiting", "locking")
StoreWaitErr(p) == Free /\ Waiter(p, "locking", "closing")
CloseDone(p) == Waiter(p, "closing", "closed")

Closed(p) == p # NoProc /\ waiter[p] = "closed"

-----------------------------------------------------------------------------
(* watchLoop.                                                              *)

WatchRead ==
  /\ WatchAt("read") /\ Free
  /\ IF cmd # NoProc
       THEN watch' = [watch EXCEPT !.pc = "channel", !.cmd = cmd]
       ELSE WatchReturns
  /\ UNCHANGED <<proc, waiter, managerVars, context, stop, stopped>>

\* m.waitDone is read without the lock.
WatchChannel ==
  /\ WatchAt("channel")
  /\ watch' = [watch EXCEPT !.pc = "wait", !.done = waitDone]
  /\ UNCHANGED <<proc, waiter, managerVars, context, stop, stopped>>

\* Variant with a mistake: the loop does not wait for the exit.
WatchWaitNot ==
  /\ WatchAt("wait")
  /\ WatchGoto("clean")
  /\ UNCHANGED <<proc, waiter, managerVars, context, stop, stopped>>

\* A nil channel is waited for in vain.
WatchWait ==
  /\ WatchAt("wait") /\ Closed(watch.done)
  /\ WatchGoto("clean")
  /\ UNCHANGED <<proc, waiter, managerVars, context, stop, stopped>>

WatchClean ==
  /\ WatchAt("clean") /\ Free
  /\ cmd' = IF cmd = watch.cmd THEN NoProc ELSE cmd
  /\ waitDone' = IF cmd = watch.cmd THEN NoProc ELSE waitDone
  /\ IF Cancelled THEN WatchReturns ELSE WatchGoto("backoff")
  /\ UNCHANGED <<proc, waiter, context, stop, stopped>>

WatchBackoff ==
  /\ WatchAt("backoff")
  /\ WatchGoto("restart") \/ (Cancelled /\ WatchReturns)
  /\ UNCHANGED <<proc, waiter, managerVars, context, stop, stopped>>

\* Variant with a mistake: the context is not looked at again.
WatchRestartAnyway ==
  /\ WatchAt("restart") /\ Free
  /\ StartProcess /\ WatchGoto("read")
  /\ UNCHANGED <<context, stop, stopped>>

\* Variant with a mistake: the loop is left after the restart.
WatchRestartOnce ==
  /\ WatchAt("restart") /\ Free
  /\ IF ~Cancelled
       THEN StartProcess
       ELSE UNCHANGED <<proc, waiter, cmd, waitDone>>
  /\ WatchReturns
  /\ UNCHANGED <<context, stop, stopped>>

WatchRestart ==
  /\ WatchAt("restart") /\ Free
  /\ IF ~Cancelled
       THEN StartProcess /\ WatchGoto("read")
       ELSE UNCHANGED <<proc, waiter, cmd, waitDone>> /\ WatchReturns
  /\ UNCHANGED <<context, stop, stopped>>

\* A failed restart is logged; cmd stays nil and the loop reads it next.
WatchRestartFails ==
  /\ WatchAt("restart") /\ Free /\ ~Cancelled /\ "fork" \in Faults
  /\ WatchGoto("read")
  /\ UNCHANGED <<proc, waiter, managerVars, context, stop, stopped>>

WatchLoop ==
  \/ WatchRead \/ WatchChannel \/ WatchWait \/ WatchClean
  \/ WatchBackoff \/ WatchRestart \/ WatchRestartFails

-----------------------------------------------------------------------------
(* Stop, which holds the mutex from its first to its last line.            *)

\* The context is cancelled even if SIGTERM cannot be sent.
StopBegin ==
  /\ stop = "idle" /\ ~WatchAt("off")
  /\ context' = "cancelled"
  /\ \/ cmd = NoProc /\ stop' = "returned" /\ stopped' = "ok"
     \/ cmd # NoProc /\ stop' = "waiting" /\ UNCHANGED stopped
     \/ cmd # NoProc /\ "sigterm" \in Faults /\ stop' = "returned" /\ stopped' = "error"
  /\ UNCHANGED <<proc, waiter, cmd, waitDone, watch>>

StopDone ==
  /\ stop = "waiting" /\ Closed(waitDone)
  /\ stop' = "returned" /\ stopped' = "ok"
  /\ cmd' = NoProc /\ waitDone' = NoProc
  /\ UNCHANGED <<proc, waiter, context, watch>>

\* cmd.Wait reports the cancelled context of a process that was killed and yet
\* exited without an error; that is no exit to Stop, which keeps cmd.
StopFails ==
  /\ stop = "waiting" /\ Closed(waitDone) /\ "exit0" \in Faults
  /\ stop' = "returned" /\ stopped' = "error"
  /\ UNCHANGED <<proc, waiter, managerVars, context, watch>>

StopTimesOut ==
  /\ stop = "waiting" /\ "timeout" \in Faults
  /\ stop' = "returned" /\ stopped' = "timeout"
  /\ UNCHANGED <<proc, waiter, managerVars, context, watch>>

Processes == \E p \in Proc : Crashes(p) \/ Killed(p)
Waiters == \E p \in Proc : WaitReturns(p) \/ StoreWaitErr(p) \/ CloseDone(p)
StopStep == StopBegin \/ StopDone \/ StopFails \/ StopTimesOut

Next == Start \/ Signal \/ Processes \/ Waiters \/ WatchLoop \/ StopStep

Spec == Init /\ [][Next]_vars

\* Goroutines run on, timers fire and a killed process dies.  Whether Envoy
\* crashes, a fork fails or the agent is stopped is up to the environment.
Fairness ==
  /\ \A p \in Proc : WF_vars(Killed(p)) /\ WF_vars(WaitReturns(p) \/ StoreWaitErr(p) \/ CloseDone(p))
  /\ WF_vars(WatchLoop)
  /\ WF_vars(StopDone) /\ WF_vars(StopTimesOut)

FairSpec == Spec /\ Fairness
-----------------------------------------------------------------------------

Running == {p \in Proc : proc[p] = "running"}

\* Two Envoys would fight for the listener and admin ports: a restart never
\* happens while the process before is alive, whatever Stop and the waiting
\* goroutines are doing.
OneEnvoy == \A p, q \in Running : p = q

\* After Stop has returned without error no Envoy is running and none is
\* started any more, also when Stop came during the back-off of a restart.
StopIsFinal == stopped = "ok" => Running = {}

\* Why: only the process in cmd runs, the loop has seen the exit of the one it
\* is about to replace, and a Stop that succeeded has cancelled the context.
ProcessInv ==
  /\ cmd = waitDone
  /\ \A p \in Running : p = cmd
  /\ \A p \in Proc : waiter[p] \in {"locking", "closing", "closed"} => proc[p] = "exited"

WatchInv ==
  /\ watch.pc \in {"channel", "wait", "clean"} => cmd \in {watch.cmd, NoProc}
  /\ watch.pc \in {"wait", "clean"} => watch.done \in {watch.cmd, NoProc}
  /\ watch.pc = "clean" => Closed(watch.done)
  /\ watch.pc \in {"off", "backoff", "restart"} => cmd = NoProc

StopInv ==
  /\ stop # "idle" => Cancelled /\ watch.pc # "off"
  /\ stop # "returned" => stopped = ""
  /\ stopped = "ok" => Running = {}

EnvoyInv == TypeOK /\ ProcessInv /\ WatchInv /\ StopInv

\* An Envoy that died is started again after the back-off, unless the agent is
\* stopping or a restart that failed has ended the loop; MaxProcs bounds how
\* often it may die here.
LoopOver == WatchAt("returned") /\ cmd = NoProc

Restarted ==
  \A p \in Proc : (cmd = p /\ proc[p] = "exited")
    ~> (Running # {} \/ Cancelled \/ Unused = {} \/ LoopOver)

\* Stop waits for the exit of Envoy: once the process is dead, Stop returns
\* without having to time out.
StopSeesExit == (stop = "waiting") ~> (stop = "returned")

-----------------------------------------------------------------------------
(* What the agent is promised, with the goroutines left out.               *)
Life == [p \in Proc |-> IF proc[p] = "exited" THEN "gone" ELSE proc[p]]
Phase == IF stopped = "ok" THEN "closed" ELSE IF Cancelled THEN "closing" ELSE "open"

Promised == INSTANCE Supervisor WITH life <- Life, phase <- Phase

\* The manager implements Supervisor: whichever goroutine starts a process, it
\* does so only while the agent has not been told to stop and nobody runs.
Supervises == Promised!Spec
=============================================================================
