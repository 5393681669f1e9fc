----------------------------- MODULE Supervisor -----------------------------
(***************************************************************************)
(* What envoy.Manager promises the agent, whatever its goroutines do:      *)
(* processes are started one after the other, none once the agent is told  *)
(* to stop, and Stop does not succeed before the last one is gone.         *)
(***************************************************************************)

CONSTANT Proc  \* the processes that may be started

VARIABLES
  life,   \* "none" (not started), "running" or "gone"
  phase   \* "open", "closing" (told to stop) or "closed" (Stop succeeded)

Nobody == \A p \in Proc : life[p] # "running"

Init ==
  /\ life = [p \in Proc |-> "none"]
  /\ phase = "open"

Launch(p) ==
  /\ phase = "open" /\ Nobody /\ life[p] = "none"
  /\ life' = [life EXCEPT ![p] = "running"]
  /\ UNCHANGED phase

\* By itself or killed.
Dies(p) ==
  /\ life[p] = "running"
  /\ life' = [life EXCEPT ![p] = "gone"]
  /\ UNCHANGED phase

Closing ==
  /\ phase = "open" /\ phase' = "closing"
  /\ UNCHANGED life

\* Told to stop and stopped at once, or later.
Close ==
  /\ phase # "closed" /\ Nobody /\ phase' = "closed"
  /\ UNCHANGED life

Next == (\E p \in Proc : Launch(p) \/ Dies(p)) \/ Closing \/ Close

Spec == Init /\ [][Next]_<<life, phase>>
=============================================================================
