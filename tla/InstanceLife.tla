---------------------------- MODULE InstanceLife ----------------------------
(***************************************************************************)
(* What Consul's other users may rely on about one instance id: it appears *)
(* at most once, it may be drained and is then never put back into         *)
(* service, and once it is gone it never returns.                          *)
(***************************************************************************)
CONSTANT InstanceID
VARIABLE life   \* the stage each instance id has reached

Stage == {"unborn", "serving", "draining", "gone"}

Init == life = [i \in InstanceID |-> "unborn"]

Reach(i, stage) == life' = [life EXCEPT ![i] = stage]

Appear(i) == life[i] = "unborn" /\ Reach(i, "serving")
Drain(i)  == life[i] = "serving" /\ Reach(i, "draining")
\* From "unborn": the registration failed and the id is never used again.
Vanish(i) == life[i] # "gone" /\ Reach(i, "gone")

Next == \E i \in InstanceID : Appear(i) \/ Drain(i) \/ Vanish(i)

Spec == Init /\ [][Next]_life
=============================================================================
