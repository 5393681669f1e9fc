------------------------------- MODULE MCMesh -------------------------------
(***************************************************************************)
(* Two agents in two clusters; what the second one was configured with has *)
(* blanks around it.  Both register the service "orders", the first one    *)
(* under two spellings, so that it can come to two documents on one host   *)
(* as well as on two.                                                      *)
(***************************************************************************)
EXTENDS Mesh, TLC

orders == [name |-> 1, namespace |-> 1, port |-> 1, dns |-> 1, env |-> 1,
           weight |-> 1, version |-> 1, methods |-> {11, 12}]
ordersPadded == [orders EXCEPT !.name = -1]

Agents == 1..2
Clusters == [h \in Agents |-> <<2, -1>>[h]]
Zones == [h \in Agents |-> <<1, -1>>[h]]
Envs == [h \in Agents |-> <<1, -1>>[h]]
Requests == [h \in Agents |-> <<{orders, ordersPadded}, {orders}>>[h]]

Runs == [h \in Agents |-> <<2, 1>>[h]]

Handlers == Permutations(Caller)

\* Consul itself, a service without a port, and one of another mesh.
Strangers == {[host |-> 0, run |-> 0, req |-> [orders EXCEPT !.env = 0]],
              [host |-> 0, run |-> 0, req |-> [orders EXCEPT !.port = 0]]}
=============================================================================
