------------------------------ MODULE Snapshot ------------------------------
(***************************************************************************)
(* xds.Builder.Build: what a snapshot contains, as a function of the       *)
(* sorted list of instances it is built from, and what Envoy makes of it.  *)
(* Of the order of that list only who comes first in a group matters, so   *)
(* the list is a set, and what comes first is picked by the order of sort  *)
(* keys.  Resources that are the same in every snapshot (the listener,     *)
(* timeouts, retries, circuit breakers) are left out.                      *)
(***************************************************************************)
EXTENDS RouteDoc, FiniteSets

SortKey(i) == <<i.name, i.namespace, i.address, i.port>>

Before(i, j) ==
  LET a == SortKey(i)
      b == SortKey(j)
  IN \E d \in DOMAIN a : a[d] < b[d] /\ \A c \in 1..(d - 1) : a[c] = b[c]

\* groupInstances keys on the name and namespace as they were registered.
Group(i) == <<i.name, i.namespace, i.port>>
Groups(found) == {Group(i) : i \in found}
Members(found, g) == {i \in found : Group(i) = g}

\* A group takes the domain of its first instance; between equal keys the
\* order of Consul's answers decides, which is that of a Go map.
Domains(found) ==
  LET First(g) == {i \in Members(found, g) : \A j \in Members(found, g) : ~Before(j, i)}
      Choices == [Groups(found) -> {i.dns : i \in found}]
  IN {dns \in Choices : \A g \in Groups(found) : \E i \in First(g) : dns[g] = i.dns}

ClusterName(g) == <<Trim(g[1]), Trim(g[2]), g[3]>>

\* The domain alone, and with the port as a gRPC authority has it.
Authorities(dns, port) == {<<dns>>, <<dns, port>>}

VirtualHost(g, dns) == [cluster |-> ClusterName(g), domains |-> Authorities(dns, g[3])]

\* Variant with a mistake: an untrimmed comparison of cluster names.
PriorityRaw(i, localCluster) == IF i.cluster = localCluster THEN 0 ELSE 1

Priority(i, localCluster) == IF Trim(i.cluster) = Trim(localCluster) THEN 0 ELSE 1

LbEndpoint(i, localCluster) ==
  [address |-> i.address, port |-> i.port, zone |-> i.zone, weight |-> i.weight,
   priority |-> Priority(i, localCluster)]

LoadAssignment(found, g, localCluster) ==
  [cluster |-> ClusterName(g),
   endpoints |-> {LbEndpoint(i, localCluster) : i \in Members(found, g)}]

\* dns is a member of Domains(found).
Build(found, dns, localCluster) ==
  [virtualHosts |-> {VirtualHost(g, dns[g]) : g \in Groups(found)},
   assignments |-> {LoadAssignment(found, g, localCluster) : g \in Groups(found)}]

-----------------------------------------------------------------------------
(* Envoy.                                                                  *)

\* A route table in which two virtual hosts share a domain is refused as a
\* whole, and of two resources of one name only one gets into the snapshot.
Accepted(s) ==
  /\ \A v, w \in s.virtualHosts : v # w => v.domains \cap w.domains = {}
  /\ \A a, b \in s.assignments : a # b => a.cluster # b.cluster

\* Traffic goes to the endpoints of the best priority there is.
Reached(s, authority) ==
  LET hosts == {v \in s.virtualHosts : authority \in v.domains}
      found == UNION {a.endpoints : a \in {b \in s.assignments :
                                             \E v \in hosts : v.cluster = b.cluster}}
  IN {x \in found : \A y \in found : x.priority <= y.priority}
=============================================================================
