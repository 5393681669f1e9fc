----------------------------- MODULE MCRegistry -----------------------------
(***************************************************************************)
(* Small instances of Registry.  Requests a1 and a2 register the same port *)
(* of one service and differ only in, say, weight; a3 also declares other  *)
(* methods, hence another route document.                                  *)
(***************************************************************************)
EXTENDS Registry, TLC

CONSTANTS i1, i2, i3, c1, c2

Req(key, doc, rest) == [key |-> key, name |-> "svc", doc |-> doc, rest |-> rest]
a1 == Req("svc:1", "doc1", "w1")
a2 == Req("svc:1", "doc1", "w2")
a3 == Req("svc:1", "doc3", "w1")

SamePort == {a1, a2}
OnePort == {a1, a2, a3}
TwoServices == {a1, a2, a3, [key |-> "other:1", name |-> "other", doc |-> "docO", rest |-> "w1"]}

Symmetry == Permutations(InstanceID) \cup Permutations(Caller)
=============================================================================
