------------------------------ MODULE RouteDoc ------------------------------
(***************************************************************************)
(* Register requests and route documents (model/types.go), and how the     *)
(* registry client compares them.                                          *)
(*                                                                         *)
(* A string is an integer: 0 is the empty one and -s is s with blanks      *)
(* around it.  A method 10 * p + m stands for the path /p/m, of which p    *)
(* may be 0 (/m); 0 is one that does not start with a slash.  A list of    *)
(* strings is the set of its elements: the code sorts and compares it as   *)
(* one.  version stands for version and protocol.                          *)
(***************************************************************************)
EXTENDS Integers

CONSTANT MaxPort  \* 65535

Trim(s) == IF s < 0 THEN -s ELSE s
Blank(s) == Trim(s) = 0

UniqueSortedStrings(list) == {Trim(s) : s \in list} \ {0}

Validate(q) ==
  /\ \A s \in {q.name, q.namespace, q.dns, q.env, q.version} : ~Blank(s)
  /\ q.port \in 1..MaxPort
  /\ q.weight > 0
  /\ q.methods # {} /\ \A m \in q.methods : ~Blank(m)

\* "/p/" for "/p/m"; "/m" has no service part and yields none.
ExtractRoutePrefixes(methods) == {Trim(m) \div 10 : m \in methods} \ {0}

Document(q) ==
  [service |-> q.name, version |-> q.version, namespace |-> q.namespace, port |-> q.port,
   prefixes |-> ExtractRoutePrefixes(q.methods),
   exact_paths |-> UniqueSortedStrings(q.methods)]

Canonicalize(d) ==
  [d EXCEPT !.prefixes = UniqueSortedStrings(@), !.exact_paths = UniqueSortedStrings(@)]

\* Variant with a mistake: names are compared without their blanks.
EqualTrimmed(d, e) ==
  Canonicalize([d EXCEPT !.service = Trim(@)]) = Canonicalize([e EXCEPT !.service = Trim(@)])

Equal(d, e) == Canonicalize(d) = Canonicalize(e)

\* The key of the document in Consul KV, {env}/{namespace}/{name}.
RouteConfigRef(q) == <<Trim(q.env), Trim(q.namespace), Trim(q.name)>>

\* Client.localServices is indexed by trimmed name and port.
LocalKey(q) == <<Trim(q.name), q.port>>

SameRegisterRequest(q, r) ==
  /\ [q EXCEPT !.methods = {}] = [r EXCEPT !.methods = {}]
  /\ UniqueSortedStrings(q.methods) = UniqueSortedStrings(r.methods)
=============================================================================
