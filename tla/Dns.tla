--------------------------------- MODULE Dns ---------------------------------
(***************************************************************************)
(* dns.Server: Start, which runs the UDP listener in a goroutine of its    *)
(* own and the TCP listener itself, and Shutdown, which may come at any    *)
(* point of it.  The two fields Start writes and Shutdown reads are not    *)
(* protected.  Queries are answered from the question alone or forwarded,  *)
(* which changes nothing.                                                  *)
(***************************************************************************)

CONSTANT Faults  \* "dns": a listener finds its port taken

VARIABLES
  listener,  \* the UDP and the TCP server: unset (the field is nil), made (it
             \* has not got to listening), listening, failed or closed
  starter,   \* Start: before the first or the second field, in TCP's
             \* ListenAndServe, waiting for UDP's, or returned
  started,   \* what Start returned ("": has not)
  shutdown,  \* Shutdown: the server it is at, at first UDP's, or its result
  found      \* the fields Shutdown found set

dnsVars == <<listener, starter, started, shutdown, found>>

Net == {"udp", "tcp"}

DnsTypeOK ==
  /\ listener \in [Net -> {"unset", "made", "listening", "failed", "closed"}]
  /\ starter \in {"makeUDP", "makeTCP", "serve", "join", "returned"}
  /\ started \in {"", "ok", "error"}
  /\ shutdown \in {"udp", "tcp", "ok", "error"}
  /\ found \subseteq Net

DnsInit ==
  /\ listener = [n \in Net |-> "unset"]
  /\ starter = "makeUDP" /\ started = ""
  /\ shutdown = "udp" /\ found = {}

Becomes(n, state) == listener' = [listener EXCEPT ![n] = state]

-----------------------------------------------------------------------------
(* Start.                                                                  *)

Make ==
  /\ \/ starter = "makeUDP" /\ Becomes("udp", "made") /\ starter' = "makeTCP"
     \/ starter = "makeTCP" /\ Becomes("tcp", "made") /\ starter' = "serve"
  /\ UNCHANGED <<started, shutdown, found>>

\* ListenAndServe, in either goroutine: UDP's may get to it after Start has
\* returned.
Listen(n) ==
  /\ listener[n] = "made" /\ starter \notin {"makeUDP", "makeTCP"}
  /\ Becomes(n, "listening") \/ ("dns" \in Faults /\ Becomes(n, "failed"))
  /\ UNCHANGED <<starter, started, shutdown, found>>

\* The UDP server is shut down, which does nothing to one not yet listening.
TCPFails ==
  /\ starter = "serve" /\ listener["tcp"] = "failed"
  /\ IF listener["udp"] = "listening" THEN Becomes("udp", "closed") ELSE UNCHANGED listener
  /\ starter' = "returned" /\ started' = "error"
  /\ UNCHANGED <<shutdown, found>>

TCPEnds ==
  /\ starter = "serve" /\ listener["tcp"] = "closed"
  /\ starter' = "join"
  /\ UNCHANGED <<listener, started, shutdown, found>>

\* Only here does a failed UDP listener show.
UDPEnds ==
  /\ starter = "join" /\ listener["udp"] \in {"failed", "closed"}
  /\ starter' = "returned"
  /\ started' = IF listener["udp"] = "failed" THEN "error" ELSE "ok"
  /\ UNCHANGED <<listener, shutdown, found>>

StarterStep == Make \/ (\E n \in Net : Listen(n)) \/ TCPFails \/ TCPEnds \/ UDPEnds

-----------------------------------------------------------------------------
(* Shutdown.                                                               *)

Following(n) == IF n = "udp" THEN "tcp" ELSE "ok"

\* Variant with a mistake: what does not listen counts as shut down.
ShutServerLenient(n, expired) ==
  /\ shutdown = n
  /\ found' = IF listener[n] = "unset" THEN found ELSE found \cup {n}
  /\ IF listener[n] = "listening"
       THEN Becomes(n, "closed") /\ (shutdown' = Following(n) \/ (expired /\ shutdown' = "error"))
       ELSE UNCHANGED listener /\ shutdown' = Following(n)
  /\ UNCHANGED <<starter, started>>

\* A listener is closed at once and its answers waited for; a server that does
\* not listen, yet or any more, is an error.
ShutServer(n, expired) ==
  /\ shutdown = n
  /\ found' = IF listener[n] = "unset" THEN found ELSE found \cup {n}
  /\ IF listener[n] = "listening"
       THEN Becomes(n, "closed") /\ (shutdown' = Following(n) \/ (expired /\ shutdown' = "error"))
       ELSE UNCHANGED listener
            /\ shutdown' = IF listener[n] = "unset" THEN Following(n) ELSE "error"
  /\ UNCHANGED <<starter, started>>

ShutdownStep(expired) == \E n \in Net : ShutServer(n, expired)
-----------------------------------------------------------------------------
\* Why DNSReleased of module Agent holds: a field is set once, and as long as
\* Shutdown has met no error it has closed every server it found.
DnsInv ==
  /\ DnsTypeOK
  /\ starter = "makeUDP" => listener["udp"] = "unset"
  /\ starter \in {"makeUDP", "makeTCP"} => listener["tcp"] = "unset"
  /\ shutdown # "error" => \A n \in found : listener[n] = "closed"
=============================================================================
