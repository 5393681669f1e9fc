----------------------------- MODULE MCWatcher -----------------------------
(* Instances of Watcher for TLC.                                           *)
EXTENDS Watcher, TLC

CONSTANTS s1, s2, h1, h2

TwoServices == {s1, s2}
TwoHandlers == {h1, h2}
Interchangeable == Permutations(TwoHandlers)
=============================================================================
