------------------------- MODULE MC_TripleManager -------------------------
(* Model-checking instance of TripleManager: two nodes and two ids as     *)
(* model values; the numeric constants are set in each .cfg file.         *)
EXTENDS TripleManager

CONSTANTS n1, n2, n3, i1, i2

MCNode == {n1, n2}

(* Three nodes, for the liveness run with one id.                        *)
MCThreeNodes == {n1, n2, n3}
MCId == {i1, i2}

(* One id, for the liveness run with two rounds: the state space of two   *)
(* ids and two rounds is beyond a run of a few minutes.                   *)
MCOneId == {i1}

(* No faulty peer.                                                         *)
MCNoForged == {}

(* A faulty peer n2 announces one presignature over the ids i1 and i2,    *)
(* whoever initiated them.                                                 *)
MCForged == {[owner |-> n2, t0 |-> i1, t1 |-> i2]}

(* Node n2 crashes: it may stop taking steps at any point, for good,      *)
(* while n1 keeps poking and receiving.                                   *)
MCCrashSpec == Spec /\ FairOn({n1})

(* A generator at the surviving node eventually leaves its map, completed *)
(* or dropped (spec 5, "Timeouts": a stuck peer must not pin a generator  *)
(* forever). TripleGenerator has no started_at and poke() keeps every     *)
(* generator whose protocol waits.                                        *)
SurvivorGeneratorsTerminate == \A i \in Id : i \in Running(n1) ~> i \notin Running(n1)

=============================================================================
