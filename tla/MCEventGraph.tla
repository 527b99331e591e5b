--------------------------- MODULE MCEventGraph ---------------------------
(* Model-checking instance of EventGraph: see EventGraph.cfg and           *)
(* EventGraphFlush.cfg for the bounds.                                     *)
EXTENDS EventGraph, TLC

(* The events and the producers are interchangeable; the workers are not,  *)
(* as LoopThread is one of them.                                           *)
EventSymmetry == Permutations(Events) \cup Permutations(Producers)

=============================================================================
