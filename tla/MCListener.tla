---------------------------- MODULE MCListener ----------------------------
(* Model-checking instances of Listener.                                   *)
EXTENDS Listener, TLC

CONSTANTS a, b

(* b depends on a.                                                         *)
BDependsOnA == {<<b, a>>}

NoDeps == {}

(* a is watched by the loop unless its start callback chose otherwise; b   *)
(* has a thread of its own.                                                *)
MixedModes == (a :> {"eloop", "none"}) @@ (b :> {"thread"})

LoopMode == (a :> {"eloop"})

CallerSymmetry == Permutations(Callers)

=============================================================================
