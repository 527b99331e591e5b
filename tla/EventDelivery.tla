--------------------------- MODULE EventDelivery ---------------------------
(***************************************************************************)
(* What a graph of libcortex promises for the events that are added to it  *)
(* (src/core.c: crtx_add_event, crtx_process_graph and                     *)
(* crtx_dereference_event_release), without threads, references or locks.  *)
(* Events are taken in the order they were accepted, one after the other   *)
(* or several at a time; each is handled at most once, and released after  *)
(* that or, if the graph did not accept it, without being handled.         *)
(***************************************************************************)
EXTENDS Naturals, Sequences

CONSTANT Events

VARIABLES
    order,   \* accepted events that nobody has taken
    fate     \* what has become of an event: "unborn", "made", "waiting",
             \* "taken", "handled" or "released"

deliveryVars == <<order, fate>>

Init ==
    /\ order = <<>>
    /\ fate = [e \in Events |-> "unborn"]

Make(e) ==
    /\ fate[e] = "unborn"
    /\ fate' = [fate EXCEPT ![e] = "made"]
    /\ UNCHANGED order

Accept(e) ==
    /\ fate[e] = "made"
    /\ order' = Append(order, e)
    /\ fate' = [fate EXCEPT ![e] = "waiting"]

Take ==
    /\ order # <<>>
    /\ fate[Head(order)] = "waiting"
    /\ order' = Tail(order)
    /\ fate' = [fate EXCEPT ![Head(order)] = "taken"]

Handle(e) ==
    /\ fate[e] = "taken"
    /\ fate' = [fate EXCEPT ![e] = "handled"]
    /\ UNCHANGED order

Release(e) ==
    /\ fate[e] \in {"made", "handled"}
    /\ fate' = [fate EXCEPT ![e] = "released"]
    /\ UNCHANGED order

Next == Take \/ \E e \in Events : Make(e) \/ Accept(e) \/ Handle(e) \/ Release(e)

Spec == Init /\ [][Next]_deliveryVars

=============================================================================
