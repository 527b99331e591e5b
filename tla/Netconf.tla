------------------------------ MODULE Netconf ------------------------------
(***************************************************************************)
(* layer2/netconf.c: the existing interfaces, neighbours and addresses are *)
(* asked for, one kind after the other, while the kernel goes on changing  *)
(* them and reports the changes of the groups the socket is a member of.   *)
(* The application builds its view from the events.                        *)
(*                                                                         *)
(* The kernel has at most one object of each kind.  It puts the answer to  *)
(* a question into the socket when the question is sent, in order with the *)
(* changes it reports; the socket is large enough for them (libnl.c logs   *)
(* an overrun and nothing asks again).                                     *)
(***************************************************************************)
EXTENDS Naturals, Sequences, FiniteSets

CONSTANTS
    MaxChanges   \* bound: changes in the kernel

ASSUME MaxChangesAssumption == MaxChanges \in Nat

VARIABLES
    ncMonitor,   \* monitor_types
    ncQuery,     \* query_existing: 0, 1 or 2
    ncPhase,     \* "new", "joining", "idle" (in the loop) or "stopped"
    ncMember,    \* the groups of the socket
    ncQueried,   \* queried_types
    ncKernel,    \* the kinds of which an object exists
    ncSocket,    \* the messages in the socket
    ncView,      \* the kinds of which the application knows an object
    ncDone,      \* the results of the QUERY_DONE events
    ncChanges    \* the changes so far

netconfVars ==
    <<ncMonitor, ncQuery, ncPhase, ncMember, ncQueried, ncKernel, ncSocket, ncView, ncDone,
      ncChanges>>

Kinds == {"intf", "neigh", "ipv4", "ipv6"}

NetconfInit ==
    /\ ncMonitor \in SUBSET Kinds
    /\ ncQuery \in 0..2
    /\ ncPhase = "new"
    /\ ncMember = {} /\ ncQueried = {}
    /\ ncKernel \in SUBSET Kinds
    /\ ncSocket = <<>> /\ ncView = {} /\ ncDone = <<>> /\ ncChanges = 0

---------------------------------------------------------------------------
(* The kernel.                                                             *)

Existing(k) == [op |-> "add", kind |-> k]

(* A socket with the messages s, after the object of kind k if ks asks for *)
(* it and it exists, ...                                                   *)
Tell(s, ks, k) == IF k \in ks \cap ncKernel THEN Append(s, Existing(k)) ELSE s

(* ... and after the whole answer to a question for the kinds ks.          *)
Dump(s, ks) ==
    LET objects == Tell(Tell(Tell(Tell(s, ks, "intf"), ks, "neigh"), ks, "ipv4"), ks, "ipv6")
    IN  Append(objects, [op |-> "end", kind |-> ks])

(* An object appears or disappears; the members of the group are told.     *)
KernelChanges ==
    /\ ncChanges < MaxChanges
    /\ ncChanges' = ncChanges + 1
    /\ \E k \in Kinds :
          LET there == k \in ncKernel
          IN  /\ ncKernel' = IF there THEN ncKernel \ {k} ELSE ncKernel \cup {k}
              /\ ncSocket' = IF k \notin ncMember THEN ncSocket
                             ELSE Append(ncSocket, [op |-> IF there THEN "del" ELSE "add",
                                                    kind |-> k])
    /\ UNCHANGED <<ncMonitor, ncQuery, ncPhase, ncMember, ncQueried, ncView, ncDone>>

---------------------------------------------------------------------------
(* The listener.                                                           *)

Wanted == ncMonitor \ ncQueried

(* The kinds that crtx_netconf_query_interfaces asks for next: interfaces, *)
(* then neighbours, then the addresses of both families, which also count  *)
(* as asked for together.                                                  *)
NextQuestion ==
    CASE "intf" \in Wanted -> {"intf"}
      [] "intf" \notin Wanted /\ "neigh" \in Wanted -> {"neigh"}
      [] Wanted # {} /\ Wanted \cap {"intf", "neigh"} = {}
             /\ ncQueried \cap {"ipv4", "ipv6"} = {} -> {"ipv4", "ipv6"}
      [] OTHER -> {}

(* crtx_netconf_query_interfaces; rest is what is left in the socket.      *)
(* Sending may fail and is not repeated.                                   *)
QueryInterfaces(rest) ==
    \/ /\ NextQuestion # {}
       /\ ncSocket' = Dump(rest, NextQuestion)
       /\ ncQueried' = ncQueried \cup NextQuestion
    \/ ncSocket' = rest /\ UNCHANGED ncQueried

(* netconf_start_listener; libnl.c posts the state event.                  *)
StartNetconf ==
    /\ ncPhase = "new"
    /\ ncPhase' = "joining"
    /\ UNCHANGED <<ncMonitor, ncQuery, ncMember, ncQueried, ncKernel, ncSocket, ncView, ncDone,
                   ncChanges>>

(* netconf_state_handler joins the groups one after the other ...          *)
JoinGroup ==
    /\ ncPhase = "joining"
    /\ \E k \in ncMonitor \ ncMember : ncMember' = ncMember \cup {k}
    /\ UNCHANGED <<ncMonitor, ncQuery, ncPhase, ncQueried, ncKernel, ncSocket, ncView, ncDone,
                   ncChanges>>

(* Faulty variant: the question does not wait for the groups.              *)
JoinedNot == TRUE

Joined == ncMonitor \subseteq ncMember

(* ... and then asks the first question.                                   *)
StateHandlerEnds ==
    /\ ncPhase = "joining"
    /\ Joined
    /\ ncPhase' = "idle"
    /\ IF ncQuery > 0 THEN QueryInterfaces(ncSocket) ELSE UNCHANGED <<ncSocket, ncQueried>>
    /\ UNCHANGED <<ncMonitor, ncQuery, ncMember, ncKernel, ncView, ncDone, ncChanges>>

(* crtx_libnl_msg2dict.  The dictionary of a neighbour does not say        *)
(* whether it was added or deleted.                                        *)
ReceiveObject ==
    /\ ncPhase = "idle" /\ ncSocket # <<>>
    /\ LET m == Head(ncSocket)
       IN  /\ m.op # "end"
           /\ ncView' = IF m.op = "del" /\ m.kind # "neigh" THEN ncView \ {m.kind}
                        ELSE ncView \cup {m.kind}
    /\ ncSocket' = Tail(ncSocket)
    /\ UNCHANGED <<ncMonitor, ncQuery, ncPhase, ncMember, ncQueried, ncKernel, ncDone, ncChanges>>

(* Faulty variant: the flag only says that something was asked.            *)
AllQueriedAny == ncQueried # {}

AllQueried == ncMonitor \subseteq ncQueried

(* crtx_libnl_msg_end.                                                     *)
ReceiveEnd ==
    /\ ncPhase = "idle" /\ ncSocket # <<>>
    /\ Head(ncSocket).op = "end"
    /\ ncDone' = Append(ncDone, [asked |-> Head(ncSocket).kind, all |-> AllQueried])
    /\ CASE ncQuery > 0 /\ ~AllQueried -> QueryInterfaces(Tail(ncSocket)) /\ UNCHANGED ncPhase
         [] ncQuery = 2 /\ AllQueried ->
                ncPhase' = "stopped" /\ ncSocket' = Tail(ncSocket) /\ UNCHANGED ncQueried
         [] OTHER -> ncSocket' = Tail(ncSocket) /\ UNCHANGED <<ncPhase, ncQueried>>
    /\ UNCHANGED <<ncMonitor, ncQuery, ncMember, ncKernel, ncView, ncChanges>>

(* netconf_stop_listener: the socket is not read any more (what a state    *)
(* event that is still queued adds to it is not seen).                     *)
StopNetconf ==
    /\ ncPhase \in {"joining", "idle"}
    /\ ncPhase' = "stopped"
    /\ UNCHANGED <<ncMonitor, ncQuery, ncMember, ncQueried, ncKernel, ncSocket, ncView, ncDone,
                   ncChanges>>

NetconfNext ==
    \/ KernelChanges \/ StartNetconf \/ JoinGroup \/ StateHandlerEnds \/ ReceiveObject
    \/ ReceiveEnd \/ StopNetconf

NetconfSpec == NetconfInit /\ [][NetconfNext]_netconfVars

---------------------------------------------------------------------------
(* Properties.                                                             *)

Questions ==
    {i \in 1..Len(ncSocket) : ncSocket[i].op = "end"}

Answered == UNION {ncDone[i].asked : i \in 1..Len(ncDone)}

(* netconf.h: QUERY_DONE "returns 1 if all are queried": when it does, the *)
(* answers to all questions have been delivered, and there is one question *)
(* at a time, which the kernel demands, and none is asked twice.           *)
DoneMeansAnswered ==
    /\ \A i \in 1..Len(ncDone) :
          ncDone[i].all <=> ncMonitor \subseteq UNION {ncDone[j].asked : j \in 1..i}
    /\ Cardinality(Questions) <= 1
    /\ \A i, j \in 1..Len(ncDone) : i # j => ncDone[i].asked \cap ncDone[j].asked = {}

(* When everything was answered and the socket is empty, the view of the   *)
(* application is what exists in the kernel, however the kernel changed    *)
(* before, between and after the questions.  Neighbours are left out: a    *)
(* deleted one is reported like a new one.                                 *)
ViewIsComplete ==
    ncPhase = "idle" /\ ncSocket = <<>> /\ ncMonitor \subseteq Answered =>
        \A k \in ncMonitor \ {"neigh"} : k \in ncView <=> k \in ncKernel

(* Both: the questions of the listener give the application the state of   *)
(* the network, and it is told when it has all of it.                      *)
NetconfIsRight == DoneMeansAnswered /\ ViewIsComplete

=============================================================================
