------------------------------- MODULE Lists -------------------------------
(***************************************************************************)
(* The linked lists of libcortex as pointer structures: the doubly linked  *)
(* crtx_dll and the singly linked crtx_ll of src/llist.c, and the list of  *)
(* tasks of a graph (crtx_add_task and crtx_free_task of src/core.c).      *)
(*                                                                         *)
(* A list is a record [head, next, prev]; next and prev are the pointers   *)
(* of all nodes, in the list or not.  order is what the callers expect:    *)
(* the nodes of the list from first to last.                               *)
(***************************************************************************)
EXTENDS Naturals, Sequences, FiniteSets

CONSTANTS
    Nodes,        \* list nodes
    NilNode,        \* the null pointer
    Position      \* task->position of the nodes that are used as tasks

ASSUME NilAssumption == NilNode \notin Nodes /\ IsFiniteSet(Nodes)

ASSUME PositionAssumption == Position \in [Nodes -> Nat]

VARIABLES
    kind,   \* "dll", "sll" or "tasks": crtx_dll, crtx_ll or graph->tasks
    list,   \* the list
    order   \* its expected contents

listVars == <<kind, list, order>>

Pointers == [Nodes -> Nodes \cup {NilNode}]

EmptyList ==
    [head |-> NilNode, next |-> [n \in Nodes |-> NilNode], prev |-> [n \in Nodes |-> NilNode]]

ListsInit ==
    /\ kind \in {"dll", "sll", "tasks"}
    /\ list = EmptyList
    /\ order = <<>>

---------------------------------------------------------------------------
(* Walking a list: the i-th node after the head.                           *)

Walk(l) ==
    LET at[i \in 0..Cardinality(Nodes)] ==
            IF i = 0 THEN l.head
            ELSE IF at[i - 1] = NilNode THEN NilNode ELSE l.next[at[i - 1]]
    IN  at

(* The nodes a loop over the list visits before it meets the null pointer. *)
Visited(l) == {Walk(l)[i] : i \in 0..Cardinality(Nodes)} \ {NilNode}

(* The last node: where the loop of the append functions stops.            *)
LastNode(l) == CHOOSE n \in Visited(l) : l.next[n] = NilNode

---------------------------------------------------------------------------
(* llist.c, for the list l and the node n.                                 *)

(* append: a node the loop passes before the last one is refused           *)
(* (-EALREADY).                                                            *)
AppendNode(l, n) ==
    IF l.head = NilNode
    THEN [head |-> n, next |-> [l.next EXCEPT ![n] = NilNode],
          prev |-> [l.prev EXCEPT ![n] = NilNode]]
    ELSE IF n \in Visited(l) /\ l.next[n] # NilNode
    THEN l
    ELSE LET it == LastNode(l)
         IN  [head |-> l.head, next |-> [[l.next EXCEPT ![it] = n] EXCEPT ![n] = NilNode],
              prev |-> [l.prev EXCEPT ![n] = it]]

(* insert: n before the node b of a crtx_dll.                              *)
InsertNode(l, n, b) ==
    [head |-> IF l.prev[b] = NilNode THEN n ELSE l.head,
     next |-> [m \in Nodes |-> IF m = n THEN b ELSE IF m = l.prev[b] THEN n ELSE l.next[m]],
     prev |-> [m \in Nodes |-> IF m = n THEN l.prev[b] ELSE IF m = b THEN n ELSE l.prev[m]]]

(* Faulty variant: the successor of the unlinked head keeps its prev.      *)
UnlinkDllForgetsPrev(l, n) ==
    IF l.head = n
    THEN [l EXCEPT !.head = l.next[n], !.next[n] = NilNode, !.prev[n] = NilNode]
    ELSE [l EXCEPT
            !.next = [m \in Nodes |-> IF m = n THEN NilNode
                                      ELSE IF m = l.prev[n] THEN l.next[n]
                                      ELSE @[m]],
            !.prev[n] = NilNode]

(* unlink_intern of a crtx_dll.                                            *)
UnlinkDll(l, n) ==
    [head |-> IF l.head = n THEN l.next[n] ELSE l.head,
     next |-> [m \in Nodes |->
                  IF m = n THEN NilNode
                  ELSE IF m = l.prev[n] /\ l.head # n THEN l.next[n]
                  ELSE l.next[m]],
     prev |-> [m \in Nodes |->
                  IF m = n THEN NilNode
                  ELSE IF m = l.next[n] THEN l.prev[n]
                  ELSE l.prev[m]]]

(* unlink_intern of a crtx_ll: without a predecessor at hand the list is   *)
(* searched for one, and an unknown node is refused (-ENOENT).             *)
UnlinkSll(l, n) ==
    IF l.head = n
    THEN [head |-> l.next[n], next |-> [l.next EXCEPT ![n] = NilNode], prev |-> l.prev]
    ELSE IF \E i \in Visited(l) : l.next[i] = n
    THEN LET i == CHOOSE i \in Visited(l) : l.next[i] = n
         IN  [head |-> l.head, prev |-> l.prev,
              next |-> [[l.next EXCEPT ![i] = l.next[n]] EXCEPT ![n] = NilNode]]
    ELSE l

---------------------------------------------------------------------------
(* core.c: the tasks of a graph, ordered by position.                      *)

(* crtx_add_task: before the first task of a higher position.  The prev    *)
(* pointer of the old head is left as it is.                               *)
AddTaskNode(l, n) ==
    LET later == {m \in Visited(l) : Position[n] < Position[m]}
        first == CHOOSE m \in later : \A k \in Visited(l) : l.next[k] = m => k \notin later
    IN  IF later = {} THEN AppendNode(l, n)
        ELSE IF first = l.head
        THEN [head |-> n, next |-> [l.next EXCEPT ![n] = first],
              prev |-> [l.prev EXCEPT ![n] = NilNode]]
        ELSE LET p == CHOOSE m \in Visited(l) : l.next[m] = first
             IN  [head |-> l.head, next |-> [[l.next EXCEPT ![n] = first] EXCEPT ![p] = n],
                  prev |-> [[l.prev EXCEPT ![n] = p] EXCEPT ![first] = n]]

(* crtx_free_task: unlinked by the predecessor in the list.                *)
FreeTaskNode(l, n) ==
    [head |-> IF l.head = n THEN l.next[n] ELSE l.head,
     next |-> [m \in Nodes |-> IF m # n /\ l.next[m] = n /\ m \in Visited(l)
                               THEN l.next[n] ELSE l.next[m]],
     prev |-> l.prev]

---------------------------------------------------------------------------
(* What the callers expect of the operations.                              *)

Elements(s) == {s[i] : i \in DOMAIN s}

LastOf(s) == IF s = <<>> THEN NilNode ELSE s[Len(s)]

IndexOf(s, n) == CHOOSE i \in DOMAIN s : s[i] = n

WithoutAt(s, i) == [j \in 1..(Len(s) - 1) |-> IF j < i THEN s[j] ELSE s[j + 1]]

Removed(s, n) == IF n \in Elements(s) THEN WithoutAt(s, IndexOf(s, n)) ELSE s

Inserted(s, n, i) ==
    [j \in 1..(Len(s) + 1) |-> IF j < i THEN s[j] ELSE IF j = i THEN n ELSE s[j - 1]]

InsertedBefore(s, n, b) == Inserted(s, n, IndexOf(s, b))

(* Where a task belongs: behind those of its position and lower ones.      *)
IsPlace(s, n, i) ==
    \A j \in DOMAIN s : IF j < i THEN Position[s[j]] <= Position[n]
                        ELSE Position[n] < Position[s[j]]

InsertedByPosition(s, n) ==
    Inserted(s, n, CHOOSE i \in 1..(Len(s) + 1) : IsPlace(s, n, i))

---------------------------------------------------------------------------
(* append_new, and append of a node that is there already: refused, except *)
(* for the last node, which the loop does not look at.  In a crtx_ll that  *)
(* changes nothing; in a crtx_dll it is left out here, see the README.     *)
ListAppend(n) ==
    /\ kind \in {"dll", "sll"}
    /\ kind = "dll" => n # LastOf(order)
    /\ list' = AppendNode(list, n)
    /\ order' = IF n \in Elements(order) THEN order ELSE Append(order, n)
    /\ UNCHANGED kind

(* insert_new.                                                             *)
ListInsert(n, b) ==
    /\ kind = "dll"
    /\ n \notin Elements(order)
    /\ b \in Elements(order)
    /\ list' = InsertNode(list, n, b)
    /\ order' = InsertedBefore(order, n, b)
    /\ UNCHANGED kind

(* unlink, unlink_data and unlink_data2, of members and of strangers.      *)
ListUnlink(n) ==
    /\ kind \in {"dll", "sll"}
    /\ list' = IF kind = "dll" THEN UnlinkDll(list, n) ELSE UnlinkSll(list, n)
    /\ order' = Removed(order, n)
    /\ UNCHANGED kind

(* crtx_create_task; crtx_create_task_unique finds a task that is already  *)
(* there and leaves the list alone.                                        *)
TaskCreate(n) ==
    /\ kind = "tasks"
    /\ n \notin Elements(order)
    /\ list' = AddTaskNode(list, n)
    /\ order' = InsertedByPosition(order, n)
    /\ UNCHANGED kind

(* crtx_free_task; the memory may be reused for a later task.              *)
TaskFree(n) ==
    /\ kind = "tasks"
    /\ n \in Elements(order)
    /\ list' = FreeTaskNode(list, n)
    /\ order' = Removed(order, n)
    /\ UNCHANGED kind

ListsNext ==
    \E n \in Nodes :
        \/ ListAppend(n) \/ ListUnlink(n)
        \/ \E b \in Nodes : ListInsert(n, b)
        \/ TaskCreate(n) \/ TaskFree(n)

ListsSpec == ListsInit /\ [][ListsNext]_listVars

---------------------------------------------------------------------------
(* Properties.                                                             *)

ListsTypeOK ==
    /\ kind \in {"dll", "sll", "tasks"}
    /\ list \in [head : Nodes \cup {NilNode}, next : Pointers, prev : Pointers]
    /\ order \in Seq(Nodes)

(* llist.c: whatever sequence of append, insert and unlink calls was made, *)
(* a loop over next visits the members in order and ends, and the prev     *)
(* pointers of a crtx_dll, by which unlink works, lead back the same way.  *)
(* core.c: traverse_graph_r runs the tasks by ascending position, and      *)
(* those of one position in the order of their creation.                   *)
ListsAreChains ==
    /\ ListsTypeOK
    /\ \A i \in 0..Cardinality(Nodes) :
          Walk(list)[i] = IF i < Len(order) THEN order[i + 1] ELSE NilNode
    /\ kind = "dll" =>
          \A i \in DOMAIN order :
             list.prev[order[i]] = IF i = 1 THEN NilNode ELSE order[i - 1]
    /\ kind = "tasks" =>
          \A i, j \in DOMAIN order : i < j => Position[order[i]] <= Position[order[j]]

=============================================================================
