------------------------------- MODULE Dict -------------------------------
(***************************************************************************)
(* Dictionaries (src/dict.c) and the payload of an event (src/core.c).     *)
(*                                                                         *)
(* A dictionary is an array of items and a reference counter.  An item has *)
(* a type ("0" for a free item, "n" for the numeric ones, "s", "p", "D";   *)
(* "P" stands for 'p' with the size 0),                                    *)
(* a key, the flag LAST_ITEM, and data: a memory cell or a dictionary.     *)
(* Strings, buffers and copied keys are cells of the heap; an item that    *)
(* was filled with DONT_FREE_DATA refers to memory of the application      *)
(* (Static).  signature_length always equals the size of the array: the    *)
(* one function that breaks this, crtx_append_to_dict, is not declared in  *)
(* dict.h and not modelled.                                                *)
(***************************************************************************)
EXTENDS Naturals, Sequences, FiniteSets

CONSTANTS
    DictIds,   \* dictionaries
    Cells,     \* heap cells for strings, buffers and keys
    Keys,      \* keys
    MaxItems,  \* bound: items of a dictionary
    MaxHeld,   \* bound: references the application holds on a dictionary
    Shapes,    \* kinds of items the application adds, see FillItem
    Misuses,   \* what the application does although the code cannot cope with it
    Nil,       \* no cell, key or dictionary
    Static     \* memory the items do not own

PayloadKeys == {"crtx_raw_data", "crtx_dict_data"}

ASSUME DictAssumption ==
    /\ Nil \notin DictIds \cup Cells \cup Keys /\ Nil \notin PayloadKeys
    /\ Keys \cap PayloadKeys = {}
    /\ Static \notin Cells \cup {Nil}
    /\ IsFiniteSet(DictIds) /\ IsFiniteSet(Cells)
    /\ MaxItems \in Nat /\ MaxHeld \in Nat \ {0}
    /\ Shapes \subseteq
          {"badsize", "number", "keycopy", "static", "buffer", "pointer", "dict"}
    /\ Misuses \subseteq {"replace", "wrap", "unsized"}

VARIABLES
    items,    \* dict->items
    refs,     \* dict->ref_count; 0 for memory that is not allocated
    cells,    \* the heap cells in use
    held,     \* references the application holds
    unrefs,   \* what crtx_dict_unref is still to be called for, Nil for nothing
    payload,  \* event->data
    given,    \* the dictionary that was attached to the event
    wild      \* free() of a cell that is not in use, or use of a freed dict

dictVars == <<items, refs, cells, held, unrefs, payload, given, wild>>

(* calloc, memset: an item of zeros.                                       *)
FreeItem ==
    [type |-> "0", key |-> Nil, kcell |-> Nil, cell |-> Nil, sub |-> Nil,
     last |-> FALSE]

ItemTypes == {"0", "n", "s", "p", "P", "D"}

Items ==
    [type : ItemTypes, key : Keys \cup PayloadKeys \cup {Nil}, kcell : Cells \cup {Nil},
     cell : Cells \cup {Nil, Static}, sub : DictIds \cup {Nil}, last : BOOLEAN]

DictInit ==
    /\ items = [d \in DictIds |-> <<>>]
    /\ refs = [d \in DictIds |-> 0]
    /\ cells = {}
    /\ held = [d \in DictIds |-> 0]
    /\ unrefs = <<>>
    /\ payload = FreeItem
    /\ given = Nil
    /\ wild = FALSE

---------------------------------------------------------------------------
(* Arrays of items.                                                        *)

(* Where a loop with crtx_get_next_item, or the one of crtx_free_dict,     *)
(* ends: at the first LAST_ITEM or at the end of the array.                *)
IterEnd(its) ==
    IF \E i \in DOMAIN its : its[i].last
    THEN CHOOSE i \in DOMAIN its :
            its[i].last /\ \A j \in 1..(i - 1) : ~its[j].last
    ELSE Len(its)

(* crtx_get_item searches the whole array: the first index of a key, or 0. *)
GetItem(its, k) ==
    IF \E i \in DOMAIN its : its[i].key = k
    THEN CHOOSE i \in DOMAIN its :
            its[i].key = k /\ \A j \in 1..(i - 1) : its[j].key # k
    ELSE 0

(* crtx_init_dict with n items.                                            *)
InitItems(n) == [i \in 1..n |-> [FreeItem EXCEPT !.last = (i = n)]]

(* Faulty variant: the old last item keeps its flag.                       *)
ResizeKeepsLast(its) == Append(its, [FreeItem EXCEPT !.last = TRUE])

(* crtx_resize_dict by one item.                                           *)
ResizeDict(its) ==
    Append([i \in DOMAIN its |->
               IF i = Len(its) THEN [its[i] EXCEPT !.last = FALSE] ELSE its[i]],
           [FreeItem EXCEPT !.last = TRUE])

(* crtx_dict_alloc_next_item: the first free item of the loop, or a new    *)
(* one.                                                                    *)
FreeIndexes(its) == {i \in 1..IterEnd(its) : its[i].type = "0"}

AllocNextItem(its) == IF FreeIndexes(its) = {} THEN ResizeDict(its) ELSE its

NextIndex(its) ==
    IF FreeIndexes(its) = {} THEN Len(its) + 1
    ELSE CHOOSE i \in FreeIndexes(its) : \A j \in FreeIndexes(its) : i <= j

(* The items that refer to heap cells as their owner.                      *)
OwnedCells(it) ==
    ({it.kcell} \cup (IF it.type \in {"s", "p", "P"} THEN {it.cell} ELSE {}))
        \cap Cells

SubDicts(its) == [i \in DOMAIN its |-> its[i].sub]

---------------------------------------------------------------------------
(* Filling an item: crtx_fill_data_item_va and _va2.                       *)

(* c: the cells of the data and of the key, where they are needed.         *)
(* The caller's flags replace those of the item, LAST_ITEM included;       *)
(* an integer whose size does not fit its type is refused before that.     *)
FillItem(it, shape, k, c, sub) ==
    CASE shape = "badsize" -> [it EXCEPT !.type = "n", !.key = k]
      [] shape = "number"  -> [FreeItem EXCEPT !.type = "n", !.key = k]
      [] shape = "keycopy" -> [FreeItem EXCEPT !.type = "s", !.key = k,
                                               !.cell = c["data"], !.kcell = c["key"]]
      [] shape = "static"  -> [FreeItem EXCEPT !.type = "s", !.key = k,
                                               !.cell = Static]
      [] shape = "buffer"  -> [FreeItem EXCEPT !.type = "p", !.key = k, !.cell = c["data"]]
      [] shape = "pointer" -> [FreeItem EXCEPT !.type = "P", !.key = k, !.cell = c["data"]]
      [] shape = "dict"    -> [FreeItem EXCEPT !.type = "D", !.key = k, !.sub = sub]

(* What a shape allocates, or takes over from the caller.                  *)
CellsNeeded(shape) ==
    CASE shape \in {"buffer", "pointer"} -> {"data"}
      [] shape = "keycopy" -> {"data", "key"}
      [] OTHER -> {}

(* malloc for every member of S: cells that are not in use; which ones     *)
(* makes no difference.                                                    *)
CanAlloc(S) == Cardinality(S) <= Cardinality(Cells \ cells)

Malloc(S) ==
    CHOOSE c \in [S -> Cells \ cells] : \A x, y \in S : c[x] = c[y] => x = y

---------------------------------------------------------------------------
(* The application's calls.                                                *)

Idle == unrefs = <<>>

(* crtx_init_dict; crtx_create_dict then fills the items one by one.       *)
InitDict(d, n) ==
    /\ Idle
    /\ refs[d] = 0
    /\ refs' = [refs EXCEPT ![d] = 1]
    /\ held' = [held EXCEPT ![d] = 1]
    /\ items' = [items EXCEPT ![d] = InitItems(n)]
    /\ UNCHANGED <<cells, unrefs, payload, given, wild>>

(* crtx_dict_new_item.  A dictionary that becomes an item takes over a     *)
(* reference of the application; dictionaries are not nested in circles.   *)
NewItem(d, shape, k, sub) ==
    /\ Idle
    /\ held[d] > 0
    /\ NextIndex(items[d]) <= MaxItems
    /\ IF shape = "dict"
       THEN /\ sub \in DictIds \ {d}
            /\ held[sub] > 0
            /\ \A i \in DOMAIN items[sub] : items[sub][i].sub = Nil
            /\ \A e \in DictIds : d \notin {items[e][i].sub : i \in DOMAIN items[e]}
            /\ held' = [held EXCEPT ![sub] = @ - 1]
       ELSE /\ sub = Nil
            /\ UNCHANGED held
    /\ CanAlloc(CellsNeeded(shape))
    /\ LET c == Malloc(CellsNeeded(shape))
           its == AllocNextItem(items[d])
           i == NextIndex(items[d])
       IN  /\ items' = [items EXCEPT ![d] =
                            [its EXCEPT ![i] = FillItem(its[i], shape, k, c, sub)]]
           /\ cells' = cells \cup {c[x] : x \in CellsNeeded(shape)}
    /\ UNCHANGED <<refs, unrefs, payload, given, wild>>

(* crtx_dict_remove_item of a key that is present: the data is freed and   *)
(* the item zeroed.                                                        *)
RemoveItem(d, k) ==
    /\ Idle
    /\ held[d] > 0
    /\ LET i == GetItem(items[d], k)
       IN  /\ i > 0
           /\ items' = [items EXCEPT ![d][i] = FreeItem]
           /\ cells' = cells \ OwnedCells(items[d][i])
           /\ wild' = (wild \/ ~ OwnedCells(items[d][i]) \subseteq cells)
           /\ unrefs' = <<items[d][i].sub>>
    /\ UNCHANGED <<refs, held, payload, given>>

(* crtx_dict_copy_item: strings, buffers and allocated keys are duplicated *)
(* (cells c and kc), dictionaries shared; a pointer without a size is      *)
(* shared too and then has two owners.  For the other types the function   *)
(* returns before it sets the type and the key.                            *)
CopiedTypes == {"D", "s", "p", "P"}

CopyItem(dst, src, c, kc) ==
    IF src.type \notin CopiedTypes THEN dst
    ELSE [dst EXCEPT !.type = src.type, !.key = src.key,
                     !.kcell = IF src.kcell = Nil THEN Nil ELSE kc,
                     !.cell = CASE src.type = "D" -> Nil
                                [] src.type = "P" -> src.cell
                                [] OTHER -> c,
                     !.sub = src.sub]

(* The items a copy takes over; they fill the new array from the start,    *)
(* because an item that is not copied leaves its place free.               *)
CopiedIndexes(its) == {i \in 1..IterEnd(its) : its[i].type \in CopiedTypes}

CopyPlace(its, i) == Cardinality({j \in CopiedIndexes(its) : j <= i})

CellsToCopy(its) ==
    {<<i, "data">> : i \in {j \in CopiedIndexes(its) : its[j].type \in {"s", "p"}}}
        \cup {<<i, "key">> : i \in {j \in CopiedIndexes(its) : its[j].kcell # Nil}}

CopiedItems(its, c) ==
    [j \in 1..Len(its) |->
        IF \E i \in CopiedIndexes(its) : CopyPlace(its, i) = j
        THEN LET i == CHOOSE i \in CopiedIndexes(its) : CopyPlace(its, i) = j
             IN  CopyItem(InitItems(Len(its))[j], its[i], c[<<i, "data">>], c[<<i, "key">>])
        ELSE InitItems(Len(its))[j]]

(* Faulty variant: the copy shares dictionaries without a reference.       *)
CopyRefsNone(its, d) == 0

(* crtx_dict_ref for every dictionary item that is copied.                 *)
CopyRefs(its, d) == Cardinality({i \in 1..IterEnd(its) : its[i].sub = d})

(* crtx_dict_create_copy.                                                  *)
CreateCopy(src, dst) ==
    /\ Idle
    /\ held[src] > 0
    /\ refs[dst] = 0
    /\ (\E i \in DOMAIN items[src] : items[src][i].type = "P") => "unsized" \in Misuses
    /\ LET its == items[src]
           c == Malloc(CellsToCopy(its))
       IN  /\ CanAlloc(CellsToCopy(its))
           /\ items' = [items EXCEPT ![dst] = CopiedItems(its, c)]
           /\ cells' = cells \cup {c[x] : x \in CellsToCopy(its)}
           /\ refs' = [d \in DictIds |->
                          IF d = dst THEN 1 ELSE refs[d] + CopyRefs(its, d)]
    /\ held' = [held EXCEPT ![dst] = 1]
    /\ UNCHANGED <<unrefs, payload, given, wild>>

(* crtx_dict_ref.                                                          *)
RefDict(d) ==
    /\ Idle
    /\ held[d] \in 1..(MaxHeld - 1)
    /\ refs' = [refs EXCEPT ![d] = @ + 1]
    /\ held' = [held EXCEPT ![d] = @ + 1]
    /\ UNCHANGED <<items, cells, unrefs, payload, given, wild>>

(* The application drops one of its references.                            *)
UnrefDict(d) ==
    /\ Idle
    /\ held[d] > 0
    /\ held' = [held EXCEPT ![d] = @ - 1]
    /\ unrefs' = <<d>>
    /\ UNCHANGED <<items, refs, cells, payload, given, wild>>

(* crtx_dict_unref; the last reference runs crtx_free_dict, which calls    *)
(* crtx_free_dict_item_data up to the last item and, through it,           *)
(* crtx_dict_unref for the dictionaries inside.                            *)
UnrefStep ==
    /\ unrefs # <<>>
    /\ LET d == Head(unrefs)
           its == SubSeq(items[d], 1, IterEnd(items[d]))
           owned == UNION {OwnedCells(its[i]) : i \in DOMAIN its}
       IN  IF d = Nil
           THEN /\ unrefs' = Tail(unrefs)
                /\ UNCHANGED <<items, refs, cells, wild>>
           ELSE IF refs[d] > 1
           THEN /\ refs' = [refs EXCEPT ![d] = @ - 1]
                /\ unrefs' = Tail(unrefs)
                /\ UNCHANGED <<items, cells, wild>>
           ELSE /\ refs' = [refs EXCEPT ![d] = 0]
                /\ items' = [items EXCEPT ![d] = <<>>]
                /\ cells' = cells \ owned
                /\ wild' = (wild \/ refs[d] = 0 \/ ~ owned \subseteq cells)
                /\ unrefs' = SubDicts(its) \o Tail(unrefs)
    /\ UNCHANGED <<held, payload, given>>

---------------------------------------------------------------------------
(* The payload of an event: raw data, a dictionary, or a dictionary that   *)
(* holds both.                                                             *)

PayloadDict(k, u) == [FreeItem EXCEPT !.type = "D", !.key = k, !.sub = u]

(* crtx_event_set_raw_data; no caller gives it a dictionary.  An event     *)
(* without one takes the data, and forgets what it had; otherwise data and *)
(* former payload move into a new dictionary u, also if the former payload *)
(* is such a dictionary already.                                           *)
SetRawData(u) ==
    LET c == Malloc({"data"})
        raw == FillItem(FreeItem, "buffer", "crtx_raw_data", c, Nil)
    IN  /\ Idle
        /\ CanAlloc({"data"})
        /\ cells' = cells \cup {c["data"]}
        /\ IF payload.type # "D"
           THEN /\ payload.type = "0" \/ "replace" \in Misuses
                /\ payload' = raw
                /\ UNCHANGED <<items, refs>>
           ELSE /\ payload.key = Nil \/ "wrap" \in Misuses
                /\ refs[u] = 0
                /\ refs' = [refs EXCEPT ![u] = 1]
                /\ items' = [items EXCEPT ![u] = <<raw, payload>>]
                /\ payload' = PayloadDict("crtx_dict_data", u)
        /\ UNCHANGED <<held, unrefs, given, wild>>

(* A reference of the application goes over to the event; Nil is none.     *)
TakeOver(d) ==
    /\ d # Nil => held[d] > 0
    /\ held' = [e \in DictIds |-> IF e = d THEN held[e] - 1 ELSE held[e]]
    /\ given' = d

(* crtx_event_set_dict: the payload is the new dictionary, without a key.  *)
SetDict(d) ==
    /\ Idle
    /\ payload.type = "0" \/ "replace" \in Misuses
    /\ TakeOver(d)
    /\ payload' = PayloadDict(Nil, d)
    /\ UNCHANGED <<items, refs, cells, unrefs, wild>>

(* Faulty variant: the raw data stays where the new dictionary is put.     *)
UpgradedSwapped(raw, d, n) ==
    <<PayloadDict("crtx_dict_data", d), raw>> \o InitItems(n)

(* The dictionary that replaces the raw data: raw data, dictionary and n   *)
(* free items.                                                             *)
Upgraded(raw, d, n) ==
    <<raw, [PayloadDict("crtx_dict_data", d) EXCEPT !.last = (n = 0)]>> \o InitItems(n)

(* crtx_event_set_dict_data with n additional fields.  The data dictionary *)
(* d, or none yet, moves into a new dictionary u together with the raw     *)
(* data;                                                                   *)
SetDictDataNew(d, u, n) ==
    /\ Idle
    /\ payload.type # "D"
    /\ refs[u] = 0
    /\ TakeOver(d)
    /\ refs' = [refs EXCEPT ![u] = 1]
    /\ items' = [items EXCEPT ![u] = Upgraded(payload, d, n)]
    /\ payload' = PayloadDict("crtx_dict_data", u)
    /\ UNCHANGED <<cells, unrefs, wild>>

(* or it takes the place of the one there, whose reference is lost.  Of a  *)
(* payload that crtx_event_set_dict set the missing key is compared: a use *)
(* of a null pointer.                                                      *)
SetDictDataAgain(d, n) ==
    LET u == payload.sub
        keyed == payload.key # Nil
        its == [items[u] EXCEPT ![2].sub = d]
    IN  /\ Idle
        /\ payload.type = "D"
        /\ (keyed /\ items[u][2].sub = Nil) \/ "replace" \in Misuses
        /\ TakeOver(d)
        /\ items' = [items EXCEPT ![u] = IF ~keyed THEN @
                                         ELSE IF Len(its) < 2 + n THEN ResizeDict(its)
                                         ELSE its]
        /\ wild' = (wild \/ ~keyed)
        /\ UNCHANGED <<refs, cells, unrefs, payload>>

(* crtx_event_get_payload: the dictionary of the event.                    *)
GetPayload ==
    IF payload.type # "D" THEN Nil
    ELSE IF payload.key = "crtx_dict_data" THEN items[payload.sub][2].sub
    ELSE payload.sub

(* crtx_free_event: the data of the event is freed.                        *)
FreePayload ==
    /\ Idle
    /\ payload.type # "0"
    /\ cells' = cells \ OwnedCells(payload)
    /\ wild' = (wild \/ ~ OwnedCells(payload) \subseteq cells)
    /\ unrefs' = <<payload.sub>>
    /\ payload' = FreeItem
    /\ given' = Nil
    /\ UNCHANGED <<items, refs, held>>

DictNext ==
    \/ UnrefStep \/ FreePayload
    \/ \E d \in DictIds :
          \/ \E n \in 0..1 : InitDict(d, n)
          \/ \E k \in Keys, shape \in Shapes, sub \in DictIds \cup {Nil} :
                NewItem(d, shape, k, sub)
          \/ \E k \in Keys : RemoveItem(d, k)
          \/ RefDict(d) \/ UnrefDict(d) \/ SetRawData(d) \/ SetDict(d)
          \/ \E e \in DictIds : CreateCopy(d, e)
          \/ \E e \in DictIds \cup {Nil}, n \in 0..1 :
                SetDictDataNew(e, d, n) \/ SetDictDataAgain(e, n)

DictSpec == DictInit /\ [][DictNext]_dictVars

---------------------------------------------------------------------------
(* Properties.                                                             *)

DictTypeOK ==
    /\ items \in [DictIds -> Seq(Items)]
    /\ refs \in [DictIds -> Nat]
    /\ cells \subseteq Cells
    /\ held \in [DictIds -> 0..MaxHeld]
    /\ unrefs \in Seq(DictIds \cup {Nil})
    /\ payload \in Items
    /\ given \in DictIds \cup {Nil}
    /\ wild \in BOOLEAN

(* The items of all dictionaries, each with its place.                     *)
Places == UNION {{<<d, i>> : i \in DOMAIN items[d]} : d \in DictIds}

(* dict.c: every reference counter equals the number of references, those  *)
(* of the application, of the items and of the event, also after a copy    *)
(* shared a dictionary and while a nested one is freed; so a dictionary is *)
(* freed exactly when the last of them is dropped.                         *)
RefsAreCounted ==
    \A d \in DictIds :
        refs[d] = held[d]
            + Cardinality({p \in Places : items[p[1]][p[2]].sub = d})
            + (IF payload.sub = d THEN 1 ELSE 0)
            + Cardinality({i \in DOMAIN unrefs : unrefs[i] = d})

(* dict.c: every heap cell in use has exactly one owner that will free it, *)
(* no item refers to a freed one and nothing is freed twice: copies do not *)
(* share memory and removed or freed items leave nothing behind.           *)
MemoryIsOwned ==
    /\ ~wild
    /\ \A c \in Cells :
          Cardinality({p \in Places : c \in OwnedCells(items[p[1]][p[2]])})
              + (IF c \in OwnedCells(payload) THEN 1 ELSE 0)
              = (IF c \in cells THEN 1 ELSE 0)

(* dict.c: a loop with crtx_get_next_item visits every item: LAST_ITEM     *)
(* never stays behind on an item inside the array, so the loop, the search *)
(* by key and crtx_free_dict agree on what a dictionary holds.             *)
LoopsSeeAllItems == \A d \in DictIds : IterEnd(items[d]) = Len(items[d])

(* core.c: crtx_event_get_payload returns the dictionary that was attached *)
(* to the event, whether raw data was set before crtx_event_set_dict_data, *)
(* after crtx_event_set_dict or not at all.  It cannot be asked after      *)
(* crtx_event_set_dict alone, because it compares the key.                 *)
PayloadIsFound == given # Nil /\ payload.key # Nil => GetPayload = given

(* dict.c and crtx_event_set_*: reference counters and heap memory are     *)
(* right over every sequence of calls in which no data of an event is set  *)
(* over other data and no pointer without a size is copied (Misuses).      *)
DictMemory == DictTypeOK /\ RefsAreCounted /\ MemoryIsOwned

(* dict.c and core.c: what was stored is found again, by loops and as the  *)
(* payload of an event, unless raw data is set after                       *)
(* crtx_event_set_dict_data (Misuses).                                     *)
StoredIsFound == LoopsSeeAllItems /\ PayloadIsFound

=============================================================================
