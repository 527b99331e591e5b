------------------------------ MODULE SdbusMsg ------------------------------
(***************************************************************************)
(* crtx_sdbus_next_to_dict_item of src/sdbus.c: the next value of a D-Bus  *)
(* message becomes a dictionary item.  A value of a message is a basic one *)
(* or a container: an array, a variant or a dictionary entry.              *)
(***************************************************************************)
EXTENDS Sequences, Integers

LOCAL INSTANCE SequencesExt

CONSTANT Messages   \* the values that are converted

VARIABLE conv   \* the last call: its arguments and what it returned

Containers == {"a", "v", "e"}

NoItem == [key |-> "", type |-> "", v |-> "", dict |-> <<>>]

(* The type of the item for a basic value; "" where there is no case.      *)
ItemType(t) ==
    CASE t \in {"s", "o"} -> "s"
      [] t \in {"h", "b", "q", "u", "y"} -> "u"
      [] t \in {"n", "i"} -> "i"
      [] t = "t" -> "U"
      [] t = "x" -> "I"
      [] t = "d" -> "d"
      [] OTHER -> ""

(* Items of these types have the name of the type for a key.               *)
ItemKey(t) ==
    CASE t = "o" -> "object" [] t = "h" -> "fd" [] t = "b" -> "bool" [] OTHER -> ""

BasicItem(m) ==
    IF ItemType(m.t) = "" THEN [rv |-> 0, item |-> NoItem]
    ELSE [rv |-> 1,
          item |-> [NoItem EXCEPT !.key = ItemKey(m.t), !.type = ItemType(m.t), !.v = m.v]]

(* Faulty variant: the string of the key is freed with the old dictionary. *)
ReducedNoKey(key, value) == value.dict[1]

(* {sv}: the key and the only item of the variant make one item.           *)
Reduced(key, value) == [value.dict[1] EXCEPT !.key = key.v]

IsSv(m) == m.t = "e" /\ m.sub[1].t = "s" /\ m.sub[2].t = "v"

(* A value without a case stays unread: it ends the loop over a container, *)
(* and then sd_bus_message_exit_container fails.                           *)
RECURSIVE NextToDictItem(_, _)
NextToDictItem(m, noReduce) ==
    IF m.t \notin Containers THEN BasicItem(m)
    ELSE LET subs == [i \in DOMAIN m.sub |-> NextToDictItem(m.sub[i], noReduce)]
         IN  IF \E i \in DOMAIN subs : subs[i].rv < 1 THEN [rv |-> -1, item |-> NoItem]
             ELSE [rv |-> 1,
                   item |-> IF IsSv(m) /\ ~noReduce
                            THEN Reduced(subs[1].item, subs[2].item)
                            ELSE [NoItem EXCEPT !.type = "D",
                                                !.dict = [i \in DOMAIN subs |-> subs[i].item]]]

---------------------------------------------------------------------------
NoConv == [msg |-> [t |-> "", v |-> ""], noReduce |-> FALSE, rv |-> 0, item |-> NoItem]

SdbusMsgInit == conv = NoConv

(* One call with a message.                                                *)
ConvertMsg(m, noReduce) ==
    /\ conv = NoConv
    /\ LET r == NextToDictItem(m, noReduce)
       IN  conv' = [msg |-> m, noReduce |-> noReduce, rv |-> r.rv, item |-> r.item]

SdbusMsgNext == \E m \in Messages, noReduce \in BOOLEAN : ConvertMsg(m, noReduce)

---------------------------------------------------------------------------
(* The basic values of a message and of an item, in order.  The key of an  *)
(* item is one of them unless it names a type.                             *)
RECURSIVE MsgLeaves(_)
MsgLeaves(m) ==
    IF m.t \notin Containers THEN << <<m.t, m.v>> >>
    ELSE FlattenSeq([i \in DOMAIN m.sub |-> MsgLeaves(m.sub[i])])

RECURSIVE ItemLeaves(_)
ItemLeaves(it) ==
    (IF it.key \in {"", "object", "fd", "bool"} THEN <<>> ELSE << it.key >>)
        \o (IF it.type = "D" THEN FlattenSeq([i \in DOMAIN it.dict |-> ItemLeaves(it.dict[i])])
            ELSE << it.v >>)

(* sdbus.c, crtx_sdbus_next_to_dict_item: a message all of whose types are *)
(* known is converted, and the items hold its values in their order, with  *)
(* or without the reduction of {sv}; any other message is refused, however *)
(* deep the unknown type is.                                               *)
MessageIsKept ==
    LET leaves == MsgLeaves(conv.msg)
        known == \A i \in DOMAIN leaves : ItemType(leaves[i][1]) # ""
    IN  conv # NoConv =>
          /\ conv.rv = 1 <=> known
          /\ known => ItemLeaves(conv.item) = [i \in DOMAIN leaves |-> leaves[i][2]]

=============================================================================
