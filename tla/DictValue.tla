----------------------------- MODULE DictValue -----------------------------
(***************************************************************************)
(* Reading a number from a dictionary item as another type: crtx_get_value *)
(* and crtx_conv_value of src/dict.c.                                      *)
(*                                                                         *)
(* The types are "u" and "i" (32 bit), "U", "I", "z" and "Z" (64 bit) and  *)
(* "d"; the limits of the narrow ones follow from Half, 2^31 in the code,  *)
(* those of the wide ones from Wide, 2^63: a wide type has twice the bits. *)
(* A double is given by the number of its halves, so that it may have a    *)
(* fraction; infinities and NaN, which are refused like doubles that are   *)
(* too large, are left out.                                                *)
(***************************************************************************)
EXTENDS Integers

CONSTANTS
    Half,     \* half the number of values of a narrow integer
    Refused   \* no value: the function returned 0

ASSUME WidthAssumption == Half \in Nat \ {0} /\ Refused \notin Int

VARIABLE got   \* the last call: what was asked for and what it returned

Wide == 2 * Half * Half

(* The limits of the types, h being Half or Wide.                          *)
UintMax(h) == 2 * h - 1
IntMax(h) == h - 1
IntMin(h) == -h

NumTypes == {"u", "i", "U", "I", "z", "Z", "d"}

(* The values an item of a type can hold, for "d" in halves.               *)
ValuesOf(t) ==
    CASE t = "u" -> 0..UintMax(Half)
      [] t = "i" -> IntMin(Half)..IntMax(Half)
      [] t \in {"U", "z"} -> 0..UintMax(Wide)
      [] t \in {"I", "Z"} -> IntMin(Wide)..IntMax(Wide)
      [] t = "d" -> (4 * IntMin(Wide))..(2 * UintMax(Wide))

(* v, or a refusal.                                                        *)
If(ok, v) == {IF ok THEN v ELSE Refused}

(* Only the low half of the item is copied into the variable that is       *)
(* compared and returned; its high half was never written.                 *)
NarrowUnsigned(v) ==
    LET low == v % (2 * Half)
    IN  {r \in {low + h * 2 * Half : h \in 0..UintMax(Half)} : r < UintMax(Half)}
            \cup {Refused}

(* "I" to "i": bounds and zero excluded.                                   *)
NarrowSigned(v) ==
    If((v < 0 /\ v > IntMin(Half)) \/ (v > 0 /\ v < IntMax(Half)), v)

(* Faulty variant: a negative number is taken for an unsigned one.         *)
UnsignedUnchecked(v, h) == {v % (2 * h)}

(* "i" to "u" and "I" to "U", of half size h: no negative number.          *)
Unsigned(v, h) == If(v >= 0, v)

(* Assigning a double to an integer drops its fraction.                    *)
WholePart(v) == IF v >= 0 THEN v \div 2 ELSE -((-v) \div 2)

(* "d" to "I"; INT64_MAX, as a double, is 2^63.                            *)
FromDouble(v) == If(v < 2 * Wide /\ 2 * IntMin(Wide) < v, WholePart(v))

(* crtx_conv_value: the possible results; some conversions take two steps. *)
ConvValue(dtype, stype, v) ==
    CASE stype = "u" /\ dtype = "U" -> {v}
      [] stype = "U" /\ dtype = "u" -> NarrowUnsigned(v)
      [] stype = "I" /\ dtype = "i" -> NarrowSigned(v)
      [] stype = "i" /\ dtype = "u" -> Unsigned(v, Half)
      [] stype = "I" /\ dtype = "U" -> Unsigned(v, Wide)
      [] stype = "d" /\ dtype = "I" -> FromDouble(v)
      [] stype = "I" /\ dtype = "u" ->
            (UNION {Unsigned(r, Half) : r \in NarrowSigned(v) \ {Refused}})
                \cup (NarrowSigned(v) \cap {Refused})
      [] stype = "d" /\ dtype = "U" ->
            (UNION {Unsigned(r, Wide) : r \in FromDouble(v) \ {Refused}})
                \cup (FromDouble(v) \cap {Refused})
      [] OTHER -> {Refused}

(* crtx_get_item_value and crtx_copy_value: the same type is copied as it  *)
(* is, every other one converted.                                          *)
GetItemValue(dtype, stype, v) ==
    IF dtype = stype THEN {v} ELSE ConvValue(dtype, stype, v)

---------------------------------------------------------------------------
NoCall == [stype |-> "u", value |-> 0, dtype |-> "u", result |-> 0]

ValueInit == got = NoCall

(* crtx_get_value of a key that is present; a behaviour is one call.       *)
GetValue(dtype, stype) ==
    /\ got = NoCall
    /\ \E v \in ValuesOf(stype) :
          \E r \in GetItemValue(dtype, stype, v) :
             got' = [stype |-> stype, value |-> v, dtype |-> dtype, result |-> r]

ValueNext == \E dtype \in NumTypes, stype \in NumTypes : GetValue(dtype, stype)

ValueSpec == ValueInit /\ [][ValueNext]_got

---------------------------------------------------------------------------
(* v halves, rounded towards zero, are w.                                  *)
RoundedTo(v, w) == IF v >= 0 THEN 2 * w \in {v - 1, v} ELSE 2 * w \in {v, v + 1}

(* dict.c, crtx_conv_value ("cannot convert ..."): a number is converted   *)
(* only if the wanted type can hold it, and then it keeps its value; only  *)
(* a double that is read as an integer loses its fraction.  The one        *)
(* exception is "U" to "u", see NarrowUnsigned.                            *)
ConvertedOrRefused ==
    (<<got.stype, got.dtype>> # <<"U", "u">> /\ got.result # Refused) =>
        /\ IF got.stype = "d" /\ got.dtype # "d" THEN RoundedTo(got.value, got.result)
           ELSE got.result = got.value
        /\ got.result \in ValuesOf(got.dtype)

=============================================================================
