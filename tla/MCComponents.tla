---------------------------- MODULE MCComponents ----------------------------
(***************************************************************************)
(* Components whose properties are invariants, for TLC: the linked lists,  *)
(* the dictionaries, the conversion of numbers and of D-Bus messages, the  *)
(* response cache, the curl listener, the adapters and the queries of      *)
(* netconf.  They share no state, so one behaviour exercises one of them   *)
(* (part) and the others keep their initial state.                         *)
(***************************************************************************)
EXTENDS Lists, Dict, DictValue, Cache, SdbusMsg, Curl, Adapters, Netconf, TLC

VARIABLE part   \* the component of this behaviour

componentVars == <<listVars, dictVars, got, cacheVars, conv, curlVars, adapterVars, netconfVars>>

(* Init of a component that is not exercised is one state.                 *)
ComponentsInit ==
    /\ part \in {"lists", "dict", "value", "cache", "message", "curl", "adapters", "netconf"}
    /\ ListsInit /\ (part # "lists" => kind = "dll")
    /\ DictInit
    /\ ValueInit
    /\ CacheInit /\ (part # "cache" => <<layout, use>> = <<"simple", "responses">>)
    /\ SdbusMsgInit
    /\ CurlInit
    /\ AdaptersInit /\ (part # "adapters" => adapter = "evdev")
    /\ NetconfInit /\ (part # "netconf" => <<ncMonitor, ncQuery, ncKernel>> = <<{}, 0, {}>>)

(* The other components keep their state.                                  *)
Only(p) ==
    /\ part = p
    /\ IF p = "lists" THEN TRUE ELSE UNCHANGED listVars
    /\ IF p = "dict" THEN TRUE ELSE UNCHANGED dictVars
    /\ IF p = "value" THEN TRUE ELSE UNCHANGED got
    /\ IF p = "cache" THEN TRUE ELSE UNCHANGED cacheVars
    /\ IF p = "message" THEN TRUE ELSE UNCHANGED conv
    /\ IF p = "curl" THEN TRUE ELSE UNCHANGED curlVars
    /\ IF p = "adapters" THEN TRUE ELSE UNCHANGED adapterVars
    /\ IF p = "netconf" THEN TRUE ELSE UNCHANGED netconfVars

ComponentsNext ==
    /\ \/ Only("lists") /\ ListsNext
       \/ Only("dict") /\ DictNext
       \/ Only("value") /\ ValueNext
       \/ Only("cache") /\ CacheNext
       \/ Only("message") /\ SdbusMsgNext
       \/ Only("curl") /\ CurlNext
       \/ Only("adapters") /\ AdaptersNext
       \/ Only("netconf") /\ NetconfNext
    /\ UNCHANGED part

ComponentsSpec == ComponentsInit /\ [][ComponentsNext]_<<componentVars, part>>

MCPosition == [n \in Nodes |-> IF n = 1 THEN 0 ELSE 1]

MCSetups ==
    {<<"simple", "responses">>, <<"complex", "responses">>, <<"simple", "tracking">>}

MCBasic ==
    {[t |-> "s", v |-> "text"], [t |-> "u", v |-> "1"], [t |-> "b", v |-> "0"],
     [t |-> "g", v |-> "sig"]}

MCVariants(vals) == {[t |-> "v", sub |-> <<x>>] : x \in vals}

MCArrays(vals) ==
    {[t |-> "a", sub |-> s] :
        s \in {<<>>} \cup {<<x>> : x \in vals} \cup {<<x, y>> : x \in vals, y \in vals}}

MCEntries(vals) == {[t |-> "e", sub |-> <<[t |-> "s", v |-> "key"], x>>] : x \in vals}

(* Entries with and without a variant, arrays of entries and these inside  *)
(* the variant of an entry.                                                *)
MCMessages ==
    LET sv == MCEntries(MCVariants(MCBasic))
    IN  MCBasic \cup MCVariants(MCBasic) \cup MCEntries(MCBasic) \cup sv
            \cup MCArrays(sv) \cup MCEntries(MCVariants(MCArrays(sv)))
            \cup MCArrays(MCEntries(MCVariants(MCArrays(MCBasic \ {[t |-> "b", v |-> "0"]}))))

(* The configuration uses one set for dictionaries and events.             *)
MCSymmetry == Permutations(DictIds) \cup Permutations(CacheKeys)

=============================================================================
