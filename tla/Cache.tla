------------------------------- MODULE Cache -------------------------------
(***************************************************************************)
(* The cache task (src/cache.c): it looks up the key of an event before    *)
(* the other handlers of the graph run and stores what they answered in    *)
(* its cleanup, after they ran.  Several pool threads may carry events     *)
(* through the graph at the same time; cache->mutex covers the lookup with *)
(* its callback, and the insertion, each on its own.                       *)
(*                                                                         *)
(* Two uses: "responses" (crtx_cache_on_hit, no on_miss) and "tracking"    *)
(* (on_hit updates or removes the entry, on_miss is                        *)
(* crtx_cache_add_on_miss, which inserts inside the lookup).  The layout   *)
(* is "simple", or "complex" with the fields creation and timeout.  Events *)
(* of a tracking cache carry a dictionary.                                 *)
(***************************************************************************)
EXTENDS Naturals, Sequences, FiniteSets

CONSTANTS
    CacheEvents,  \* events handled by the graph
    CacheKeys,    \* keys of events
    NoKey,        \* create_key failed
    CacheSetups,  \* layouts and uses, as pairs
    Timeout,      \* "timeout" of the configuration, 0 for none
    MaxTime       \* bound: the clock

ASSUME CacheAssumption ==
    /\ NoKey \notin CacheKeys \cup CacheEvents
    /\ CacheSetups \subseteq {"simple", "complex"} \X {"responses", "tracking"}
    /\ Timeout \in Nat /\ MaxTime \in Nat

VARIABLES
    layout,   \* CRTX_CACHE_SIMPLE_LAYOUT or not
    use,      \* which callbacks are set
    entries,  \* cache->entries
    eve,      \* what is known of each event
    clock,    \* get_time
    latest    \* history: the event that last set or removed a tracked key

cacheVars == <<layout, use, entries, eve, clock, latest>>

(* An entry: its key, whether its "key" item is in use (after a removal or *)
(* an expiry it is not and the slot will be reused), value and creation.   *)
Entry(k, v) == [key |-> k, live |-> TRUE, val |-> v, born |-> clock]

NoResponse == [kind |-> "none", by |-> NoKey]

(* An event: its progress, session data (key and whether an entry was      *)
(* found), response, and the age of a response it got from the cache.      *)
NoEvent ==
    [pc |-> "new", key |-> NoKey, hit |-> FALSE, resp |-> NoResponse, age |-> 0]

(* After the cache task: the other handlers are next.                      *)
Handled(k, hit) == [NoEvent EXCEPT !.pc = "handlers", !.key = k, !.hit = hit]

CacheInit ==
    /\ \E setup \in CacheSetups : layout = setup[1] /\ use = setup[2]
    /\ entries = <<>>
    /\ eve = [e \in CacheEvents |-> NoEvent]
    /\ clock = 0
    /\ latest = [k \in CacheKeys |-> NoKey]

FirstOf(S) == CHOOSE i \in S : \A j \in S : i <= j

(* crtx_cache_match_cb_t_strcmp and _regex without regular expressions:    *)
(* the first entry whose key is equal, expired ones included.              *)
Matches(k) == {i \in DOMAIN entries : entries[i].key = k}

Expired(i) ==
    /\ layout = "complex"
    /\ Timeout > 0
    /\ clock > entries[i].born + Timeout

(* Slots whose "key" item is missing or unused.                            *)
UnusedSlots(ents) == {i \in DOMAIN ents : ~ents[i].live}

(* Faulty variant: a slot that is reused keeps the key it had.             *)
AddEntryKeepsKey(ents, k, v) ==
    IF UnusedSlots(ents) = {} THEN Append(ents, Entry(k, v))
    ELSE LET i == FirstOf(UnusedSlots(ents))
         IN  [ents EXCEPT ![i] = Entry(ents[i].key, v)]

(* crtx_cache_add_entry: the first unused slot, or a new one.              *)
AddEntry(ents, k, v) ==
    IF UnusedSlots(ents) = {} THEN Append(ents, Entry(k, v))
    ELSE [ents EXCEPT ![FirstOf(UnusedSlots(ents))] = Entry(k, v)]

(* crtx_dict_copy_item into the response of an event: of a number it       *)
(* copies the value and not the type.                                      *)
CopiedResponse(v) ==
    IF v.kind = "number" THEN [v EXCEPT !.kind = "untyped"] ELSE v

(* crtx_cache_on_hit: the stored response is copied to the event and, as   *)
(* it is not 0, traverse_graph_r skips the other handlers.                 *)
OnHit(e, k, i) ==
    /\ eve' = [eve EXCEPT ![e] =
          [pc |-> "cleanup", key |-> k, hit |-> TRUE,
           resp |-> CopiedResponse(entries[i].val), age |-> clock - entries[i].born]]
    /\ UNCHANGED <<entries, latest>>

(* crtx_cache_remove_entry of an entry.                                    *)
RemovedEntry(en) == [en EXCEPT !.key = NoKey, !.live = FALSE]

(* crtx_cache_update_on_hit exchanges the dictionary of the entry, in the  *)
(* complex layout the one that holds its "key" item.  What it stores is    *)
(* event->data.dict, the wrapper of crtx_event_set_dict_data around the    *)
(* payload, and not the payload as after a miss.                           *)
UpdatedEntry(en, e) ==
    [en EXCEPT !.val = [kind |-> "wrapper", by |-> e], !.live = (layout = "simple")]

(* The application's on_hit of a tracking cache: the update, or the        *)
(* removal for an event that reports one.                                  *)
TrackHit(e, k, i, gone) ==
    /\ entries' = [entries EXCEPT ![i] =
          IF gone THEN RemovedEntry(entries[i]) ELSE UpdatedEntry(entries[i], e)]
    /\ eve' = [eve EXCEPT ![e] = Handled(k, TRUE)]
    /\ latest' = [latest EXCEPT ![k] = IF gone THEN NoKey ELSE e]

(* Faulty variant: the entry of a miss is not stored under the lock of the *)
(* lookup but left to the cleanup.                                         *)
OnMissLate(ents, e, k, gone) ==
    /\ eve' = [eve EXCEPT ![e] = Handled(k, FALSE)]
    /\ entries' = ents
    /\ UNCHANGED latest

(* A miss: without on_miss nothing more happens; a tracking cache stores   *)
(* the payload of the event, unless on_add refuses it.  The cleanup will   *)
(* not store it: the key string was moved to the entry, or on_add refuses  *)
(* again.                                                                  *)
OnMiss(ents, e, k, gone) ==
    LET stored == use = "tracking" /\ ~gone
    IN  /\ eve' = [eve EXCEPT ![e] =
              Handled(IF use = "tracking" THEN NoKey ELSE k, FALSE)]
        /\ entries' = IF stored THEN AddEntry(ents, k, [kind |-> "data", by |-> e])
                      ELSE ents
        /\ latest' = IF stored THEN [latest EXCEPT ![k] = e] ELSE latest

(* crtx_cache_task_handler, from lock to unlock; an entry that is too old  *)
(* gives up its "key" item and the event misses.                           *)
CacheHandle(e, k, gone) ==
    /\ eve[e].pc = "new"
    /\ gone => use = "tracking"
    /\ LET i == FirstOf(Matches(k))
           found == Matches(k) # {}
       IN  \/ /\ k = NoKey
              /\ eve' = [eve EXCEPT ![e] = Handled(NoKey, FALSE)]
              /\ UNCHANGED <<entries, latest>>
           \/ /\ k # NoKey /\ ~found
              /\ OnMiss(entries, e, k, gone)
           \/ /\ k # NoKey /\ found /\ Expired(i)
              /\ OnMiss([entries EXCEPT ![i].live = FALSE], e, k, gone)
           \/ /\ k # NoKey /\ found /\ ~Expired(i)
              /\ IF use = "responses" THEN OnHit(e, k, i) ELSE TrackHit(e, k, i, gone)
    /\ UNCHANGED <<layout, use, clock>>

WithResponse(ev, r) == [ev EXCEPT !.pc = "cleanup", !.resp = r]

(* The handlers behind the cache task answer, or do not; a number is not   *)
(* 0, which would be no answer.                                            *)
CacheCompute(e, kind) ==
    /\ eve[e].pc = "handlers"
    /\ eve' = [eve EXCEPT ![e] =
          WithResponse(@, IF kind = "none" THEN NoResponse ELSE [kind |-> kind, by |-> e])]
    /\ UNCHANGED <<layout, use, entries, clock, latest>>

(* crtx_cache_task_cleanup: the response of an event that found no entry   *)
(* is stored.  A concurrent event of the same key may have stored its own  *)
(* in the meantime; then there are two entries.                            *)
CacheCleanup(e) ==
    /\ eve[e].pc = "cleanup"
    /\ entries' = IF eve[e].key # NoKey /\ ~eve[e].hit /\ eve[e].resp # NoResponse
                  THEN AddEntry(entries, eve[e].key, eve[e].resp)
                  ELSE entries
    /\ eve' = [eve EXCEPT ![e].pc = "done"]
    /\ UNCHANGED <<layout, use, clock, latest>>

(* A processed event is released and its memory used for the next one, as  *)
(* long as no entry holds its response.                                    *)
CacheReuse(e) ==
    /\ eve[e].pc = "done"
    /\ \A i \in DOMAIN entries : entries[i].val.by # e
    /\ \A k \in CacheKeys : latest[k] # e
    /\ \A f \in CacheEvents \ {e} : eve[f].resp.by # e
    /\ eve' = [eve EXCEPT ![e] = NoEvent]
    /\ UNCHANGED <<layout, use, entries, clock, latest>>

CacheTick ==
    /\ clock < MaxTime
    /\ clock' = clock + 1
    /\ UNCHANGED <<layout, use, entries, eve, latest>>

CacheNext ==
    \/ CacheTick
    \/ \E e \in CacheEvents :
          \/ \E k \in CacheKeys \cup {NoKey}, gone \in BOOLEAN : CacheHandle(e, k, gone)
          \/ \E kind \in {"data", "number", "none"} : CacheCompute(e, kind)
          \/ CacheCleanup(e) \/ CacheReuse(e)

CacheSpec == CacheInit /\ [][CacheNext]_cacheVars

---------------------------------------------------------------------------
(* Properties.                                                             *)

Responses ==
    [kind : {"data", "number", "untyped", "wrapper"}, by : CacheEvents] \cup {NoResponse}

CacheTypeOK ==
    /\ layout \in {"simple", "complex"}
    /\ use \in {"responses", "tracking"}
    /\ entries \in Seq([key : CacheKeys \cup {NoKey}, live : BOOLEAN,
                         val : Responses \ {NoResponse}, born : Nat])
    /\ eve \in [CacheEvents ->
                   [pc : {"new", "handlers", "cleanup", "done"},
                    key : CacheKeys \cup {NoKey}, hit : BOOLEAN,
                    resp : Responses, age : Nat]]
    /\ clock \in 0..MaxTime
    /\ latest \in [CacheKeys -> CacheEvents \cup {NoKey}]

(* cache.c: a response taken from the cache was computed for an event of   *)
(* the same key and stored no longer ago than the timeout, although slots  *)
(* are reused for other keys and entries of one key may exist twice.       *)
ServedIsValid ==
    \A e \in CacheEvents :
        eve[e].resp.by \in CacheEvents \ {e} =>
            /\ eve[eve[e].resp.by].key = eve[e].key
            /\ (layout = "complex" /\ Timeout > 0) => eve[e].age <= Timeout

(* cache.c, crtx_cache_add_on_miss: lookup and insertion are one critical  *)
(* section, so a tracked key has one entry, with data of the event that    *)
(* was looked up last, and a removed one has none.                         *)
TrackedOnce ==
    use = "tracking" =>
        \A k \in CacheKeys :
            {entries[i].val.by : i \in Matches(k)} = {latest[k]} \ {NoKey}
              /\ Cardinality(Matches(k)) <= 1

(* cache.c: the cache serves what is valid and tracks each key once.       *)
CacheIsRight == CacheTypeOK /\ ServedIsValid /\ TrackedOnce

=============================================================================
