----------------------------- MODULE WriteQueue -----------------------------
(***************************************************************************)
(* The write queue (src/writequeue.c): data that is sent when a non-       *)
(* blocking descriptor takes it.  The application adds an item under the   *)
(* lock of the listener and then triggers the queue or starts it; the      *)
(* event loop calls fd_event_handler when the descriptor is writable and   *)
(* the callback enabled, or once for every trigger.                        *)
(***************************************************************************)
EXTENDS Naturals, Sequences

CONSTANTS
    MaxItems,  \* bound: items the application writes
    Room,      \* items the descriptor takes before it returns EAGAIN
    Partial,   \* write() may take a part of an item
    WriteFails \* write() may fail for another reason than a full buffer

ASSUME WriteQueueAssumption ==
    /\ MaxItems \in Nat
    /\ Room \in Nat \ {0}
    /\ Partial \in BOOLEAN
    /\ WriteFails \in BOOLEAN

VARIABLES
    added,    \* items added so far; the application is between two calls
    wq,       \* the items that are queued
    enabled,  \* default_el_cb.active
    trigs,    \* triggers in the control pipe
    room,     \* what the descriptor takes now
    sent      \* what the reader gets: <<item, whole>>

wqVars == <<added, wq, enabled, trigs, room, sent>>

WriteQueueInit ==
    /\ added = [n |-> 0, tell |-> FALSE]
    /\ wq = <<>>
    /\ enabled = FALSE
    /\ trigs = 0
    /\ room = Room
    /\ sent = <<>>

(* The application: lock, append, unlock.                                  *)
AddItem ==
    /\ added.n < MaxItems
    /\ ~added.tell
    /\ added' = [n |-> added.n + 1, tell |-> TRUE]
    /\ wq' = Append(wq, added.n + 1)
    /\ UNCHANGED <<enabled, trigs, room, sent>>

(* crtx_writequeue_start.                                                  *)
StartQueue ==
    /\ added.tell
    /\ added' = [added EXCEPT !.tell = FALSE]
    /\ enabled' = TRUE
    /\ UNCHANGED <<wq, trigs, room, sent>>

(* crtx_trigger_event_processing.                                          *)
TriggerQueue ==
    /\ added.tell
    /\ added' = [added EXCEPT !.tell = FALSE]
    /\ trigs' = trigs + 1
    /\ UNCHANGED <<wq, enabled, room, sent>>

(* Faulty variant: the queue stops whenever write() failed.                *)
KeepsGoingNever(err) == FALSE

(* fd_event_handler: r is EAGAIN, or -1 after any other error, ENOBUFS     *)
(* included, or what a partial write returned, or the size of the last     *)
(* item.                                                                   *)
KeepsGoing(err) == err = "EAGAIN"

(* Faulty variant: the last item that was written is queued again.         *)
LeftoverWithLast(n) == SubSeq(wq, n, Len(wq))

(* The items that were not written.                                        *)
Leftover(n) == SubSeq(wq, n + 1, Len(wq))

(* crtx_writequeue_default_write_callback in fd_event_handler: n items are *)
(* written.  What is left stays queued, an item that was written in part   *)
(* as a whole; after ENOBUFS the callback triggers itself, after another   *)
(* error ("EIO") nothing does.                                             *)
WriteItems(n, err, triggers) ==
    /\ n <= room
    /\ err = "none" <=> n = Len(wq)
    /\ err \in {"EAGAIN", "ENOBUFS"} => n = room
    /\ err = "partial" => Partial /\ n < room
    /\ err = "EIO" => WriteFails
    /\ wq' = Leftover(n)
    /\ enabled' = KeepsGoing(err)
    /\ room' = IF err \in {"none", "EIO"} THEN room - n ELSE 0
    /\ trigs' = IF err = "ENOBUFS" THEN triggers + 1 ELSE triggers
    /\ sent' = sent \o [i \in 1..n |-> <<wq[i], TRUE>>]
                    \o (IF err = "partial" THEN <<<<wq[n + 1], FALSE>>>> ELSE <<>>)
    /\ UNCHANGED added

Errors == {"none", "EAGAIN", "ENOBUFS", "partial", "EIO"}

(* fd_event_handler, called for a writable descriptor.                     *)
WriteHandler ==
    /\ enabled
    /\ room > 0
    /\ \E n \in 0..Len(wq), err \in Errors : WriteItems(n, err, trigs)

(* fd_event_handler, called for a trigger.                                 *)
TriggeredHandler ==
    /\ trigs > 0
    /\ \E n \in 0..Len(wq), err \in Errors : WriteItems(n, err, trigs - 1)

(* The reader takes data.                                                  *)
ReaderReads ==
    /\ room < Room
    /\ room' = Room
    /\ UNCHANGED <<added, wq, enabled, trigs, sent>>

WriteQueueNext ==
    AddItem \/ StartQueue \/ TriggerQueue \/ WriteHandler \/ TriggeredHandler \/ ReaderReads

WriteQueueFairness ==
    /\ WF_wqVars(WriteHandler)
    /\ WF_wqVars(TriggeredHandler)
    /\ WF_wqVars(ReaderReads)
    /\ WF_wqVars(StartQueue \/ TriggerQueue)

WriteQueueSpec == WriteQueueInit /\ [][WriteQueueNext]_wqVars /\ WriteQueueFairness

---------------------------------------------------------------------------
(* Properties.                                                             *)

WriteQueueTypeOK ==
    /\ added \in [n : 0..MaxItems, tell : BOOLEAN]
    /\ wq \in Seq(1..MaxItems)
    /\ enabled \in BOOLEAN
    /\ trigs \in 0..(MaxItems + 1)
    /\ room \in 0..Room
    /\ sent \in Seq((1..MaxItems) \X BOOLEAN)

(* writequeue.c: the reader gets the items whole, in the order they were   *)
(* added and none twice, and the rest is queued.                           *)
SentInOrder ==
    /\ WriteQueueTypeOK
    /\ \A i \in DOMAIN sent : sent[i] = <<i, TRUE>>
    /\ Len(sent) + Len(wq) = added.n

(* writequeue.c, fd_event_handler: what was added is written, although the *)
(* queue stops itself when it is empty while the application adds an item  *)
(* and starts it ("if errno != EAGAIN the writequeue will stop itself"),   *)
(* and although it stops after ENOBUFS, as long as no other error occurs.  *)
AddedIsSent == (wq # <<>>) ~> (wq = <<>>)

=============================================================================
