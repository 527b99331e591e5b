-------------------------------- MODULE Curl --------------------------------
(***************************************************************************)
(* The curl listener (src/curl.c) drives the transfers of libcurl with the *)
(* event loop: libcurl tells socket_callback which sockets and             *)
(* timer_callback which timeout it waits for, and is called back through   *)
(* curl_multi_socket_action; process_curl_infos then reports the transfers *)
(* that ended.                                                             *)
(*                                                                         *)
(* libcurl is external: in a call it moves a transfer on, which then waits *)
(* for its socket, for the timeout or is done, and chooses a new timeout.  *)
(***************************************************************************)
EXTENDS Naturals, FiniteSets

CONSTANTS
    Transfers,     \* crtx_curl_listener objects, one transfer each
    MaxStarts,     \* bound: starts of a transfer
    MaxTimeouts,   \* bound: events in the graph of the timer
    GraphThreads,  \* the graph of the timer is processed by another thread
    CurlFaults     \* calls that may fail: curl_multi_add_handle, the update of the timer

ASSUME CurlAssumption ==
    /\ MaxStarts \in Nat /\ MaxTimeouts \in Nat /\ GraphThreads \in BOOLEAN
    /\ CurlFaults \subseteq {"add", "timer"}

VARIABLES
    xfer,     \* per listener: STARTED, its easy handle, its starts and their ends
    wish,     \* per transfer: what libcurl waits for on its socket
    wake,     \* the timeout libcurl waits for
    csock,    \* per transfer: the callback of its socket and the mask of the loop
    ctimer    \* timer_list: started, armed, expired, its handler, its events

curlVars == <<xfer, wish, wake, csock, ctimer>>

Directions == {{"in"}, {"out"}, {"in", "out"}}

CurlInit ==
    /\ xfer = [t \in Transfers |->
                  [on |-> FALSE, easy |-> "none", starts |-> 0, ended |-> 0]]
    /\ wish = [t \in Transfers |-> {}]
    /\ wake = "off"
    /\ csock = [t \in Transfers |-> [flags |-> {}, active |-> FALSE, mask |-> {}]]
    /\ ctimer = [on |-> FALSE, armed |-> "no", expired |-> FALSE, busy |-> FALSE, events |-> 0]

---------------------------------------------------------------------------
(* The callbacks of libcurl.                                               *)

(* Faulty variant: a timeout of 0 is given to timerfd_settime.             *)
TimerValueZero(ms) == IF ms = "later" THEN "later" ELSE "no"

(* timer_callback: 0, and -1 which means no timeout, become 1 ns.          *)
TimerValue(ms) == IF ms = "later" THEN "later" ELSE "soon"

(* timer_callback with crtx_update_listener, which starts a stopped timer; *)
(* if that fails, the timer stays as it was.                               *)
TimerCallback(ms, tl) ==
    IF ms = "off" /\ wake = "off" THEN {tl}
    ELSE {[tl EXCEPT !.on = TRUE, !.armed = TimerValue(ms), !.expired = FALSE]}
            \cup (IF "timer" \in CurlFaults THEN {tl} ELSE {})

(* crtx_evloop_enable_cb and crtx_evloop_disable_cb: the loop is told.     *)
EnabledSocket(s) == [s EXCEPT !.active = TRUE, !.mask = s.flags]

DisabledSocket(s) == IF s.active THEN [s EXCEPT !.active = FALSE, !.mask = {}] ELSE s

(* Faulty variant: the flags of a callback that is enabled are kept.       *)
UpdateSocketFdOnce(s, what) == IF s.active THEN s ELSE [s EXCEPT !.flags = what]

(* update_socket_fd.                                                       *)
UpdateSocketFd(s, what) == [s EXCEPT !.flags = what]

(* socket_callback: with {} libcurl removes the socket, whose callback is  *)
(* disabled; else it is created or updated, and enabled.                   *)
SocketCallback(s, what) ==
    IF what = {} THEN DisabledSocket([s EXCEPT !.flags = {}])
    ELSE EnabledSocket(UpdateSocketFd(s, what))

---------------------------------------------------------------------------
(* The listeners.                                                          *)

(* init_curl sets up and starts the timer, which is not armed yet.         *)
InitCurl(tl) == [tl EXCEPT !.on = TRUE]

(* crtx_setup_curl_listener; the first one calls init_curl.                *)
SetupTransfer(t) ==
    /\ xfer[t].easy = "none"
    /\ xfer' = [xfer EXCEPT ![t].on = FALSE, ![t].easy = "ready"]
    /\ ctimer' = IF \E u \in Transfers : xfer[u].starts > 0 \/ xfer[u].easy # "none"
                 THEN ctimer ELSE InitCurl(ctimer)
    /\ UNCHANGED <<wish, wake, csock>>

(* crtx_start_listener with start_listener: libcurl wants to be called at  *)
(* once.  curl_multi_add_handle fails without a handle, and perhaps with   *)
(* one; start_listener then returns 0, which is no error for the core, and *)
(* the listener is STARTED without a transfer.                             *)
StartTransfer(t, added) ==
    /\ ~xfer[t].on
    /\ added => xfer[t].easy = "ready"
    /\ added \/ "add" \in CurlFaults
    /\ xfer[t].starts < MaxStarts
    /\ xfer' = [xfer EXCEPT ![t].on = TRUE, ![t].starts = @ + 1,
                            ![t].easy = IF added THEN "added" ELSE @]
    /\ wake' = IF added THEN "now" ELSE wake
    /\ IF added THEN ctimer' \in TimerCallback("now", ctimer) ELSE UNCHANGED ctimer
    /\ UNCHANGED <<wish, csock>>

(* curl_easy_cleanup; a transfer that was started has ended.               *)
CleanedUp(x) ==
    [x EXCEPT !.easy = "none", !.ended = IF x.easy = "added" THEN @ + 1 ELSE @]

(* stop_listener: libcurl removes the socket of the transfer.              *)
StopTransfer(t) ==
    /\ xfer[t].on \/ xfer[t].easy # "none"
    /\ xfer' = [xfer EXCEPT ![t] = [CleanedUp(xfer[t]) EXCEPT !.on = FALSE]]
    /\ wish' = [wish EXCEPT ![t] = {}]
    /\ csock' = [csock EXCEPT ![t] = SocketCallback(csock[t], {})]
    /\ UNCHANGED <<wake, ctimer>>

(* Faulty variant: only the first message of libcurl is read.              *)
ReportedDoneOne(done) == IF done = {} THEN {} ELSE {CHOOSE t \in done : TRUE}

(* process_curl_infos reads all messages: each transfer that is done is    *)
(* reported, by done_callback or an event, and its handle cleaned up.      *)
ReportedDone(done) == done

AddedTransfers == {t \in Transfers : xfer[t].easy = "added"}

(* Transfers of ts that are not done want what libcurl chooses for them.   *)
NewWish(t, ts, done, what) == CASE t \in done -> {} [] t \in ts -> what[t] [] OTHER -> wish[t]

(* curl_multi_socket_action for some transfers, whose new state libcurl    *)
(* chooses, and the callbacks and process_curl_infos after it.  Without    *)
(* transfers there is nothing to wait for.                                 *)
SocketAction(ts, tl) ==
    \E done \in SUBSET ts, what \in [ts -> Directions \cup {{}}], ms \in {"off", "now", "later"} :
        /\ ms # "off" => AddedTransfers \ done # {}
        /\ \A t \in AddedTransfers \ done : NewWish(t, ts, done, what) = {} => ms # "off"
        /\ wish' = [t \in Transfers |-> NewWish(t, ts, done, what)]
        /\ wake' = ms
        /\ csock' = [t \in Transfers |->
                        IF wish'[t] = wish[t] THEN csock[t] ELSE SocketCallback(csock[t], wish'[t])]
        /\ ctimer' \in TimerCallback(ms, tl)
        /\ xfer' = [t \in Transfers |->
                       IF t \in ReportedDone(done) THEN CleanedUp(xfer[t]) ELSE xfer[t]]

---------------------------------------------------------------------------
(* The event loop.                                                         *)

CurlTimerExpires ==
    /\ ctimer.armed # "no"
    /\ ctimer' = [ctimer EXCEPT !.armed = "no", !.expired = TRUE]
    /\ UNCHANGED <<xfer, wish, wake, csock>>

(* timer_fd_event_handler of timer.c: reads the timer and adds an event to *)
(* its graph; then, as it has no interval, stops the timer.                *)
CurlTimerHandler ==
    /\ ctimer.on /\ ctimer.expired /\ ~ctimer.busy
    /\ ctimer.events < MaxTimeouts
    /\ ctimer' = [ctimer EXCEPT !.expired = FALSE, !.busy = TRUE, !.events = @ + 1]
    /\ UNCHANGED <<xfer, wish, wake, csock>>

CurlTimerStops ==
    /\ ctimer.busy
    /\ ctimer' = [ctimer EXCEPT !.busy = FALSE, !.on = FALSE]
    /\ UNCHANGED <<xfer, wish, wake, csock>>

(* The other handlers run in the thread of the event loop, after the       *)
(* handler of the timer.                                                   *)
LoopIsFree == GraphThreads \/ ~ctimer.busy

(* timeout_handler, the task of the graph of the timer.                    *)
TimeoutHandler ==
    /\ ctimer.events > 0
    /\ LoopIsFree
    /\ SocketAction({t \in Transfers : xfer[t].easy = "added" /\ wish[t] = {}},
                    [ctimer EXCEPT !.events = @ - 1])

(* fd_event_callback of a watched socket.                                  *)
FdEventCallback(t) ==
    /\ xfer[t].easy = "added"
    /\ csock[t].mask # {}
    /\ ~ctimer.busy
    /\ SocketAction({t}, ctimer)

CurlNext ==
    \/ CurlTimerExpires \/ CurlTimerHandler \/ CurlTimerStops \/ TimeoutHandler
    \/ \E t \in Transfers :
          \/ FdEventCallback(t)
          \/ ~ctimer.busy /\ (SetupTransfer(t) \/ StopTransfer(t))
          \/ ~ctimer.busy /\ \E added \in BOOLEAN : StartTransfer(t, added)

CurlSpec == CurlInit /\ [][CurlNext]_curlVars

---------------------------------------------------------------------------
(* Properties.                                                             *)

(* A timeout is armed, has expired or its event is queued; the loop        *)
(* watches a socket for what libcurl asked for last; a transfer that waits *)
(* for neither was reported.                                               *)
CurlIsDriven ==
    /\ \A t \in Transfers : xfer[t].easy = "added" => wish[t] # {} \/ wake # "off"
    /\ wake # "off" =>
          \/ ctimer.on /\ (ctimer.armed # "no" \/ ctimer.expired)
          \/ ctimer.events > 0
    /\ \A t \in Transfers : csock[t].mask = wish[t]

(* A listener that counts as started has a transfer that is still to end,  *)
(* and it ends exactly once, by its report or a stop.                      *)
EndsOnce ==
    \A t \in Transfers :
        xfer[t].starts = xfer[t].ended + (IF xfer[t].easy = "added" THEN 1 ELSE 0)

(* curl.c: the listener always waits for what libcurl waits for, although  *)
(* every expiry stops the timer and "setting both fields to 0 would        *)
(* deactivate the timer" (timer_callback, socket_callback, curl.c 203-421),*)
(* and process_curl_infos and stop_listener end each started transfer      *)
(* exactly once.                                                           *)
TransfersAreDriven == CurlIsDriven /\ EndsOnce

=============================================================================
