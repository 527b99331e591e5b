------------------------------ MODULE Adapters ------------------------------
(***************************************************************************)
(* The life of a listener of an adapter: the operations of core.c call the *)
(* functions of the adapter, whose calls may fail.  The resources of the   *)
(* listener must be released exactly once, whatever fails and in whichever *)
(* order it is started, stopped and shut down.                             *)
(***************************************************************************)
EXTENDS NetAdapters, DeviceAdapters, ServiceAdapters

VARIABLES
    adapter,   \* the name of the adapter
    life,      \* the state of the listener
    owned,     \* its resources, and what the last operation lost or used wrongly
    during     \* the last operation

adapterVars == <<adapter, life, owned, during>>

AdapterTable ==
    [netlink_raw |-> NetlinkRaw, uevents |-> Uevents, nl_route_raw |-> NlRoute,
     libnl |-> Libnl, netlink_ge |-> Genl, can |-> Can, can_setup_if_only |-> CanIf,
     v4l |-> V4l, evdev |-> Evdev, udev |-> Udev, uio |-> Uio, fanotify |-> Fanotify,
     fanotify_thread |-> FanotifyThread, inotify |-> Inotify, sd_journal |-> Journal,
     mqtt |-> Mqtt, pa |-> Pa, nf_queue |-> Nfq, avahi |-> Avahi, netif |-> Netif,
     netconf |-> Netif, ping |-> Ping, dynamic_evdev |-> DynEvdev, forked_curl |-> ForkedCurl]

Of == AdapterTable[adapter]

(* The variables of a function that are not part of the listener.          *)
Locals ==
    {"event", "data", "dict", "key", "entry", "enumerate", "tmp", "newlink", "op", "helper",
     "pkt", "queue", "msg", "reply", "service", "ref", "string"}

(* A function returns: what only its variables name is lost.               *)
Returned(s) ==
    [s EXCEPT !.held = @ \ Locals, !.stale = @ \ Locals, !.lost = @ \cup (s.held \cap Locals)]

(* The memory of the listener is released; its callback is a part of it.   *)
Discarded(s) ==
    [s EXCEPT !.held = {}, !.stale = {}, !.lost = @ \cup (s.held \ {"cb", "run"})]

Results(f, s) == {<<Returned(o[1]), o[2]>> : o \in Outcomes(f, s)}

AdaptersInit ==
    /\ adapter \in DOMAIN AdapterTable
    /\ life = "new"
    /\ owned = NoResources
    /\ during = "none"

(* An operation of the core begins.                                        *)
Begin(op) == during' = op /\ UNCHANGED adapter

Mine == [owned EXCEPT !.lost = {}, !.bad = {}]

(* crtx_setup_listener.                                                    *)
SetupAdapter ==
    /\ Begin("setup")
    /\ life = "new"
    /\ \E o \in Results(Of.setup, Mine) :
          IF o[2] = "fail"
          THEN life' = "gone" /\ owned' = Discarded(o[1])
          ELSE life' = "stopped" /\ owned' = o[1]

(* The last part of crtx_start_listener: in the mode of the event loop the *)
(* first callback of the descriptor is read and enabled.                   *)
Served(s) ==
    CASE Of.mode = "loop" -> [Used(s, "cb") EXCEPT !.held = @ \cup {"run"}]
      [] Of.mode = "thread" -> [s EXCEPT !.held = @ \cup {"run"}]
      [] OTHER -> s

Started(s) ==
    \E o \in Results(Of.start, s) :
        IF o[2] = "fail"
        THEN life' = "stopped" /\ owned' = o[1]
        ELSE life' = "started" /\ owned' = Served(o[1])

(* crtx_start_listener.                                                    *)
StartAdapter ==
    /\ Begin("start")
    /\ life = "stopped"
    /\ Started(Mine)

(* crtx_stop_listener disables the callback, calls the stop function and   *)
(* waits for the thread.                                                   *)
Stopped(s) ==
    {Returned(o[1]) : o \in Outcomes(Of.stop, [s EXCEPT !.held = @ \ {"run"}])}

StopAdapter ==
    /\ Begin("stop")
    /\ life = "started"
    /\ life' = "stopped"
    /\ owned' \in Stopped(Mine)

(* The handler of the descriptor, or what the thread or a sub-listener     *)
(* calls, while it is served.                                              *)
HandleAdapter ==
    /\ Begin("handle")
    /\ life \in {"started", "stopped"}
    /\ owned.held \cap {"run", "subrun", "wd"} # {}
    /\ \E h \in Of.handlers : \E o \in Results(h, Mine) :
          CASE o[2] = "stop" /\ life = "started" -> life' = "stopped" /\ owned' \in Stopped(o[1])
            [] o[2] = "halted" -> life' = "stopped" /\ owned' = o[1]
            [] OTHER -> owned' = o[1] /\ UNCHANGED life

(* The retry timer of timer.c starts the listener.                         *)
RetryAdapter ==
    /\ Begin("start")
    /\ "retry" \in owned.held
    /\ LET s == [Mine EXCEPT !.held = @ \ {"retry"}]
       IN  IF life = "stopped" THEN Started(s) ELSE owned' = s /\ UNCHANGED life

(* crtx_shutdown_listener, with shutdown_listener_intern.                  *)
ShutdownAdapter ==
    /\ Begin("shutdown")
    /\ life \in {"stopped", "started"}
    /\ life' = "gone"
    /\ \E s \in IF life = "started" THEN Stopped(Mine) ELSE {Mine} :
       \E o \in Results(Of.shutdown, s) :
       \E q \in Results(Of.free, o[1]) : owned' = Discarded(q[1])

AdaptersNext ==
    \/ SetupAdapter \/ StartAdapter \/ StopAdapter \/ HandleAdapter \/ RetryAdapter
    \/ ShutdownAdapter

---------------------------------------------------------------------------
(* Properties.  The code is known to mishandle the resources below in the  *)
(* operations that are named with them, and only there; every other loss   *)
(* or wrong use violates the property.                                     *)

Known(a, op, rs) == [adapter |-> a, op |-> op, res |-> rs]

(* What is lost: the descriptor of a setup that fails after it was opened, *)
(* and what no function releases.  A start that is repeated overwrites the *)
(* descriptor (uio, sd_journal), appends its callback once more (uio,      *)
(* sd_journal, mqtt) or arms a second retry timer (mqtt).                  *)
KnownLost ==
    {Known("netlink_raw", "setup", {"fd"}), Known("fanotify", "setup", {"fd"}),
     Known("fanotify_thread", "setup", {"fd"}), Known("ping", "setup", {"fd"}),
     Known("ping", "shutdown", {"fd"}), Known("uio", "start", {"cb", "fd"}),
     Known("v4l", "handle", {"data"}), Known("v4l", "shutdown", {"controls", "formats"}),
     Known("pa", "setup", {"context", "mainloop"}), Known("pa", "handle", {"helper"}),
     Known("nf_queue", "handle", {"pkt", "queue"}),
     Known("avahi", "setup", {"browser", "bus", "match", "msg", "reply", "sub"}),
     Known("avahi", "handle", {"msg", "ref", "reply", "service"}),
     Known("avahi", "shutdown", {"browser", "bus", "match", "sub", "subrun"}),
     Known("forked_curl", "shutdown", {"sub", "subrun"}),
     Known("can_setup_if_only", "shutdown", {"fd", "link", "sock"}),
     Known("sd_journal", "start", {"cb", "fd", "journal"}),
     Known("sd_journal", "handle", {"cb", "data"}),
     Known("sd_journal", "shutdown", {"journal"}),
     Known("mqtt", "start", {"cb", "retry"}), Known("mqtt", "handle", {"retry"}),
     Known("mqtt", "shutdown", {"retry"})}

(* What is used or released without being held: a descriptor that core.c   *)
(* closes and then the library (libnl, netlink_ge, sd_journal) or that     *)
(* stop and shutdown close (fanotify), a callback that was never appended  *)
(* (can, avahi, dynamic_evdev), a result that is not looked at (udev, uio, *)
(* avahi, pa, sd_journal), the socket of a listener that was not started   *)
(* (can), the thread that the stop has forgotten (pa), the emptied slot of *)
(* the table (inotify) and two loops that do not end (can, fanotify).      *)
KnownBad ==
    {Known("libnl", "shutdown", {"fd"}), Known("netlink_ge", "shutdown", {"fd"}),
     Known("uio", "handle", {"fd"}), Known("fanotify", "handle", {"hang"}),
     Known("fanotify_thread", "stop", {"fd"}),
     Known("fanotify_thread", "handle", {"fd", "hang"}),
     Known("fanotify_thread", "shutdown", {"fd"}),
     Known("can", "start", {"cb", "link"}), Known("can", "handle", {"fd", "hang"}),
     Known("can", "shutdown", {"fd", "sock"}), Known("can_setup_if_only", "start", {"link"}),
     Known("udev", "start", {"monitor"}), Known("udev", "handle", {"monitor"}),
     Known("pa", "handle", {"op"}), Known("pa", "shutdown", {"run"}),
     Known("avahi", "setup", {"browser", "bus"}), Known("avahi", "start", {"cb"}),
     Known("dynamic_evdev", "start", {"cb"}), Known("inotify", "handle", {"emptied"}),
     Known("sd_journal", "start", {"cb"}), Known("sd_journal", "stop", {"fd", "journal"}),
     Known("sd_journal", "handle", {"fd", "journal"}),
     Known("sd_journal", "shutdown", {"fd", "journal"})}

KnownAs(table, rs) ==
    rs = {} \/ \E k \in table : k.adapter = adapter /\ k.op = during /\ rs \subseteq k.res

(* A start that succeeds without the source of the events: it returns 0    *)
(* after an error (can, sd_journal) or does not look (uio, udev).          *)
StartsSilently == {"can", "can_setup_if_only", "sd_journal", "udev", "uio"}

(* A stopped listener that is still served: it has no stop function and    *)
(* its sub-listener goes on (uevents, avahi, dynamic_evdev, forked_curl),  *)
(* or its handler goes on after it has stopped it (mqtt).                  *)
RunsOn == {"avahi", "dynamic_evdev", "forked_curl", "mqtt", "uevents"}

(* Whatever fails in the functions of an adapter, each of its resources is *)
(* released exactly once and used only while it is held, except those that *)
(* the tables name, in the operation they name.                            *)
ReleasedOnce == KnownAs(KnownLost, owned.lost) /\ KnownAs(KnownBad, owned.bad)

(* A listener whose start succeeded has the source of its events, and one  *)
(* that is stopped receives none, except for the adapters named above.     *)
ServedWhileStarted ==
    /\ life = "started" /\ Of.source \notin owned.held => adapter \in StartsSilently
    /\ life = "stopped" /\ owned.held \cap {"run", "subrun"} # {} => adapter \in RunsOn

(* In every order of setup, start, handler, stop, retry and shutdown, and  *)
(* whichever of its calls fail, a listener of an adapter (setup_listener,  *)
(* start_listener, stop_listener, shutdown and the handlers of netlink_raw *)
(* .c, evdev.c and the other adapters) mishandles no resource but those    *)
(* the tables name.                                                        *)
AdaptersAreSound == ReleasedOnce /\ ServedWhileStarted

=============================================================================
