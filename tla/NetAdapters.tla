---------------------------- MODULE NetAdapters ----------------------------
(***************************************************************************)
(* The functions of the network listeners: netlink_raw.c, uevents.c,       *)
(* nl_route_raw.c, libnl.c, netlink_ge.c, can.c.                           *)
(***************************************************************************)
EXTENDS AdapterSteps

---------------------------------------------------------------------------
(* netlink_raw.c.                                                          *)

NetlinkRawSetup == <<Get("fd", <<Fail>>), Try(<<Fail>>)>> \o InitListener

(* netlink_raw_generic_read and netlink_el_event_handler; the callbacks    *)
(* for a message are those of the listener that uses this one.             *)
NetlinkRawRead == <<Use("fd"), Try(<<Fail>>)>>

NetlinkRaw == Adapter(NetlinkRawSetup, <<>>, <<>>, AutoClose, <<>>, {NetlinkRawRead}, "loop", "fd")

---------------------------------------------------------------------------
(* uevents.c: a listener on top of netlink_raw.                            *)

(* A failure ends the process.                                             *)
UeventsSetup == <<New("sub")>>

UeventsStart == <<StartSub(<<Fail>>)>>

UeventsShutdown == ShutdownSub

UeventsRead == <<Try(<<Ok>>), New("data")>> \o Push

(* crtx_uevents_raw2dict, called by a task; the dictionary is the caller's.*)
UeventsRaw2Dict ==
    <<Try(<<Fail>>), New("dict"),
      Loop(<<Try(<<Put("dict"), Fail>>), New("key"), Give("key")>>), Give("dict")>>

Uevents == Adapter(UeventsSetup, UeventsStart, <<>>, UeventsShutdown, <<>>,
                   {UeventsRead, UeventsRaw2Dict}, "none", "subrun")

---------------------------------------------------------------------------
(* nl_route_raw.c: as uevents.c, with a stop.                              *)

NlRouteSetup == <<Get("sub", <<Fail>>)>>

NlRouteStart == <<StartSub(<<Fail>>)>>

(* Faulty variant: the stop forgets the raw netlink listener.              *)
NlRouteStopNothing == <<>>

NlRouteStop == StopSub

NlRouteShutdown == ShutdownSub

(* crtx_nl_route_raw2dict_ifaddr: no dictionary for other messages.        *)
NlRouteRaw2Dict == <<May(<<New("data")>>, <<>>)>>

(* nl_route_read_cb: every message of a type that was asked for, and the   *)
(* end of the answer.                                                      *)
NlRouteRead ==
    <<Try(<<Fail>>),
      Loop(<<New("event"), May(<<New("data")>>, NlRouteRaw2Dict),
             IfSet("data", <<Give("data")>>, <<>>), Give("event")>>),
      May(Signal, <<>>)>>

NlRoute == Adapter(NlRouteSetup, NlRouteStart, NlRouteStop, NlRouteShutdown, <<>>,
                   {NlRouteRead}, "none", "subrun")

---------------------------------------------------------------------------
(* libnl.c.  The socket of the library owns the descriptor, which is also  *)
(* the one of evloop_fd; until the start, that is number 0.                *)

(* nl_socket_free closes the descriptor of a connected socket.             *)
NlSocketFree == <<Put("sock"), IfSet("conn", <<Put("fd"), Put("conn")>>, <<>>)>>

LibnlSetup ==
    <<Get("sock", <<Fail>>), Try(NlSocketFree \o <<Fail>>), Foreign("fd")>> \o InitListener

(* start_listener: a socket that is connected cannot be connected.         *)
LibnlStart == <<IfSet("conn", <<Fail>>, <<Get("conn", <<Fail>>), New("fd")>>)>>

LibnlHandler == <<Use("sock")>>

LibnlFree == NlSocketFree

Libnl == Adapter(LibnlSetup, LibnlStart, <<>>, AutoCloseShared, LibnlFree,
                 {LibnlHandler}, "loop", "fd")

---------------------------------------------------------------------------
(* netlink_ge.c: the socket is connected in the setup.                     *)

GenlSetup ==
    LET failed == NlSocketFree \o <<Fail>>
    IN  <<Get("sock", <<Fail>>), Try(failed), Get("conn", failed), New("fd")>> \o InitListener
            \o <<Try(failed)>>

(* crtx_genl_msg2dict, called by nl_recvmsgs_default.                      *)
GenlMsg2Dict == <<Try(<<Ok>>), Get("event", <<Fail>>), New("data"), Give("data"), Give("event")>>

GenlHandler == <<Use("sock"), Loop(<<Call(GenlMsg2Dict, <<>>)>>)>>

GenlFree == NlSocketFree

Genl == Adapter(GenlSetup, <<>>, <<>>, AutoCloseShared, GenlFree, {GenlHandler}, "loop", "fd")

---------------------------------------------------------------------------
(* can.c.                                                                  *)

(* The callback is added by the start, and evloop_fd has no descriptor     *)
(* before.                                                                 *)
CanSetup == <<>>

(* setup_can_if: the interface is set up with a netlink socket and a link  *)
(* which the listener keeps.  A link that cannot be allocated releases     *)
(* them, with the result of the last call that succeeded.                  *)
CanSetupIf ==
    LET errorSocket == <<Put("sock"), Unset("sock")>>
        errorLink == <<Put("link"), Unset("link")>> \o errorSocket
        change == <<Get("newlink", errorLink \o <<Ok>>), Try(<<Put("newlink"), Fail>>), Put("newlink")>>
    IN  <<IfSet("sock", <<>>, <<Get("sock", errorSocket \o <<Fail>>),
                               Try(errorSocket \o <<Fail>>)>>),
          IfSet("link", <<>>, <<Get("link", errorSocket \o <<Fail>>),
                               Try(errorLink \o <<Fail>>)>>),
          May(<<>>, change), May(<<>>, change)>>

(* start_listener returns 0, which is no failure, on all paths.            *)
CanStart(ifOnly) ==
    LET failed == <<Put("fd"), Ok>>
        named == <<Try(failed), Call(CanSetupIf, failed), May(<<Use("link")>>, <<>>)>>
        binds == IF ifOnly THEN <<>> ELSE <<Try(failed)>> \o InitListener
    IN  <<IfSet("fd", <<Ok>>, <<>>), Get("fd", <<Ok>>), May(named, <<>>)>> \o binds

(* shutdown_listener; nl_close reads the socket.                           *)
CanShutdown == <<Put("link"), Use("sock"), Put("sock"), Put("fd")>>

(* can_fd_event_handler: one frame, or all when the socket is nonblocking. *)
(* To discard unused data it reads until a read fails, which never happens *)
(* on a blocking socket.                                                   *)
CanHandler ==
    <<May(<<Hang>>, <<>>),
      Loop(<<New("data"), Use("fd"), Try(<<Put("data"), Fail>>),
             Get("event", <<Put("data"), Ok>>), Give("data"), Give("event")>>)>>

(* on_error_cb.                                                            *)
CanError == <<Stop>>

Can == Adapter(CanSetup, CanStart(FALSE), <<>>, CanShutdown, <<>>,
               {CanHandler, CanError}, "loop", "fd")

(* With setup_if_only nothing is received and there is no shutdown.        *)
CanIf == Adapter(CanSetup, CanStart(TRUE), <<>>, <<>>, <<>>, {}, "none", "sock")

=============================================================================
