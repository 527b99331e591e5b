-------------------------- MODULE ServiceAdapters --------------------------
(***************************************************************************)
(* The functions of the listeners for services: mqtt.c, pulseaudio.c,      *)
(* nf_queue.c, avahi.c, the callbacks of curl.c, and those of layer2:      *)
(* netif.c, netconf.c, ping.c, dynamic_evdev.c, forked_curl.c.             *)
(***************************************************************************)
EXTENDS AdapterSteps

---------------------------------------------------------------------------
(* mqtt.c.  The socket belongs to the mosquitto object.                    *)

MqttSetup == <<May(<<New("clientid")>>, <<>>), New("mosq")>>

(* crtx_timer_retry_listener_os of timer.c: a timer that starts the        *)
(* listener again.                                                         *)
RetryLater == <<May(<<New("retry")>>, <<>>)>>

(* start_listener: a connection that exists is closed by the library.      *)
MqttStart ==
    <<Use("mosq"), IfSet("fd", <<Put("fd")>>, <<>>), Get("fd", RetryLater \o <<Fail>>)>>
        \o InitListener

(* The callbacks of the library add an event with a copy.                  *)
MqttCallback == <<New("data"), Get("event", <<Put("data"), Ok>>), Give("data"), Give("event")>>

(* mqtt_fd_event_handler: when the connection is lost the library closes   *)
(* the socket, the listener is stopped and started later; yet the handler  *)
(* goes on and may enable its callback.                                    *)
MqttHandler ==
    LET lost == <<Put("fd"), Unset("fd"), Drop("run")>> \o RetryLater
        rest == <<Use("mosq"), May(<<IfSet("run", <<>>, <<New("run")>>)>>, <<>>)>>
    IN  <<Use("mosq"), Loop(<<Call(MqttCallback, <<>>)>>),
          May(rest, lost \o rest \o <<Halted>>)>>

(* shutdown_listener: mosquitto_destroy closes the socket.                 *)
MqttShutdown == <<Put("mosq"), IfSet("fd", <<Put("fd")>>, <<>>), Put("clientid")>>

Mqtt == Adapter(MqttSetup, MqttStart, <<>>, MqttShutdown, <<>>, {MqttHandler}, "loop", "fd")

---------------------------------------------------------------------------
(* pulseaudio.c.                                                           *)

(* wait_for_op_result.                                                     *)
PaWaitForOp == <<Use("mainloop"), Put("op")>>

PaSetup ==
    <<New("mainloop"), Get("context", <<Fail>>), Use("mainloop"), Try(<<Fail>>),
      Get("op", <<Fail>>)>> \o PaWaitForOp

(* pa_tmain: the callbacks are called by the main loop of the library.     *)
PaMain(callback) == <<Use("mainloop"), Loop(callback)>>

(* generic_pa_get_info_callback.                                           *)
PaInfo ==
    <<May(<<>>, <<Put("helper"), Ok>>), May(<<>>, <<Ok>>), Get("event", <<Ok>>),
      New("data"), Give("data"), Give("event"), Put("helper")>>

(* pa_subscription_callback: asks for what has changed, with a helper that *)
(* the answer releases.                                                    *)
PaSubscription ==
    <<New("helper"),
      May(PaInfo, <<May(<<Get("op", <<>>), Use("op"), Put("op")>> \o PaInfo, <<Put("helper")>>)>>)>>

(* crtx_free_pa_listener waits for a thread that the stop has waited for   *)
(* and forgotten.                                                          *)
PaFree == <<Use("mainloop"), Use("run"), Put("context"), Put("mainloop")>>

Pa == Adapter(PaSetup, <<>>, <<>>, <<>>, PaFree,
              {PaMain(<<Call(PaSubscription, <<>>)>>)}, "thread", "run")

---------------------------------------------------------------------------
(* nf_queue.c.                                                             *)

(* nfq_event_cb: the packet of the event is kept for the verdict, which    *)
(* needs the response, and is never released.                              *)
NfqEvent ==
    <<May(<<New("pkt"), Get("event", <<Fail>>), Use("event"), Use("pkt"), Give("event")>>,
          <<>>)>>

(* nfq_tmain; thread_stop cancels it.                                      *)
NfqMain ==
    <<Get("queue", <<Ok>>), Try(<<Ok>>), Loop(<<Call(NfqEvent, <<>>)>>),
      May(<<Ok>>, <<Put("queue")>>)>>

NfqSetup == <<>>

Nfq == Adapter(NfqSetup, <<>>, <<>>, <<>>, <<>>, {NfqMain}, "thread", "run")

---------------------------------------------------------------------------
(* avahi.c.                                                                *)

(* A method call of sd-bus with its message, which is left on failures.    *)
BusCall(reply) ==
    <<Get("msg", <<Fail>>), Try(<<Fail>>)>> \o reply \o <<Put("msg"), Unset("msg")>>

AvahiResolve == BusCall(<<Get("reply", <<Fail>>)>>) \o <<Try(<<Fail>>), Put("reply")>>

AvahiPublish ==
    BusCall(<<Get("reply", <<Fail>>), Try(<<Fail>>), New("path"), Give("path"), Put("reply")>>)
        \o BusCall(<<Try(<<Fail>>)>>) \o BusCall(<<Try(<<Fail>>)>>)

AvahiRemove == BusCall(<<Get("reply", <<Fail>>)>>)

(* crtx_avahi_service.                                                     *)
AvahiService == <<Try(<<Fail>>), May(AvahiPublish, AvahiRemove)>>

(* sdbus_to_avahi_handler; the event owns the service and a reference to   *)
(* the message.                                                            *)
AvahiHandler ==
    <<New("service"), Try(<<Fail>>), New("ref"), Get("event", <<Fail>>), Give("service"),
      Give("ref"), Give("event")>>

(* init_service_browser.                                                   *)
AvahiBrowser == BusCall(<<Get("reply", <<Fail>>), Try(<<Fail>>), New("browser")>>)

(* A bus that could not be opened and a browser that could not be created  *)
(* are used.                                                               *)
AvahiSetup ==
    <<Get("bus", <<>>), Use("bus"), Call(AvahiBrowser, <<>>), Use("browser"), New("match"),
      Get("sub", <<Fail>>), Get("subrun", <<Fail>>)>>

Avahi == Adapter(AvahiSetup, <<>>, <<>>, AutoClose, <<>>,
                 {AvahiHandler, AvahiResolve, AvahiService}, "loop", "subrun")

---------------------------------------------------------------------------
(* curl.c: the callbacks for the progress and the headers of a transfer.   *)

CurlProgress == <<New("event"), New("data"), Give("data"), Give("event")>>

CurlHeader ==
    <<New("event"), New("string"), New("data"), Give("string"), Give("data"), Give("event")>>

---------------------------------------------------------------------------
(* layer2/netif.c and netconf.c, on top of libnl.                          *)

NetifSetup == <<Get("sub", <<Fail>>)>>

NetifStart == <<StartSub(<<Fail>>)>>

NetifStop == StopSub

NetifShutdown == ShutdownSub

(* crtx_libnl_msg2dict, and crtx_libnl_msg_end, which may stop it.         *)
NetifMessage == <<New("data")>> \o Push

NetifEnd == <<May(<<Stop>>, <<>>)>>

(* netif_state_handler.                                                    *)
NetifState == <<Use("sub"), Try(<<Fail>>)>>

Netif == Adapter(NetifSetup, NetifStart, NetifStop, NetifShutdown, <<>>,
                 {NetifMessage, NetifEnd, NetifState}, "none", "subrun")

---------------------------------------------------------------------------
(* layer2/ping.c.                                                          *)

PingSetup == <<Get("fd", <<Fail>>), Try(<<Fail>>)>> \o InitListener \o <<Get("sub", <<Fail>>)>>

PingStart == <<StartSub(<<Fail>>)>>

PingStop == StopSub

PingShutdown == <<IfSet("packet", <<Put("packet"), Unset("packet")>>, <<>>)>> \o ShutdownSub

PingSendEvent == <<May(<<>>, <<New("data")>> \o Push)>>

(* crtx_ping_send_ping, called by ping_timer_handler.                      *)
PingSend ==
    <<IfSet("packet", <<>>, <<Get("packet", <<Fail>>)>>)>> \o PingSendEvent
        \o <<Use("packet"), Use("fd")>>

(* fd_event_handler.                                                       *)
PingHandler == <<Use("fd"), Try(<<Ok>>)>> \o PingSendEvent

Ping == Adapter(PingSetup, PingStart, PingStop, PingShutdown, <<>>,
                {PingSend, PingHandler}, "loop", "fd")

---------------------------------------------------------------------------
(* layer2/dynamic_evdev.c: an evdev listener for each device of udev.      *)

DynEvdevSetup == <<Get("sub", <<Fail>>)>>

DynEvdevStart == <<StartSub(<<Fail>>)>>

(* on_free_evdev_listener_data, the free callback of an evdev listener.    *)
DynEvdevFree == <<Put("path"), Unset("path"), Put("evdev"), Unset("evdev")>>

(* add_evdev_listener; crtx_shutdown_listener calls the free callback.     *)
DynEvdevAdd ==
    <<Try(<<Fail>>), IfSet("evdev", <<Ok>>, <<>>), New("evdev"), New("path"),
      Try(<<Put("path"), Unset("path"), Put("evdev"), Unset("evdev"), Fail>>),
      Try(DynEvdevFree \o <<Fail>>)>>

DynEvdevShutdown == ShutdownSub \o <<IfSet("evdev", DynEvdevFree, <<>>)>>

DynEvdev == Adapter(DynEvdevSetup, DynEvdevStart, <<>>, DynEvdevShutdown, <<>>, {DynEvdevAdd},
                    "loop", "subrun")

---------------------------------------------------------------------------
(* layer2/forked_curl.c: a curl listener in the child of a fork listener.  *)

ForkedCurlSetup == <<Get("sub", <<Fail>>)>>

ForkedCurlStart == <<StartSub(<<Fail>>)>>

ForkedCurl == Adapter(ForkedCurlSetup, ForkedCurlStart, <<>>, AutoClose, <<>>,
                      {CurlProgress, CurlHeader}, "none", "subrun")

=============================================================================
