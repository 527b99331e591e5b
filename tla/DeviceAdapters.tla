--------------------------- MODULE DeviceAdapters ---------------------------
(***************************************************************************)
(* The functions of the listeners for devices and files: v4l.c, evdev.c,   *)
(* udev.c, uio.c, fanotify.c, inotify.c, sd_journal.c.                     *)
(***************************************************************************)
EXTENDS AdapterSteps

---------------------------------------------------------------------------
(* v4l.c.                                                                  *)

(* query_formats, query_ctrls and enumerate_menu fill dictionaries that    *)
(* belong to the listener.                                                 *)
V4lQueryFormats == <<Use("fd"), Loop(<<New("entry"), Use("formats"), Give("entry")>>)>>

V4lQueryCtrls == <<New("controls"), Use("fd"), Loop(<<New("entry"), Give("entry")>>)>>

V4lSetup ==
    <<Get("fd", <<Fail>>), New("formats")>> \o V4lQueryFormats \o V4lQueryCtrls \o InitListener

V4lStart == <<Loop(<<Use("fd"), Try(<<Fail>>)>>)>>

V4lShutdown == <<Put("fd")>>

(* v4l_fd_event_handler: a v4l event, or a frame.                          *)
V4lHandler ==
    <<May(<<New("data"), Use("fd"), Try(<<Fail>>)>> \o AddEvent(<<Fail>>),
          <<Get("event", <<Fail>>), Give("event")>>)>>

V4l == Adapter(V4lSetup, V4lStart, <<>>, V4lShutdown, <<>>, {V4lHandler}, "loop", "fd")

---------------------------------------------------------------------------
(* evdev.c.                                                                *)

(* Faulty variant: the descriptor stays open when libevdev fails.          *)
EvdevSetupNoClose ==
    <<Get("fd", <<Fail>>), Get("device", <<Fail>>)>> \o InitListener

EvdevSetup ==
    <<Get("fd", <<Fail>>), Get("device", <<Put("fd"), Fail>>)>> \o InitListener

EvdevShutdown == <<Put("device"), Put("fd")>>

EvdevSendEvent == <<New("data")>> \o Push

EvdevHandler == <<Loop(<<Use("device")>> \o EvdevSendEvent)>>

Evdev == Adapter(EvdevSetup, <<>>, <<>>, EvdevShutdown, <<>>, {EvdevHandler}, "loop", "fd")

---------------------------------------------------------------------------
(* udev.c.                                                                 *)

(* The monitor is not looked at; its descriptor belongs to it.             *)
UdevSetup ==
    <<Get("udev", <<Fail>>), Get("monitor", <<>>), IfSet("monitor", <<New("fd")>>, <<>>)>>
        \o InitListener

(* push_new_udev_event; udev_event_before_release_cb unreferences it.      *)
UdevPush == Push

(* start_listener: the devices that exist are delivered as events.         *)
UdevStart ==
    <<Use("monitor"),
      May(<<New("enumerate"), Loop(<<New("data")>> \o UdevPush), Put("enumerate")>>, <<>>)>>

UdevShutdown == <<Put("monitor"), Put("fd"), Put("udev")>>

UdevHandler == <<Use("monitor"), Get("data", <<Ok>>)>> \o UdevPush

Udev == Adapter(UdevSetup, UdevStart, <<>>, UdevShutdown, <<>>, {UdevHandler}, "loop", "fd")

---------------------------------------------------------------------------
(* uio.c.                                                                  *)

(* query_uios reads the names of the devices into a table of the process.  *)
UioQuery == <<Loop(<<Get("tmp", <<Ok>>), Put("tmp")>>)>>

UioSetup == <<May(<<Call(UioQuery, <<>>)>>, <<>>), Try(<<Fail>>)>>

(* Every start opens the device; the result is not looked at.              *)
UioStart == <<Get("fd", <<>>)>> \o InitListener

UioHandler == <<May(<<Use("fd"), Try(<<Ok>>), Use("fd"), Try(<<Ok>>)>>, <<>>)>> \o Signal

Uio == Adapter(UioSetup, UioStart, <<>>, AutoClose, <<>>, {UioHandler}, "loop", "fd")

---------------------------------------------------------------------------
(* fanotify.c, with the event loop or with a thread.                       *)

FanotifySetup(thread) ==
    <<Get("fd", <<Fail>>), Try(<<Fail>>)>> \o (IF thread THEN <<>> ELSE InitListener)

FanotifyShutdown == <<Put("fd")>>

(* stop_thread.                                                            *)
FanotifyStopThread == <<Put("fd")>>

(* process_fanotify: an overflow record is read again and again.           *)
FanotifyProcess == <<Use("fd"), Loop(<<May(<<Hang>>, <<>>), New("data")>> \o Push)>>

Fanotify == Adapter(FanotifySetup(FALSE), <<>>, <<>>, FanotifyShutdown, <<>>,
                    {FanotifyProcess}, "loop", "fd")

(* fanotify_tmain.                                                         *)
FanotifyThread ==
    Adapter(FanotifySetup(TRUE), <<>>, FanotifyStopThread, FanotifyShutdown, <<>>,
            {FanotifyProcess}, "thread", "run")

---------------------------------------------------------------------------
(* inotify.c: the listeners share one descriptor and a table of listeners. *)

(* A free slot of the table, or a new one.                                 *)
InotifySetup == <<New("slot")>>

(* The first start opens the descriptor.                                   *)
InotifyStart == <<IfSet("fd", <<>>, <<Get("fd", <<Fail>>)>> \o InitListener), Get("wd", <<Fail>>)>>

InotifyStop == <<Put("wd"), Unset("wd")>>

(* The slot is emptied; the descriptor is closed with the last listener.   *)
InotifyShutdown ==
    <<Put("slot"), Unset("slot"),
      IfSet("fd", <<May(<<Put("fd"), Unset("fd")>>, <<Give("fd")>>)>>, <<>>)>>

(* inotify_process looks for the listener of the watch, also in the slots  *)
(* that a listener has left empty.                                         *)
InotifyProcess ==
    <<Use("fd"), Try(<<Fail>>),
      Loop(<<May(<<Use("emptied")>>, <<>>), May(<<New("data")>> \o Push, <<>>)>>)>>

Inotify == Adapter(InotifySetup, InotifyStart, InotifyStop, InotifyShutdown, <<>>,
                   {InotifyProcess}, "none", "wd")

---------------------------------------------------------------------------
(* sd_journal.c.                                                           *)

JournalSetup == <<>>

(* set_events_timeout.                                                     *)
JournalTimeout == <<Use("journal"), Try(<<Fail>>)>>

(* start_listener opens the journal, which owns its descriptor; a failure  *)
(* to open or to seek is no failure of the start.                          *)
JournalStart ==
    <<Try(<<Ok>>), New("journal"), Try(<<Fail>>), New("fd")>> \o InitListener
        \o JournalTimeout \o <<Use("journal"), Try(<<Ok>>)>>

(* stop_listener: sd_journal_close closes the descriptor, too.             *)
JournalStop == <<Put("journal"), Put("fd")>>

(* crtx_sd_journal_gen_event_dict.                                         *)
JournalGenEvent ==
    LET failed == <<Put("dict"), Put("event"), Fail>>
    IN  <<Loop(<<Use("journal"), Try(<<Ok>>), Get("event", <<Fail>>), New("dict"),
                 Loop(<<Try(failed), New("data"), Try(failed), Give("data")>>),
                 Try(failed), Give("dict"), Give("event")>>)>>

(* The handler reopens the journal when it was invalidated.                *)
JournalHandler ==
    <<Use("journal"), Try(<<Ok>>),
      May(<<Call(JournalGenEvent, <<>>)>>,
          <<May(<<>>, JournalStop \o <<Drop("run"), Call(JournalStart, <<Use("journal"), Halted>>),
                                       New("run")>>)>>),
      Call(JournalTimeout, <<>>)>>

Journal == Adapter(JournalSetup, JournalStart, JournalStop, AutoClose, <<>>,
                   {JournalHandler}, "loop", "fd")

=============================================================================
