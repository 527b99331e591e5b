--------------------------- MODULE MCThreadPool ---------------------------
(* Model-checking instances of ThreadPool.                                 *)
EXTENDS ThreadPool, TLC

CONSTANTS lsn, nfq, app, grp

(* lsn: a listener with do_stop; nfq: one whose thread is cancelled; app:  *)
(* the application, whose job nobody waits for; grp: the adder of an event *)
(* in thread mode.                                                         *)
MixedJobs == [u \in Users |-> CASE u = lsn -> "until_stop"
                                [] u = nfq -> "cancel"
                                [] u = app -> "short"
                                [] u = grp -> "graph"]

ListenerJob == [u \in Users |-> "until_stop"]

=============================================================================
