---------------------------- MODULE MCEpollLoop ----------------------------
(* Model-checking instances of EpollLoop.                                  *)
EXTENDS EpollLoop, TLC

CONSTANTS ctrl, sock, cctrl, rd, wr

(* sock has a callback for reading, with a timeout, and one for writing,   *)
(* like a write queue that shares the descriptor of its read listener.     *)
MCFdOf == (cctrl :> ctrl) @@ (rd :> sock) @@ (wr :> sock)

MCFlags == (cctrl :> {"in"}) @@ (rd :> {"in", "timeout"}) @@ (wr :> {"out"})

=============================================================================
