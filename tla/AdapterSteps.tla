---------------------------- MODULE AdapterSteps ----------------------------
(***************************************************************************)
(* A function of an adapter (a listener that wraps a descriptor or a       *)
(* library), seen as the calls it makes on the resources it handles: a     *)
(* sequence of steps.  A step may fail, and then the function goes on with *)
(* the steps of its error path, which usually end in a return.             *)
(*                                                                         *)
(* A resource is held (acquired and not released), stale (the variable     *)
(* still names what was released) or neither (the variable is unset).      *)
(* lost collects what was held when its variable was overwritten or freed, *)
(* bad what was used or released when it was not held.                     *)
(*                                                                         *)
(* Allocations whose result the code does not look at are assumed to       *)
(* succeed (New).                                                          *)
(***************************************************************************)
EXTENDS Sequences, FiniteSets

NoResources == [held |-> {}, stale |-> {}, lost |-> {}, bad |-> {}]

Step(op, r, yes, no) == [op |-> op, res |-> r, yes |-> yes, no |-> no]

New(r) == Step("get", r, <<>>, <<>>)             \* r is acquired
Get(r, no) == Step("tryget", r, <<>>, no)        \* r is acquired, or else no
Try(no) == Step("may", "", <<>>, no)             \* a call that fails with no
Put(r) == Step("put", r, <<>>, <<>>)             \* releases r if it is set
Give(r) == Step("give", r, <<>>, <<>>)           \* another owner takes r
Use(r) == Step("use", r, <<>>, <<>>)             \* uses r
Unset(r) == Step("unset", r, <<>>, <<>>)         \* overwrites the variable
Drop(r) == Step("drop", r, <<>>, <<>>)           \* r ends by itself
Foreign(r) == Step("foreign", r, <<>>, <<>>)     \* a number that is not owned
IfSet(r, yes, no) == Step("if", r, yes, no)      \* is the variable set?
May(yes, no) == Step("may", "", yes, no)         \* a condition on the data
Call(f, no) == Step("call", "", f, no)           \* a call of f, no if it fails
Ok == Step("return", "ok", <<>>, <<>>)
Fail == Step("return", "fail", <<>>, <<>>)
Stop == Step("return", "stop", <<>>, <<>>)       \* the handler stops the listener
Halted == Step("return", "halted", <<>>, <<>>)   \* a restart in it failed
Hang == Step("hang", "hang", <<>>, <<>>)         \* an endless loop

(* A loop, of which two passes show what a later one meets.                *)
Loop(f) == May(<<>>, Append(f, May(<<>>, f)))

Without(s, r) ==
    [s EXCEPT !.held = @ \ {r}, !.stale = @ \ {r}, !.lost = @ \cup (s.held \cap {r})]

Acquired(s, r) == [Without(s, r) EXCEPT !.held = @ \cup {r}]

Released(s, r) ==
    CASE r \in s.held -> [s EXCEPT !.held = @ \ {r}, !.stale = @ \cup {r}]
      [] r \in s.stale -> [s EXCEPT !.bad = @ \cup {r}]
      [] OTHER -> s

Used(s, r) == IF r \in s.held THEN s ELSE [s EXCEPT !.bad = @ \cup {r}]

(* What a step or a function can end with: the resources, and "on" or what *)
(* it returned.                                                            *)
RECURSIVE Outcomes(_, _)

StepOutcomes(c, s) ==
    LET on(t) == {<<t, "on">>}
    IN  CASE c.op = "get" -> on(Acquired(s, c.res))
          [] c.op = "tryget" -> on(Acquired(s, c.res)) \cup Outcomes(c.no, Without(s, c.res))
          [] c.op = "put" -> on(Released(s, c.res))
          [] c.op = "give" -> on([Used(s, c.res) EXCEPT !.held = @ \ {c.res}])
          [] c.op = "use" -> on(Used(s, c.res))
          [] c.op = "unset" -> on(Without(s, c.res))
          [] c.op = "drop" -> on([s EXCEPT !.held = @ \ {c.res}])
          [] c.op = "foreign" -> on([Without(s, c.res) EXCEPT !.stale = @ \cup {c.res}])
          [] c.op = "if" -> Outcomes(IF c.res \in s.held \cup s.stale THEN c.yes ELSE c.no, s)
          [] c.op = "may" -> Outcomes(c.yes, s) \cup Outcomes(c.no, s)
          [] c.op = "call" ->
                UNION {IF o[2] = "fail" THEN Outcomes(c.no, o[1]) ELSE on(o[1]) :
                          o \in Outcomes(c.yes, s)}
          [] c.op = "hang" -> {<<[s EXCEPT !.bad = @ \cup {c.res}], "ok">>}
          [] c.op = "return" -> {<<s, c.res>>}

Outcomes(f, s) ==
    IF f = <<>> THEN {<<s, "on">>}
    ELSE UNION {IF o[2] = "on" THEN Outcomes(Tail(f), o[1]) ELSE {o} :
                   o \in StepOutcomes(Head(f), s)}

(* "subrun" is held while the sub-listener of a listener is started, "run" *)
(* while its own descriptor or thread is served.                           *)
StartSub(no) == IfSet("subrun", no, <<Get("subrun", no)>>)
StopSub == <<IfSet("subrun", <<Put("subrun"), Unset("subrun")>>, <<>>)>>
ShutdownSub == StopSub \o <<Put("sub")>>

(* An event is created, takes what it owns (the data) and is added.        *)
AddEvent(no) == <<Get("event", no), Give("data"), Give("event")>>
Push == <<New("event"), Give("data"), Give("event")>>
Signal == <<New("event"), Give("event")>>

(* crtx_evloop_init_listener appends the callback of the descriptor.       *)
InitListener == <<New("cb")>>

(* The functions of a listener, the mode it is started with ("loop",       *)
(* "thread" or "none") and the resource its events come from.              *)
Adapter(setup, start, stop, shutdown, free, handlers, mode, source) ==
    [setup |-> setup, start |-> start, stop |-> stop, shutdown |-> shutdown,
     free |-> free, handlers |-> handlers, mode |-> mode, source |-> source]

(* crtx_shutdown_listener without a shutdown function closes evloop_fd.    *)
AutoClose == <<IfSet("fd", <<Put("fd"), Unset("fd")>>, <<>>)>>

(* The same when a library has the number of the descriptor, too.          *)
AutoCloseShared == <<IfSet("fd", <<Put("fd")>>, <<>>)>>

=============================================================================
