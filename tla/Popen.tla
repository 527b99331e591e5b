------------------------------- MODULE Popen -------------------------------
(***************************************************************************)
(* The popen listener (src/popen.c): a fork listener whose child runs      *)
(* execve, a pipe and a write queue for the child's stdin and a pipe for   *)
(* its stdout (src/pipe.c).  One listener is started again for every       *)
(* command; the runs are numbered.  A pipe is named by a generation, and   *)
(* an end of it that is closed is 0.                                       *)
(*                                                                         *)
(* The child process executes post_fork_child_callback, reinit_cb of       *)
(* fork.c and after_fork_reinit_cb; all other descriptors are O_CLOEXEC.   *)
(***************************************************************************)
EXTENDS Naturals, Sequences

CONSTANTS
    MaxRuns,      \* bound: how often the listener is started
    StopsRunning, \* the application may stop the listener before the end of
                  \* its child was reported
    Leftovers     \* the pipes that may hold unread data when the listener is
                  \* started again

ASSUME PopenAssumption ==
    /\ MaxRuns \in Nat
    /\ StopsRunning \in BOOLEAN
    /\ Leftovers \subseteq {"stdin", "stdout"}

VARIABLES
    popen,    \* base.state of the popen listener is STARTED
    frk,      \* the fork listener: started, do_fork triggered, run
    proc,     \* per run: the process, and the stdin pipe it reads
    stdin,    \* stdin_lstnr.fds: generation of the read and the write end
    wqueue,   \* stdin_wq_lstnr: started, and the pipe of write_fd
    gen,      \* pipes created so far
    inpipe,   \* unread input: <<pipe, run in which it was written>>
    input,    \* what children read: <<run of the child, run of the writer>>
    reading,  \* stdout_lstnr is started
    outpipe,  \* the runs with unread output
    output,   \* what the callback got: <<run of the listener, run of the child>>
    forkEvts, \* CHILD_STOPPED events in the graph of the fork listener
    results   \* runs whose end was reported to the graph of the listener

ioVars == <<inpipe, input, reading, outpipe, output>>

popenVars == <<popen, frk, proc, stdin, wqueue, gen, ioVars, forkEvts, results>>

Runs == 1..MaxRuns

NoProc == [st |-> "none", in |-> 0]

(* crtx_setup_popen_listener: the pipes are open, nothing is started.      *)
PopenInit ==
    /\ popen = FALSE
    /\ frk = [on |-> FALSE, trig |-> FALSE, run |-> 0]
    /\ proc = [r \in Runs |-> NoProc]
    /\ stdin = [r |-> 1, w |-> 1]
    /\ wqueue = [on |-> FALSE, fd |-> 1]
    /\ gen = 1
    /\ inpipe = {} /\ input = {}
    /\ reading = FALSE
    /\ outpipe = {} /\ output = {}
    /\ forkEvts = <<>>
    /\ results = <<>>

(* Faulty variant: a pipe with one closed end is taken for open.           *)
BrokenBoth(p) == p.r = 0 /\ p.w = 0

(* crtx_setup_pipe_listener: a pipe with a closed end is created again.    *)
Broken(p) == p.r = 0 \/ p.w = 0

(* Faulty variant: the write queue keeps its file descriptor.              *)
QueueFdOld(p) == wqueue.fd

(* start_listener: the write queue takes the write end of the pipe.        *)
QueueFd(p) == p.w

(* start_listener: pipe, write queue, stdout, fork.  The first of them     *)
(* that refuses to start (-EINPROGRESS) ends it, and what was started      *)
(* before stays started.  Pipes with two open ends are kept, with what     *)
(* they hold.                                                              *)
StartPopen ==
    /\ ~popen
    /\ frk.run < MaxRuns
    /\ (\E x \in inpipe : x[1] = stdin.w) => "stdin" \in Leftovers
    /\ outpipe # {} => "stdout" \in Leftovers
    /\ LET p == IF Broken(stdin) THEN [r |-> gen + 1, w |-> gen + 1] ELSE stdin
       IN  /\ stdin' = p
           /\ gen' = IF Broken(stdin) THEN gen + 1 ELSE gen
           /\ wqueue' = [on |-> TRUE, fd |-> QueueFd(p)]
    /\ reading' = (wqueue.on => reading)
    /\ IF wqueue.on \/ reading \/ frk.on
       THEN UNCHANGED <<popen, frk>>
       ELSE /\ popen' = TRUE
            /\ frk' = [on |-> TRUE, trig |-> TRUE, run |-> frk.run + 1]
    /\ UNCHANGED <<proc, inpipe, input, outpipe, output, forkEvts, results>>

(* start_listener when pipe2() fails: 0 is returned, as for success.       *)
StartPopenWithoutPipe ==
    /\ ~popen
    /\ Broken(stdin)
    /\ popen' = TRUE
    /\ stdin' = [r |-> 0, w |-> 0]
    /\ UNCHANGED <<frk, proc, wqueue, gen, ioVars, forkEvts, results>>

(* post_fork_child_callback, after_fork_reinit_cb: the child reads         *)
(* stdin_lstnr.fds[CRTX_READ_END].                                         *)
ForkedChild == [st |-> "running", in |-> stdin.r]

(* do_fork.  If fork() fails nothing else happens: the listeners stay      *)
(* started and no end is reported.                                         *)
ForkExec(forked) ==
    /\ frk.trig
    /\ frk' = [frk EXCEPT !.trig = FALSE]
    /\ proc' = IF forked
               THEN [proc EXCEPT ![frk.run] = ForkedChild]
               ELSE proc
    /\ UNCHANGED <<popen, stdin, wqueue, gen, ioVars, forkEvts, results>>

(* The handler of the write queue writes to its pipe, which never breaks:  *)
(* the listener keeps the read end.                                        *)
WriteStdin ==
    /\ wqueue.on
    /\ inpipe' = inpipe \cup {<<wqueue.fd, frk.run>>}
    /\ UNCHANGED <<popen, frk, proc, stdin, wqueue, gen, input, reading, outpipe, output,
                   forkEvts, results>>

(* The child process reads what its stdin holds.                           *)
ChildReads(r) ==
    LET mine == {x \in inpipe : x[1] = proc[r].in}
    IN  /\ proc[r].st = "running"
        /\ mine # {}
        /\ inpipe' = inpipe \ mine
        /\ input' = input \cup {<<r, x[2]>> : x \in mine}
        /\ UNCHANGED <<popen, frk, proc, stdin, wqueue, gen, reading, outpipe, output,
                       forkEvts, results>>

(* The child process writes to stdout.                                     *)
ChildWrites(r) ==
    /\ proc[r].st = "running"
    /\ outpipe' = outpipe \cup {r}
    /\ UNCHANGED <<popen, frk, proc, stdin, wqueue, gen, inpipe, input, reading, output,
                   forkEvts, results>>

(* pipe_event_handler: stdout_cb reads what the pipe holds.                *)
ReadStdout ==
    /\ reading
    /\ outpipe # {}
    /\ outpipe' = {}
    /\ output' = output \cup ({frk.run} \X outpipe)
    /\ UNCHANGED <<popen, frk, proc, stdin, wqueue, gen, inpipe, input, reading, forkEvts,
                   results>>

(* crtx_popen_close_stdin, called by the application to end the input of   *)
(* a child.                                                                *)
CloseStdin ==
    /\ popen
    /\ stdin.w # 0
    /\ stdin' = [stdin EXCEPT !.w = 0]
    /\ wqueue' = [on |-> FALSE, fd |-> 0]
    /\ UNCHANGED <<popen, frk, proc, gen, ioVars, forkEvts, results>>

ChildExits(r) ==
    /\ proc[r].st = "running"
    /\ proc' = [proc EXCEPT ![r].st = "zombie"]
    /\ UNCHANGED <<popen, frk, stdin, wqueue, gen, ioVars, forkEvts, results>>

(* fork_sigchld_cb: the fork listener is stopped, an event is added.       *)
SigchldCb ==
    /\ frk.on
    /\ ~frk.trig
    /\ proc[frk.run].st = "zombie"
    /\ proc' = [proc EXCEPT ![frk.run].st = "reaped"]
    /\ frk' = [frk EXCEPT !.on = FALSE]
    /\ forkEvts' = Append(forkEvts, frk.run)
    /\ UNCHANGED <<popen, stdin, wqueue, gen, ioVars, results>>

(* Faulty variant: stop_listener forgets the write queue.                  *)
QueueStoppedNot == wqueue

(* stop_listener: the write queue and the pipes are stopped; they stay     *)
(* open with what they hold, and the fork listener goes on.                *)
QueueStopped == [wqueue EXCEPT !.on = FALSE]

(* fork_event_handler: the listener is stopped, unless it is, and the      *)
(* event goes on to its own graph.                                         *)
ForkEventHandler ==
    /\ forkEvts # <<>>
    /\ forkEvts' = Tail(forkEvts)
    /\ popen' = FALSE
    /\ wqueue' = IF popen THEN QueueStopped ELSE wqueue
    /\ reading' = (~popen /\ reading)
    /\ results' = Append(results, Head(forkEvts))
    /\ UNCHANGED <<frk, proc, stdin, gen, inpipe, input, outpipe, output>>

(* crtx_stop_listener by the application.                                  *)
StopPopen ==
    /\ popen
    /\ (frk.on \/ forkEvts # <<>>) => StopsRunning
    /\ popen' = FALSE
    /\ wqueue' = QueueStopped
    /\ reading' = FALSE
    /\ UNCHANGED <<frk, proc, stdin, gen, inpipe, input, outpipe, output, forkEvts, results>>

PopenNext ==
    \/ StartPopen \/ StartPopenWithoutPipe \/ StopPopen
    \/ \E forked \in BOOLEAN : ForkExec(forked)
    \/ WriteStdin \/ ReadStdout \/ CloseStdin \/ SigchldCb \/ ForkEventHandler
    \/ \E r \in Runs : ChildReads(r) \/ ChildWrites(r) \/ ChildExits(r)

(* The event loop of the parent keeps running.                             *)
PopenFairness ==
    /\ WF_popenVars(\E forked \in BOOLEAN : ForkExec(forked))
    /\ WF_popenVars(SigchldCb) /\ WF_popenVars(ForkEventHandler)

PopenSpec == PopenInit /\ [][PopenNext]_popenVars /\ PopenFairness

---------------------------------------------------------------------------
(* Properties.                                                             *)

PopenTypeOK ==
    /\ popen \in BOOLEAN
    /\ frk \in [on : BOOLEAN, trig : BOOLEAN, run : 0..MaxRuns]
    /\ proc \in [Runs -> [st : {"none", "running", "zombie", "reaped"}, in : 0..gen]]
    /\ stdin \in [r : 0..gen, w : 0..gen]
    /\ wqueue \in [on : BOOLEAN, fd : 0..gen]
    /\ gen \in 1..(MaxRuns + 1)
    /\ inpipe \subseteq (1..gen) \X Runs
    /\ input \subseteq Runs \X Runs
    /\ reading \in BOOLEAN
    /\ outpipe \subseteq Runs
    /\ output \subseteq Runs \X Runs
    /\ forkEvts \in Seq(Runs)
    /\ results \in Seq(Runs)

(* popen.c, start_listener ("if we are started again, the write end of the *)
(* pipe might have been closed"): every child gets a stdin that is open,   *)
(* and as long as the write queue is started it writes to the stdin of the *)
(* child that runs now and of no earlier one.                              *)
InputReachesChild ==
    \A r \in Runs :
        proc[r].st = "running" =>
            /\ proc[r].in # 0
            /\ (wqueue.on /\ r = frk.run /\ popen) => wqueue.fd = proc[r].in

(* popen.c: a run starts with pipes that hold nothing of an earlier one,   *)
(* if it is reopened or was emptied: what a child reads was written in its *)
(* own run, and what the callback of the listener reads was written by the *)
(* child of this run.                                                      *)
PipesAreNotShared == \A x \in input \cup output : x[1] = x[2]

(* popen.c: once a listener was stopped and its child is gone, what it is  *)
(* made of is stopped too, so that it can be started again.                *)
PopenCanRestart == (~popen /\ ~frk.on /\ forkEvts = <<>>) => (~wqueue.on /\ ~reading)

(* popen.c, fork_event_handler: the children end in the order they were    *)
(* started, and no end is reported twice or for a child that runs.         *)
ResultsInOrder ==
    \A i \in DOMAIN results : results[i] = i /\ proc[i].st = "reaped"

(* popen.c, fork_event_handler: the end of every child is reported to the  *)
(* graph of the popen listener.                                            *)
ResultIsReported ==
    \A r \in Runs :
        proc[r].st = "zombie" ~> \E i \in DOMAIN results : results[i] = r

(* popen.c: runs follow each other, and neither the input nor the output   *)
(* nor the result of one run shows up in another.                          *)
RunsAreSeparate ==
    /\ PopenTypeOK /\ InputReachesChild /\ PipesAreNotShared
    /\ PopenCanRestart /\ ResultsInOrder

=============================================================================
