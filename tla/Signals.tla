------------------------------ MODULE Signals ------------------------------
(***************************************************************************)
(* The signal listeners (src/signals.c) in their default mode.  The first  *)
(* listener starts main_lstnr, which owns a pipe; the handler that the     *)
(* kernel calls only writes the signal number into the pipe, and the event *)
(* loop reads it and adds one event to the graphs of all listeners that    *)
(* asked for the signal.  main_lstnr.signals keeps, per signal, the list   *)
(* of these listeners and the action sigaction() is given.  The order of   *)
(* the list does not matter: it is the number of nodes of each listener.   *)
(*                                                                         *)
(* StdLstnr is default_signal_lstnr of crtx_signals_handle_std_signals,    *)
(* whose tasks call crtx_init_shutdown.                                    *)
(***************************************************************************)
EXTENDS Naturals, Sequences

CONSTANTS
    Sigs,        \* signal numbers
    Fatal,       \* those whose default action ends the process
    SigLstnrs,   \* listeners of type "signals"
    SigsOf,      \* the signals of a listener
    StdLstnr,    \* default_signal_lstnr
    InFlight     \* bound: signals on their way to a listener

ASSUME SignalsAssumption ==
    /\ Fatal \subseteq Sigs
    /\ SigsOf \in [SigLstnrs -> SUBSET Sigs]
    /\ StdLstnr \in SigLstnrs

VARIABLES
    up,       \* started listeners
    table,    \* main_lstnr.signals: the listeners of a signal, and its action
    disp,     \* the disposition of a signal in the kernel
    spipe,    \* signal numbers in the pipe
    inbox,    \* events in the graphs of the listeners
    ending,   \* crtx_root->shutdown
    killed    \* the default action ended the process

sigVars == <<up, table, disp, spipe, inbox, ending, killed>>

NoEntry == [nodes |-> [l \in SigLstnrs |-> 0], action |-> "none"]

(* No listener is in the list of an entry.                                 *)
NoNodes(nodes) == \A l \in SigLstnrs : nodes[l] = 0

SignalsInit ==
    /\ up = {}
    /\ table = [s \in Sigs |-> NoEntry]
    /\ \E ign \in SUBSET Sigs : disp = [s \in Sigs |-> IF s \in ign THEN "ign" ELSE "dfl"]
    /\ spipe = <<>>
    /\ inbox = [l \in SigLstnrs |-> <<>>]
    /\ ending = FALSE
    /\ killed = FALSE

---------------------------------------------------------------------------
(* update_signals: the actions of the table are installed, except for      *)
(* signals that are ignored.  "none" stands for a signal without an entry. *)
UpdateSignals(t) ==
    [s \in Sigs |-> IF t[s].action = "none" \/ disp[s] = "ign" THEN disp[s]
                    ELSE t[s].action]

(* start_sub_listener: the signals of l get l as a listener.               *)
WithListener(t, l) ==
    [s \in Sigs |-> IF s \in SigsOf[l]
                    THEN [nodes |-> [t[s].nodes EXCEPT ![l] = @ + 1], action |-> "pipe"]
                    ELSE t[s]]

(* Faulty variant: only an entry that is new counts as a change.           *)
StartChangesNew(l) == \E s \in SigsOf[l] : table[s].action = "none"

(* "changed" of start_sub_listener: a signal without listeners so far.     *)
StartChanges(l) == \E s \in SigsOf[l] : NoNodes(table[s].nodes)

(* crtx_start_listener of a listener that is not started.  A start between *)
(* crtx_init_shutdown and crtx_finish is left out.                         *)
StartSubListener(l) ==
    /\ ~killed
    /\ ~ending
    /\ l \notin up
    /\ up' = up \cup {l}
    /\ table' = WithListener(table, l)
    /\ disp' = IF StartChanges(l) THEN UpdateSignals(WithListener(table, l)) ELSE disp
    /\ UNCHANGED <<spipe, inbox, ending, killed>>

(* crtx_dll_unlink_data takes one node of each listener of L away.         *)
Unlinked(s, L) ==
    [l \in SigLstnrs |-> IF l \in L /\ s \in SigsOf[l] /\ table[s].nodes[l] > 0
                         THEN table[s].nodes[l] - 1 ELSE table[s].nodes[l]]

(* Faulty variant: the default action returns although others listen.      *)
StopEntryAlways(s, L) == [nodes |-> Unlinked(s, L), action |-> "dfl"]

(* stop_sub_listener for the listeners of L and one of their signals: the  *)
(* default action returns with the last listener.                          *)
StopEntry(s, L) ==
    [nodes |-> Unlinked(s, L),
     action |-> IF NoNodes(Unlinked(s, L)) THEN "dfl" ELSE table[s].action]

StopListeners(L) ==
    LET t == [s \in Sigs |-> IF \E l \in L : s \in SigsOf[l] THEN StopEntry(s, L)
                             ELSE table[s]]
    IN  /\ up' = up \ L
        /\ table' = t
        /\ disp' = UpdateSignals(t)

(* crtx_stop_listener.                                                     *)
StopSubListener(l) ==
    /\ ~killed
    /\ l \in up
    /\ StopListeners({l})
    /\ UNCHANGED <<spipe, inbox, ending, killed>>

(* The kernel delivers a signal: selfpipe_signal_handler, or the default   *)
(* action.                                                                 *)
RaiseSignal(s) ==
    /\ ~killed
    /\ \A l \in SigLstnrs : Len(spipe) + Len(inbox[l]) < InFlight
    /\ spipe' = IF disp[s] = "pipe" THEN Append(spipe, s) ELSE spipe
    /\ killed' = (disp[s] = "dfl" /\ s \in Fatal)
    /\ UNCHANGED <<up, table, disp, inbox, ending>>

(* selfpipe_event_handler: one event for the graphs of the listeners the   *)
(* signal has now.  crtx_init_shutdown stops the listener of the pipe too. *)
DispatchSignal ==
    /\ ~killed
    /\ ~ending
    /\ spipe # <<>>
    /\ spipe' = Tail(spipe)
    /\ LET s == Head(spipe)
       IN  inbox' = [l \in SigLstnrs |->
                        IF table[s].nodes[l] > 0 THEN Append(inbox[l], s) ELSE inbox[l]]
    /\ UNCHANGED <<up, table, disp, ending, killed>>

(* The graph of a listener processes an event; the one of StdLstnr runs    *)
(* sigterm_handler or sigint_handler: crtx_init_shutdown stops every       *)
(* listener.                                                               *)
HandleSignal(l) ==
    /\ ~killed
    /\ inbox[l] # <<>>
    /\ inbox' = [inbox EXCEPT ![l] = Tail(@)]
    /\ IF l = StdLstnr /\ ~ending
       THEN StopListeners(up) /\ ending' = TRUE
       ELSE UNCHANGED <<up, table, disp, ending>>
    /\ UNCHANGED <<spipe, killed>>

(* crtx_finish and crtx_init: crtx_signals_finish frees the table and the  *)
(* lists, the pipe is closed and the graphs are gone.                      *)
RestartSignals ==
    /\ ending
    /\ ~killed
    /\ table' = [s \in Sigs |-> NoEntry]
    /\ spipe' = <<>>
    /\ inbox' = [l \in SigLstnrs |-> <<>>]
    /\ ending' = FALSE
    /\ UNCHANGED <<up, disp, killed>>

SignalsNext ==
    \/ DispatchSignal \/ RestartSignals
    \/ \E l \in SigLstnrs :
          StartSubListener(l) \/ StopSubListener(l) \/ HandleSignal(l)
    \/ \E s \in Sigs : RaiseSignal(s)

(* The event loop keeps reading the pipe and processing graphs.            *)
SignalsFairness ==
    /\ WF_sigVars(DispatchSignal)
    /\ \A l \in SigLstnrs : WF_sigVars(HandleSignal(l))

SignalsSpec == SignalsInit /\ [][SignalsNext]_sigVars /\ SignalsFairness

---------------------------------------------------------------------------
(* Properties.                                                             *)

SignalsTypeOK ==
    /\ up \subseteq SigLstnrs
    /\ table \in [Sigs -> [nodes : [SigLstnrs -> Nat], action : {"none", "dfl", "pipe"}]]
    /\ disp \in [Sigs -> {"dfl", "ign", "pipe"}]
    /\ spipe \in Seq(Sigs)
    /\ inbox \in [SigLstnrs -> Seq(Sigs)]
    /\ ending \in BOOLEAN
    /\ killed \in BOOLEAN

(* signals.c: whatever listeners were started, stopped and started again,  *)
(* the handler is installed exactly for the signals that a started         *)
(* listener asked for and the process does not ignore, and the table lists *)
(* each started listener once per signal.                                  *)
HandlersFollowListeners ==
    SignalsTypeOK /\ \A s \in Sigs :
        /\ disp[s] # "ign" => (disp[s] = "pipe" <=> \E l \in up : s \in SigsOf[l])
        /\ \A l \in SigLstnrs :
              table[s].nodes[l] = (IF l \in up /\ s \in SigsOf[l] THEN 1 ELSE 0)

(* signals.c, sigterm_handler: a fatal signal that was caught ends in      *)
(* crtx_init_shutdown, unless the listener was stopped in the meantime or  *)
(* a later signal ended the process.                                       *)
CaughtSignalEndsLoop ==
    \A s \in Fatal \cap SigsOf[StdLstnr] :
        (\E i \in DOMAIN spipe : spipe[i] = s)
            ~> (ending \/ killed \/ StdLstnr \notin up)

=============================================================================
