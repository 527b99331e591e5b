-------------------------------- MODULE Root --------------------------------
(***************************************************************************)
(* crtx_root of src/core.c: the table of graphs, crtx_init and crtx_finish *)
(* (which a child process and an application may repeat), the plugins, the *)
(* detached event loop and the self pipe that calls functions in the event *)
(* loop.                                                                   *)
(*                                                                         *)
(* crtx_finish leaves three pointers behind: selfpipe_lstnr and            *)
(* evloop_thread to freed memory, and in the listener repository the       *)
(* functions of plugins that were closed.  The next crtx_finish frees and  *)
(* uses the first two again, whatever the application does in between.     *)
(***************************************************************************)
EXTENDS Naturals, Sequences, FiniteSets

CONSTANTS
    RootGraphs,   \* graphs
    NoGraph,      \* a null pointer in the table
    PluginFiles,  \* files in CRTX_PLUGIN_DIR
    PluginName,   \* plugin_name of a file
    BrokenFiles,  \* files that dlopen() refuses
    Writers,      \* threads that call crtx_selfpipe_enqueue_cb
    MaxInits,     \* bound: calls of crtx_init
    MaxCalls,     \* bound: callbacks of one writer
    StaleUses     \* what the application does that leads to their use: it
                  \* calls crtx_init again although it used the self pipe
                  \* ("selfpipe") or the detached loop ("evloop"), or sets up
                  \* listeners of plugins after that ("plugin")

ASSUME RootAssumption ==
    /\ NoGraph \notin RootGraphs
    /\ IsFiniteSet(PluginFiles)
    /\ BrokenFiles \subseteq PluginFiles
    /\ MaxInits \in Nat
    /\ MaxCalls \in Nat
    /\ StaleUses \subseteq {"selfpipe", "evloop", "plugin"}

VARIABLES
    inits,     \* calls of crtx_init so far
    active,    \* crtx_root->initialized
    gtable,    \* crtx_root->graphs
    glive,     \* graphs that are allocated
    plugins,   \* crtx_root->plugins: the files
    repo,      \* listener_repository: per plugin, the inits that added it
    spipeOf,   \* selfpipe_lstnr: 0, or the init it was created in
    writer,    \* per thread: writes done for the callback, callbacks queued
    selfpipe,  \* what is in the self pipe: <<kind, writer, number>>
    called,    \* callbacks that were called: <<cb, cb_data>>
    evthread,  \* evloop_thread: 0, or the init it was started in
    stale      \* what was used or freed again after crtx_finish freed it

rootVars == <<inits, active, gtable, glive, plugins, repo, spipeOf, writer,
              selfpipe, called, evthread, stale>>

PluginNames == {PluginName[f] : f \in PluginFiles}

Idle == [done |-> 0, calls |-> 0]

RootInit ==
    /\ inits = 0
    /\ active = FALSE
    /\ gtable = <<>>
    /\ glive = {}
    /\ plugins = {}
    /\ repo = [n \in PluginNames |-> <<>>]
    /\ spipeOf = 0
    /\ writer = [w \in Writers |-> Idle]
    /\ selfpipe = <<>>
    /\ called = <<>>
    /\ evthread = 0
    /\ stale = {}

(* What the pointers of kind k to objects of init i lead to.               *)
StaleUse(k, i) == IF i \in {0, inits} THEN {} ELSE {k}

---------------------------------------------------------------------------
(* Faulty variant: a plugin that is loaded already is loaded again.        *)
LoadedAgain(P) == P = PluginFiles

(* load_plugin: of the files with one name the first is loaded, whichever  *)
(* readdir() returns first.                                                *)
Loaded(P) == \A n \in PluginNames : Cardinality({f \in P : PluginName[f] = n}) = 1

(* crtx_init with load_plugins; a plugin that dlopen() refuses has no      *)
(* listeners.                                                              *)
CrtxInit ==
    /\ ~active
    /\ inits < MaxInits
    /\ spipeOf # 0 => "selfpipe" \in StaleUses
    /\ evthread # 0 => "evloop" \in StaleUses
    /\ active' = TRUE
    /\ inits' = inits + 1
    /\ \E P \in SUBSET PluginFiles :
          /\ Loaded(P)
          /\ plugins' = P
          /\ repo' = [n \in PluginNames |->
                         repo[n] \o [i \in 1..Cardinality({f \in P \ BrokenFiles : PluginName[f] = n})
                                         |-> inits + 1]]
    /\ UNCHANGED <<gtable, glive, spipeOf, writer, selfpipe, called, evthread, stale>>

(* crtx_finish: listeners and graphs are freed, the detached event loop is *)
(* stopped and waited for, the plugins closed and the self pipe freed.     *)
CrtxFinish ==
    /\ active
    /\ \A w \in Writers : writer[w].done = 0
    /\ active' = FALSE
    /\ gtable' = <<>>
    /\ glive' = {}
    /\ plugins' = {}
    /\ selfpipe' = <<>>
    /\ called' = <<>>
    /\ writer' = [w \in Writers |-> Idle]
    /\ stale' = stale \cup StaleUse("evloop", evthread) \cup StaleUse("selfpipe", spipeOf)
    /\ UNCHANGED <<inits, repo, spipeOf, evthread>>

(* crtx_setup_listener for a listener of a plugin: the first entry.        *)
SetupPluginListener(n) ==
    /\ active
    /\ repo[n] # <<>>
    /\ inits # 1 => "plugin" \in StaleUses
    /\ stale' = stale \cup StaleUse("plugin", Head(repo[n]))
    /\ UNCHANGED <<inits, active, gtable, glive, plugins, repo, spipeOf, writer,
                   selfpipe, called, evthread>>

(* crtx_start_detached_event_loop: the thread is returned if there is one. *)
StartDetachedLoop ==
    /\ active
    /\ evthread' = IF evthread = 0 THEN inits ELSE evthread
    /\ stale' = stale \cup StaleUse("evloop", evthread)
    /\ UNCHANGED <<inits, active, gtable, glive, plugins, repo, spipeOf, writer,
                   selfpipe, called>>

---------------------------------------------------------------------------
(* The table of graphs.                                                    *)

FreeSlots == {i \in DOMAIN gtable : gtable[i] = NoGraph}

(* crtx_create_graph, crtx_init_graph: the first free slot, or a new one.  *)
CreateGraph(g) ==
    /\ active
    /\ g \notin glive
    /\ glive' = glive \cup {g}
    /\ gtable' = IF FreeSlots = {} THEN Append(gtable, g)
                 ELSE [gtable EXCEPT ![CHOOSE i \in FreeSlots :
                                          \A j \in FreeSlots : i <= j] = g]
    /\ UNCHANGED <<inits, active, plugins, repo, spipeOf, writer, selfpipe, called,
                   evthread, stale>>

(* Faulty variant: the slot is not cleared.                                *)
TableWithoutNot(g) == gtable

(* shutdown_graph_intern: the slot of the graph is cleared.                *)
TableWithout(g) == [i \in DOMAIN gtable |-> IF gtable[i] = g THEN NoGraph ELSE gtable[i]]

(* crtx_free_graph.                                                        *)
FreeGraph(g) ==
    /\ active
    /\ g \in glive
    /\ glive' = glive \ {g}
    /\ gtable' = TableWithout(g)
    /\ UNCHANGED <<inits, active, plugins, repo, spipeOf, writer, selfpipe, called,
                   evthread, stale>>

---------------------------------------------------------------------------
(* The self pipe.                                                          *)

(* The three writes of crtx_selfpipe_enqueue_cb, the first after           *)
(* selfpipe_setup.                                                         *)
SelfpipeWrite(w) ==
    /\ active
    /\ writer[w].calls < MaxCalls
    /\ spipeOf' = IF spipeOf = 0 THEN inits ELSE spipeOf
    /\ selfpipe' = Append(selfpipe, << <<"value", "cb", "data">>[writer[w].done + 1],
                                       w, writer[w].calls + 1 >>)
    /\ writer' = [writer EXCEPT ![w].done = (@ + 1) % 3,
                                ![w].calls = IF writer[w].done = 2 THEN @ + 1 ELSE @]
    /\ stale' = stale \cup StaleUse("selfpipe", spipeOf)
    /\ UNCHANGED <<inits, active, gtable, glive, plugins, repo, called, evthread>>

(* Faulty variant: the callback is taken from what was read first.         *)
ReadCallSwapped(q) == <<q[3], q[2]>>

(* What selfpipe_event_handler reads after the value: cb and cb_data.      *)
ReadCall(q) == <<q[2], q[3]>>

(* selfpipe_event_handler: read() blocks until all three parts are there;  *)
(* another value than 1 is dropped.                                        *)
SelfpipeHandler ==
    /\ active
    /\ selfpipe # <<>>
    /\ IF Head(selfpipe)[1] # "value"
       THEN /\ selfpipe' = Tail(selfpipe)
            /\ UNCHANGED called
       ELSE /\ Len(selfpipe) >= 3
            /\ selfpipe' = SubSeq(selfpipe, 4, Len(selfpipe))
            /\ called' = Append(called, ReadCall(selfpipe))
    /\ UNCHANGED <<inits, active, gtable, glive, plugins, repo, spipeOf, writer, evthread,
                   stale>>

RootNext ==
    \/ CrtxInit \/ CrtxFinish \/ StartDetachedLoop \/ SelfpipeHandler
    \/ \E n \in PluginNames : SetupPluginListener(n)
    \/ \E g \in RootGraphs : CreateGraph(g) \/ FreeGraph(g)
    \/ \E w \in Writers : SelfpipeWrite(w)

(* A thread that began to write a callback goes on; the loop runs.         *)
RootFairness ==
    /\ WF_rootVars(SelfpipeHandler)
    /\ \A w \in Writers : WF_rootVars(writer[w].done # 0 /\ SelfpipeWrite(w))

RootSpec == RootInit /\ [][RootNext]_rootVars /\ RootFairness

---------------------------------------------------------------------------
(* Properties.                                                             *)

RootTypeOK ==
    /\ inits \in 0..MaxInits
    /\ active \in BOOLEAN
    /\ gtable \in Seq(RootGraphs \cup {NoGraph})
    /\ glive \subseteq RootGraphs
    /\ plugins \subseteq PluginFiles
    /\ repo \in [PluginNames -> Seq(1..MaxInits)]
    /\ spipeOf \in 0..MaxInits
    /\ writer \in [Writers -> [done : 0..2, calls : 0..MaxCalls]]
    /\ evthread \in 0..MaxInits
    /\ stale \subseteq {"selfpipe", "evloop", "plugin"}

(* core.c, crtx_init_graph and shutdown_graph_intern: crtx_flush_events    *)
(* and crtx_finish walk the table, so over any sequence of creating and    *)
(* freeing graphs, and over crtx_finish, it holds every graph that is      *)
(* allocated exactly once and no freed one.                                *)
TableHoldsLiveGraphs ==
    \A g \in RootGraphs :
        Cardinality({i \in DOMAIN gtable : gtable[i] = g}) = (IF g \in glive THEN 1 ELSE 0)

(* core.c, load_plugin ("already loaded"): a file with the name of another *)
(* one does not add a second entry, also after crtx_finish and crtx_init.  *)
PluginsLoadOnce ==
    \A n \in PluginNames : Cardinality({i \in DOMAIN repo[n] : repo[n][i] = inits}) <= 1

(* core.h, reinit_after_shutdown ("reinitialize libcortex after a fork"):  *)
(* the library starts afresh when crtx_finish and crtx_init were called,   *)
(* so no crtx_finish, and no use of the self pipe, the detached event loop *)
(* or a plugin, touches what an earlier crtx_finish freed or closed.       *)
ReinitStartsAfresh == stale = {}

(* core.c, selfpipe_event_handler: every function that was queued is       *)
(* called with its own data.                                               *)
CallbacksAsQueued ==
    \A i \in DOMAIN called :
        /\ called[i][1][1] = "cb"
        /\ called[i][2][1] = "data"
        /\ \A j \in {1, 2} : called[i][j][2] = called[i][1][2] /\ called[i][j][3] = called[i][1][3]

(* core.c, crtx_selfpipe_enqueue_cb: a function that was queued is called  *)
(* by the event loop unless the library is finished first; oneshot timers  *)
(* are freed this way.                                                     *)
QueuedIsCalled ==
    \A w \in Writers :
        (writer[w].calls = MaxCalls) ~> (~active \/ Len(called) >= MaxCalls)

(* core.c: the tables of crtx_root and the self pipe lead to what exists.  *)
RootIsSound ==
    /\ RootTypeOK /\ TableHoldsLiveGraphs /\ PluginsLoadOnce /\ CallbacksAsQueued
    /\ ReinitStartsAfresh

=============================================================================
