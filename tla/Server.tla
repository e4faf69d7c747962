-------------------------------- MODULE Server --------------------------------
(***************************************************************************)
(* engine::server (src/engine/net/server.h) with engine::net_manager       *)
(* (net_manager.h) and the handler of the application (app/main.cpp): many *)
(* sessions, the maps that keep them, the map of contexts through which    *)
(* scripts reach them, and the threads that share two locks.               *)
(*                                                                         *)
(* A session goes through the stages that SessionLife promises and Session *)
(* implements ("none": not accepted yet; "new": start() has not returned). *)
(* What goes wrong inside of one is Session's matter: here it may end the  *)
(* process at any step.  An event of a session goes where Pipeline says.   *)
(*                                                                         *)
(* Only the write side of the server's lock is used.  One section of it    *)
(* has more than one step, the sweep for idle sessions; each other one is  *)
(* a step that waits for the end of the sweep.  net_manager's mutex is     *)
(* held through a script's callback.                                       *)
(***************************************************************************)
EXTENDS Pipeline

CONSTANTS
    MaxId,             \* bound: connections that are accepted
    MaxUnread,         \* bound: fire_reads posted at a time for a session
    Acc, Main,         \* the accept thread and the main thread
    IoPool, WorkPool,  \* the threads of the two pools
    Nobody,            \* nobody holds the mutex
    CallbacksCall,     \* whether callbacks of the script call the functions of net_manager
    MainCalls          \* which of them test_write_message of the script may call

Io      == {IoPool[k] : k \in 1..Len(IoPool)}
WorkTh  == {WorkPool[k] : k \in 1..Len(WorkPool)}
Threads == {Acc, Main} \cup Io \cup WorkTh
Api     == {"write_message", "close_connection", "add_timer", "remove_timer"}

ASSUME ServerAssumption ==
    /\ MaxId \in Nat /\ MaxUnread \in Nat /\ CallbacksCall \in BOOLEAN /\ MainCalls \subseteq Api
    /\ Len(IoPool) \in Nat \ {0} /\ Len(WorkPool) \in Nat \ {0}
    /\ Acc \notin {Main} \cup Io \cup WorkTh /\ Main \notin Io \cup WorkTh
    /\ Io \cap WorkTh = {} /\ Nobody \notin Threads

Ids == 1..MaxId

VARIABLES
    stage,                  \* per session: where it is in its life
    unread,                 \* per session: work_read_count_
    session_map, wait_map,  \* the server's maps (wait_map: wait_remove_session_map_)
    contexts,               \* net_manager's context_map_
    mutex,                  \* net_manager's mutex_: who holds it
    pc, at,                 \* per thread: where it is, and for which session
    dead                    \* the process has ended

vars == <<stage, unread, session_map, wait_map, contexts, mutex, pc, at, dead>>
maps == <<session_map, wait_map>>

-----------------------------------------------------------------------------
(* get_io_service: a pool deals out its threads in turn. *)
IoOf(i)   == IoPool[((i - 1) % Len(IoPool)) + 1]
WorkOf(i) == WorkPool[((i - 1) % Len(WorkPool)) + 1]

(* init_handlers: a decoder, which passes on, and the script's handler,    *)
(* which keeps what comes from the session.                                *)
App   == AddHandler(AddHandler(NewPipeline, "decoder"), "script")
Keeps == {"script"} \X Upward

Hears(e)   == "script" \in Sees(App, Keeps, e, "head")
Reaches(e) == "head" \in Sees(App, Keeps, e, "script")

Goto(th, l)      == pc' = [pc EXCEPT ![th] = l] /\ UNCHANGED at
GotoFor(th, l, i) == pc' = [pc EXCEPT ![th] = l] /\ at' = [at EXCEPT ![th] = i]

(* The server's lock is taken for longer than a step. *)
Locked_Never == FALSE
Locked == pc[Acc] \in {"sweep", "idleClose"}

PerSession(x) == [i \in Ids |-> x]
PerThread(x)  == [th \in Threads |-> x]

Alive(i) == stage[i] \notin {"none", "gone"}

(* session::close(), for what a keeper of the session can see of it *)
Asked(i) == [stage EXCEPT ![i] = IF @ \in {"new", "open"} THEN "closing" ELSE @]

(* An exception in an io_service, LOGF(FATAL), an error in a script, or    *)
(* two threads inside the one Lua state: nothing is left.                  *)
ProcessEnds ==
    /\ stage' = PerSession("none") /\ unread' = PerSession(0)
    /\ session_map' = {} /\ wait_map' = {} /\ contexts' = {}
    /\ mutex' = Nobody /\ pc' = PerThread("idle") /\ at' = PerThread(0)
    /\ dead' = TRUE

-----------------------------------------------------------------------------
(* The accept thread: handle_accept, from the map to start(). *)
HandleAccept(i) ==
    /\ pc[Acc] = "idle" /\ stage[i] = "none" /\ \A j \in 1..i - 1 : stage[j] # "none"
    /\ session_map' = session_map \cup {i}
    /\ stage' = [stage EXCEPT ![i] = "new"]
    /\ GotoFor(Acc, IF Hears("connect") THEN "connect" ELSE "read", i)
    /\ UNCHANGED <<unread, wait_map, contexts, mutex, dead>>

(* net_manager::on_connect, up to the script *)
OnConnect_Unlocked ==
    /\ pc[Acc] = "connect"
    /\ contexts' = contexts \cup {at[Acc]}
    /\ Goto(Acc, "read")
    /\ UNCHANGED <<stage, unread, maps, mutex, dead>>

OnConnect ==
    /\ pc[Acc] = "connect" /\ mutex = Nobody
    /\ mutex' = Acc
    /\ contexts' = contexts \cup {at[Acc]}
    /\ Goto(Acc, "inConnect")
    /\ UNCHANGED <<stage, unread, maps, dead>>

(* start() ends with read() *)
StartReading ==
    /\ pc[Acc] = "read"
    /\ stage' = [stage EXCEPT ![at[Acc]] = IF @ = "new" THEN "open" ELSE @]
    /\ GotoFor(Acc, "idle", 0)
    /\ UNCHANGED <<unread, maps, contexts, mutex, dead>>

(* handle_check_idle: the sweep over session_map_, by ascending id.  Which *)
(* session has handle_count_ = 0 is Session's matter.                      *)
CheckIdle ==
    /\ pc[Acc] = "idle"
    /\ GotoFor(Acc, "sweep", 0)
    /\ UNCHANGED <<stage, unread, maps, contexts, mutex, dead>>

FindIdle(i) ==
    /\ pc[Acc] = "sweep" /\ i \in session_map /\ i > at[Acc]
    /\ GotoFor(Acc, "idleClose", i)
    /\ UNCHANGED <<stage, unread, maps, contexts, mutex, dead>>

IdleClose ==
    /\ pc[Acc] = "idleClose"
    /\ wait_map' = wait_map \cup {at[Acc]}
    /\ stage' = Asked(at[Acc])
    /\ session_map' = session_map \ {at[Acc]}
    /\ Goto(Acc, "sweep")
    /\ UNCHANGED <<unread, contexts, mutex, dead>>

SweepEnds ==
    /\ pc[Acc] = "sweep"
    /\ GotoFor(Acc, "idle", 0)
    /\ UNCHANGED <<stage, unread, maps, contexts, mutex, dead>>

-----------------------------------------------------------------------------
(* The I/O thread of a session: an arrival, the end, and what follows it. *)
Arrives(i) ==
    /\ pc[IoOf(i)] = "idle" /\ stage[i] \in {"open", "closing"} /\ unread[i] < MaxUnread
    /\ unread' = [unread EXCEPT ![i] = @ + 1]
    /\ UNCHANGED <<stage, maps, contexts, mutex, pc, at, dead>>

(* an operation fails, or a handler calls close() *)
SessionEnds(i) ==
    /\ stage[i] = "open"
    /\ stage' = Asked(i)
    /\ UNCHANGED <<unread, maps, contexts, mutex, pc, at, dead>>

(* The socket is closed while handlers are still to return.  The last one  *)
(* finds close_flag_ set and posts the lambda of close_if_necessary, whose *)
(* shutdown throws on the closed socket: the process ends.                 *)
SocketCloses(i) ==
    /\ pc[IoOf(i)] = "idle" /\ stage[i] \in {"open", "closing"} /\ unread[i] > 0
    /\ stage' = [stage EXCEPT ![i] = "closed"]
    /\ UNCHANGED <<unread, maps, contexts, mutex, pc, at, dead>>

ClosesTwice(i) ==
    /\ pc[IoOf(i)] = "idle" /\ stage[i] = "closed" /\ unread[i] = 0
    /\ ProcessEnds

MayTell_WhenOpen(i) == stage[i] \in {"open", "closing"}
MayTell(i) == stage[i] = "closing"

(* fire_closed, by who closes the socket; the lambda of close_if_necessary *)
(* does not ask whether a handler is still to return.                      *)
FireClosed(i) ==
    /\ pc[IoOf(i)] = "idle" /\ MayTell(i)
    /\ stage' = [stage EXCEPT ![i] = "told"]
    /\ GotoFor(IoOf(i), IF Hears("notify_closed") THEN "clean" ELSE "remove", i)
    /\ UNCHANGED <<unread, maps, contexts, mutex, dead>>

(* net_manager::on_passive_clean, up to the script *)
ContextsWithout_AsTheyAre(i) == contexts
ContextsWithout(i) == contexts \ {i}

OnPassiveClean(th) ==
    /\ pc[th] = "clean" /\ mutex = Nobody
    /\ mutex' = th
    /\ contexts' = ContextsWithout(at[th])
    /\ Goto(th, "inClean")
    /\ UNCHANGED <<stage, unread, maps, dead>>

(* close_handler_: server::close_session *)
CloseSession(th) ==
    /\ pc[th] = "remove" /\ ~Locked
    /\ IF at[th] \in wait_map
       THEN wait_map' = wait_map \ {at[th]} /\ UNCHANGED session_map
       ELSE session_map' = session_map \ {at[th]} /\ UNCHANGED wait_map
    /\ stage' = [stage EXCEPT ![at[th]] = "gone"]
    /\ GotoFor(th, "idle", 0)
    /\ UNCHANGED <<unread, contexts, mutex, dead>>

-----------------------------------------------------------------------------
(* The work thread of a session: a posted fire_read, net_manager::on_message *)
FireRead(i) ==
    /\ pc[WorkOf(i)] = "idle" /\ unread[i] > 0 /\ Alive(i)
    /\ GotoFor(WorkOf(i), IF Hears("read") THEN "message" ELSE "inMessage", i)
    /\ UNCHANGED <<stage, unread, maps, contexts, mutex, dead>>

OnMessage(th) ==
    /\ pc[th] = "message" /\ mutex = Nobody
    /\ mutex' = th
    /\ Goto(th, "inMessage")
    /\ UNCHANGED <<stage, unread, maps, contexts, dead>>

-----------------------------------------------------------------------------
(* The script, called back under the mutex: it returns, or it calls one of *)
(* the functions of net_manager, each of which locks the mutex again.      *)
InCallback(th) == pc[th] \in {"inConnect", "inMessage", "inClean"}

Returns_WithoutRemoving == [inConnect |-> "read", inMessage |-> "idle", inClean |-> "idle"]
Returns == [inConnect |-> "read", inMessage |-> "idle", inClean |-> "remove"]

CallbackReturns(th) ==
    /\ InCallback(th)
    /\ mutex' = Nobody
    /\ Goto(th, Returns[pc[th]])
    /\ unread' = IF pc[th] = "inMessage" THEN [unread EXCEPT ![at[th]] = @ - 1] ELSE unread
    /\ UNCHANGED <<stage, maps, contexts, dead>>

CallbackLocksAgain(th) ==
    /\ CallbacksCall /\ InCallback(th)
    /\ Goto(th, "stuck")
    /\ UNCHANGED <<stage, unread, maps, contexts, mutex, dead>>

-----------------------------------------------------------------------------
(* The main thread calls test_write_message once, without the mutex, and   *)
(* the script one of the functions of net_manager, which take it and give  *)
(* it back.  write_message looks up a session and writes to its context if *)
(* there is one; that and the timers change nothing of this state.         *)
TestWriteMessage(f) ==
    /\ pc[Main] = "idle" /\ f \in MainCalls
    /\ Goto(Main, f)
    /\ UNCHANGED <<stage, unread, maps, contexts, mutex, dead>>

WriteOrTimer ==
    /\ pc[Main] \in Api \ {"close_connection"} /\ mutex = Nobody
    /\ Goto(Main, "done")
    /\ UNCHANGED <<stage, unread, maps, contexts, mutex, dead>>

(* close_connection never sets its iterator: it may equal the end, or be   *)
(* the one of any context, or nothing at all (and the process ends).       *)
CloseConnection ==
    /\ pc[Main] = "close_connection" /\ mutex = Nobody
    /\ Goto(Main, "done")
    /\ \/ UNCHANGED <<stage, contexts>>
       \/ \E i \in contexts : /\ contexts' = ContextsWithout(i)
                               /\ stage' = IF Reaches("close") THEN Asked(i) ELSE stage
    /\ UNCHANGED <<unread, maps, mutex, dead>>

-----------------------------------------------------------------------------
Init ==
    /\ stage = PerSession("none") /\ unread = PerSession(0)
    /\ session_map = {} /\ wait_map = {} /\ contexts = {}
    /\ mutex = Nobody /\ pc = PerThread("idle") /\ at = PerThread(0)
    /\ dead = FALSE

AcceptStep ==
    \/ \E i \in Ids : HandleAccept(i) \/ FindIdle(i)
    \/ OnConnect \/ StartReading \/ CheckIdle \/ IdleClose \/ SweepEnds

SessionStep ==
    \E i \in Ids : Arrives(i) \/ SessionEnds(i) \/ SocketCloses(i) \/ ClosesTwice(i)
                   \/ FireClosed(i) \/ FireRead(i)

ThreadStep ==
    \/ \E th \in Io : OnPassiveClean(th) \/ CloseSession(th)
    \/ \E th \in WorkTh : OnMessage(th)
    \/ \E th \in Threads : CallbackReturns(th) \/ CallbackLocksAgain(th)

MainStep ==
    \/ WriteOrTimer \/ CloseConnection
    \/ \E f \in Api : TestWriteMessage(f)

Next == ~dead /\ (AcceptStep \/ SessionStep \/ ThreadStep \/ MainStep \/ ProcessEnds)

Spec == Init /\ [][Next]_vars

(* Every thread goes on; a callback returns unless it locks again.  A      *)
(* session that was asked to close need not: handle_write may leave it     *)
(* closing (NoLimbo of Session), so FireClosed and SocketCloses are not    *)
(* fair.  A thread that wants a lock gets it in the end, since sweeps are  *)
(* 30 s apart and callbacks end; a posted fire_read is run in its turn.    *)
Fairness ==
    /\ WF_vars(~dead /\ (StartReading \/ IdleClose \/ SweepEnds))
    /\ SF_vars(~dead /\ OnConnect)
    /\ \A i \in Ids : /\ WF_vars(~dead /\ ClosesTwice(i))
                     /\ SF_vars(~dead /\ FireRead(i))
    /\ WF_vars(~dead /\ \E th \in Threads : CallbackReturns(th) \/ CallbackLocksAgain(th))
    /\ \A th \in Io : SF_vars(~dead /\ (OnPassiveClean(th) \/ CloseSession(th)))
    /\ \A th \in WorkTh : SF_vars(~dead /\ OnMessage(th))

FairSpec == Spec /\ Fairness

-----------------------------------------------------------------------------
Labels == {"idle", "connect", "inConnect", "read", "sweep", "idleClose", "clean", "inClean",
           "remove", "message", "inMessage", "stuck", "done"} \cup Api

TypeOK ==
    /\ stage \in [Ids -> {"none", "new", "open", "closing", "closed", "told", "gone"}]
    /\ unread \in [Ids -> 0..MaxUnread]
    /\ session_map \subseteq Ids /\ wait_map \subseteq Ids /\ contexts \subseteq Ids
    /\ mutex \in Threads \cup {Nobody}
    /\ pc \in [Threads -> Labels]
    /\ at \in [Threads -> Ids \cup {0}]
    /\ dead \in BOOLEAN

(* The raw pointers of context_map_ never dangle, so that write_message    *)
(* reaches a session that still exists; and every session that is being    *)
(* read can be reached.                                                    *)
ContextsExact ==
    /\ \A i \in contexts : Alive(i)
    /\ \A i \in Ids : stage[i] = "open" => i \in contexts

(* One map and only one keeps a session, from its accept until it was told *)
(* of its end: none is destroyed early and none is kept for ever.          *)
InOneMap ==
    /\ session_map \cap wait_map = {}
    /\ \A i \in Ids : Alive(i) <=> i \in session_map \cup wait_map

(* A session whose socket is closed is let go of (unless the process ends, *)
(* or a callback of the script waits for the mutex that is held for it).   *)
Stuck == \E th \in Threads : pc[th] = "stuck"

EndedSessionsLeave ==
    \A i \in Ids : stage[i] \in {"closed", "told"} ~> (stage[i] = "gone" \/ dead \/ Stuck)

(* One callback that calls a function of net_manager stops it for good:    *)
(* no context comes or goes any more, whatever the threads do, until the    *)
(* process ends.                                                           *)
StuckStopsAll == [][Stuck /\ ~dead' => UNCHANGED <<contexts, mutex>>]_vars

(* Every session goes the way SessionLife promises, one step of it at a    *)
(* time, whichever threads close it and let go of it.                      *)
StageOf(i) == IF stage[i] \in {"none", "new"} THEN "open" ELSE stage[i]

Life(i) == INSTANCE SessionLife WITH stage <- StageOf(i)

FollowsLife ==
    [][\A i \in Ids : dead' \/ Life(i)!Next \/ UNCHANGED StageOf(i)]_vars
=============================================================================
