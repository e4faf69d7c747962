------------------------------- MODULE Session -------------------------------
(***************************************************************************)
(* engine::session (src/engine/net/session.h): one TCP connection driven   *)
(* by callbacks on an I/O thread, by user handlers on a work thread, and   *)
(* by the accept thread, which starts it and collects it when idle.        *)
(*                                                                         *)
(* A thread runs the tasks of its io_service one by one.  The task it runs *)
(* stays at the head of its queue until the last line of it has run, and   *)
(* pc[th] says where in it the thread is.  Two accesses to state that      *)
(* another thread can see are two steps, unless no other thread can tell   *)
(* their order.  A client gives the session one io_service for both roles  *)
(* (client.h:29-31), so that one thread runs every task: Shared.  In place *)
(* of the accept thread it has a thread of its user; see Client.           *)
(*                                                                         *)
(* Bytes are counted in units; which byte follows which is the matter of   *)
(* AsioBuffer.  Socket calls (asio) are single steps.  Definitions with a  *)
(* suffix (Name_Slip) are mutants of the definition Name.                  *)
(***************************************************************************)
EXTENDS Integers, Sequences, FiniteSets

CONSTANTS Shared,       \* TRUE: a client's session; FALSE: a server's
          Mask,         \* read_high_water_mask_ (0: none)
          MaxIn,        \* bound: units the peer ever sends
          MaxOut,       \* bound: units the user ever writes
          SizeMod,      \* pending_write_len_ is a size_t: arithmetic modulo this
          PeerMayReset  \* whether the peer may reset the connection

ASSUME SessionAssumption ==
    /\ Shared \in BOOLEAN /\ PeerMayReset \in BOOLEAN
    /\ Mask \in Nat /\ MaxIn \in Nat /\ MaxOut \in Nat
    /\ SizeMod \in Nat /\ SizeMod > 2 * MaxOut + 2

VARIABLES
    s,           \* the members of the session; readable bytes of its buffers (rbuf,
                 \* wbuf); the read buffer's notification (notify, high_water)
    net,         \* the socket: sock is "open", "shut" (both ways) or "closed"; reads
                 \* and writes are the outstanding operations (writes: their lengths)
    env,         \* the peer; units it sent; units the user wrote
    queue, pc,   \* per thread: the tasks of its io_service; where it is
    in_handler,  \* the work thread is inside pipeline_->fire_read
    life         \* the map of the server that holds the session, how often
                 \* fire_closed ran, and how the process ended, if it did; history:
                 \* passed, once handle_write left closing to an idle write()

vars == <<s, net, env, queue, pc, in_handler, life>>

-----------------------------------------------------------------------------
(* Threads and tasks. *)
Work    == IF Shared THEN "io" ELSE "work"
Runners == {"io", Work}
Threads == Runners \cup {"acc"}

Task(op, n) == [op |-> op, n |-> n]

Post(q, th, t) == [q EXCEPT ![th] = Append(@, t)]
Pop(q, th)     == [q EXCEPT ![th] = Tail(@)]

Runs(th, op)   == th \in Runners /\ queue[th] # <<>> /\ Head(queue[th]).op = op
Begins(th, op) == pc[th] = "idle" /\ Runs(th, op)
Length(th)     == Head(queue[th]).n

Go(q, th, l)   == queue' = q /\ pc' = [pc EXCEPT ![th] = l] /\ UNCHANGED in_handler
Goto(th, l)    == Go(queue, th, l)
Finish(th)     == Go(Pop(queue, th), th, "idle")

(* A branch on something another thread may change, and nothing else. *)
Test(th, l, b, yes, no) ==
    pc[th] = l /\ Goto(th, IF b THEN yes ELSE no) /\ UNCHANGED <<s, net, env, life>>

(* Where a call made by th returns to: server::handle_check_idle or the    *)
(* user, the handler, or the end of the task.                              *)
Return(th, q) ==
    IF th = "acc" THEN Go(q, th, IF Shared THEN "idle" ELSE "erase")
    ELSE IF in_handler THEN Go(q, th, "user")
    ELSE Go(Pop(q, th), th, "idle")

(* Who keeps the session alive: a map of the server, or a `self` on the    *)
(* stack of a thread.  Queued lambdas do not: they capture `&self`.        *)
Holds(th) ==
    \/ pc[th] \in {"readStart", "postWrite", "cnCount", "cnReading", "cnCancel"}
    \/ pc[th] = "cnFlag" /\ in_handler
    \/ th = "acc" /\ pc[th] # "idle"

Freed   == life.where = "none" /\ \A th \in Threads \ {"io"} : ~Holds(th)
Running == life.crashed = "no" /\ ~Freed

-----------------------------------------------------------------------------
(* asio: what completes an operation is posted to the I/O queue, and an    *)
(* operation begun on a closed socket completes with an error.             *)
Repeat(t, n) == [i \in 1..n |-> t]

Aborted(q) ==
    [q EXCEPT !["io"] = @ \o Repeat(Task("read_end", 0), net.reads)
                          \o Repeat(Task("write_end", 0), Len(net.writes))]

StartRead(th, q, l) ==
    IF net.sock = "closed"
    THEN Go(Post(q, "io", Task("read_error", 0)), th, l) /\ UNCHANGED net
    ELSE Go(q, th, l) /\ net' = [net EXCEPT !.reads = @ + 1]

StartWrite(th, q, l) ==
    IF net.sock = "closed"
    THEN Go(Post(q, "io", Task("write_error", 0)), th, l) /\ UNCHANGED net
    ELSE Go(q, th, l) /\ net' = [net EXCEPT !.writes = Append(@, s.wbuf)]

(* shutdown throws on a closed socket, and on one that is not connected,   *)
(* not yet or not any more; the exception leaves io_service::run and ends  *)
(* the process.                                                            *)
ShutdownMayThrow ==
    \/ net.sock = "closed" \/ env.peer \in {"none", "refused", "reset"}
    \/ net.sock = "shut" /\ env.peer = "fin"
ShutdownMayPass == net.sock # "closed" /\ env.peer \notin {"refused", "reset"}

Crash(how) ==
    life' = [life EXCEPT !.crashed = how] /\ UNCHANGED <<s, net, env, queue, pc, in_handler>>

SocketClose_ShutdownOnly == [net EXCEPT !.sock = "shut", !.reads = 0, !.writes = <<>>]
SocketClose == [net EXCEPT !.sock = "closed", !.reads = 0, !.writes = <<>>]

(* socket_.close(), and on to l *)
CloseAndGo(l) == net' = SocketClose /\ Go(Aborted(queue), "io", l)

-----------------------------------------------------------------------------
(* The I/O thread: handle_read. *)

HandleRead ==
    /\ Begins("io", "read_ok")
    /\ s' = [s EXCEPT !.handle_count = @ + 1, !.reading = FALSE, !.rbuf = @ + Length("io")]
    /\ Goto("io", "closeTest")
    /\ UNCHANGED <<net, env, life>>

(* End of stream, or the operation was aborted: close_after_last_read at   *)
(* once.  handle_count_ is not given back.                                 *)
HandleReadEnd ==
    /\ Begins("io", "read_end")
    /\ s' = [s EXCEPT !.handle_count = @ + 1, !.reading = FALSE, !.close_flag = TRUE]
    /\ \/ s.writing /\ Finish("io") /\ UNCHANGED net
       \/ ~s.writing /\ ShutdownMayPass /\ CloseAndGo("countTest")
    /\ UNCHANGED <<env, life>>

HandleReadEndThrows ==
    Begins("io", "read_end") /\ ~s.writing /\ ShutdownMayThrow /\ Crash("throw")

(* Any other error is logged with LOGF(FATAL), which ends the process. *)
HandleError ==
    /\ Begins("io", "read_error") \/ Begins("io", "write_error")
    /\ Crash("fatal")

CloseAfterLastRead ==
    \/ Test("io", "closeTest", FALSE, "", "maskTest") /\ ~(s.close_flag /\ ~s.writing)
    \/ /\ pc["io"] = "closeTest" /\ s.close_flag /\ ~s.writing
       /\ \/ ShutdownMayThrow /\ Crash("throw")
          \/ ShutdownMayPass /\ CloseAndGo("countTest") /\ UNCHANGED <<s, env, life>>

BelowMask == Mask = 0 \/ s.rbuf < Mask

MaskTest == Test("io", "maskTest", BelowMask, "readSet", "arm1")

(* set_notify_behind_high_water_mask: two assignments *)
AfterArm_Reads == "readSet"
AfterArm == "postRead"

Arm ==
    /\ \/ /\ pc["io"] = "arm1" /\ Goto("io", "arm2")
          /\ s' = [s EXCEPT !.notify = TRUE]
       \/ /\ pc["io"] = "arm2" /\ Goto("io", AfterArm)
          /\ s' = [s EXCEPT !.high_water = Mask]
    /\ UNCHANGED <<net, env, life>>

PostFireRead ==
    /\ pc["io"] = "postRead"
    /\ s' = [s EXCEPT !.work_read_count = @ + 1]
    /\ Go(Pop(Post(queue, Work, Task("fire_read", 0)), "io"), "io", "idle")
    /\ UNCHANGED <<net, env, life>>

-----------------------------------------------------------------------------
(* read(), by the thread that starts the session, by handle_read, or by    *)
(* the consumer that the notification called.                              *)
AfterRead(th) == CASE th = "acc"             -> "idle"
                   [] Runs(th, "fire_read") -> "clear1"
                   [] Runs(th, "connected") -> "started"
                   [] OTHER                 -> "postRead"

ReadFlagged == [s EXCEPT !.reading = TRUE]

ReadSet(th) ==
    /\ pc[th] = "readSet"
    /\ s' = ReadFlagged
    /\ Goto(th, "readStart")
    /\ UNCHANGED <<net, env, life>>

ReadStart(th) ==
    /\ pc[th] = "readStart"
    /\ StartRead(th, queue, AfterRead(th))
    /\ UNCHANGED <<s, env, life>>

-----------------------------------------------------------------------------
(* The I/O thread: write(), always the last call of the running task: the  *)
(* task posted by notify_write, or handle_write, which has looked at       *)
(* pending_write_len_ before.  What it finds in the buffer when it starts  *)
(* the operation may be more than when it looked.                          *)
MayWrite == ~s.writing /\ s.pending # 0

(* handle_write leaves what is to be done to a write() that does nothing.  *)
Passes == pc["io"] = "writeOn" /\ s.close_flag

Write ==
    /\ Begins("io", "write") \/ pc["io"] = "writeOn"
    /\ \/ MayWrite /\ Goto("io", "writeSet") /\ UNCHANGED life
       \/ ~MayWrite /\ Finish("io") /\ life' = [life EXCEPT !.passed = @ \/ Passes]
    /\ UNCHANGED <<s, net, env>>

WriteSet ==
    /\ pc["io"] = "writeSet"
    /\ s' = [s EXCEPT !.writing = TRUE]
    /\ Goto("io", "writeStart")
    /\ UNCHANGED <<net, env, life>>

WriteCounted_Not == s
WriteCounted == [s EXCEPT !.handle_count = @ + 1]

WriteStart ==
    /\ pc["io"] = "writeStart"
    /\ s' = WriteCounted
    /\ StartWrite("io", Pop(queue, "io"), "idle")
    /\ UNCHANGED <<env, life>>

HandleWrite ==
    /\ Begins("io", "write_ok") \/ Begins("io", "write_end")
    /\ s' = [s EXCEPT !.handle_count = @ - 1]
    /\ Goto("io", IF Runs("io", "write_ok") THEN "wrote" ELSE "wroteEnd")
    /\ UNCHANGED <<net, env, life>>

StillPending_NotReduced(n) == s.pending
StillPending(n) == (s.pending - n) % SizeMod

Wrote ==
    /\ pc["io"] = "wrote"
    /\ s' = [s EXCEPT !.writing = FALSE, !.wbuf = @ - Length("io"),
                      !.pending = StillPending(Length("io"))]
    /\ Goto("io", "pendingTest")
    /\ UNCHANGED <<net, env, life>>

WroteEnd ==
    /\ pc["io"] = "wroteEnd"
    /\ s' = [s EXCEPT !.writing = FALSE, !.close_flag = TRUE]
    /\ Goto("io", "flagTest")
    /\ UNCHANGED <<net, env, life>>

WritesOn_Never == FALSE
WritesOn == s.pending # 0

PendingTest == Test("io", "pendingTest", WritesOn, "writeOn", "flagTest")

(* close_after_last_write *)
ClosesAfterWrite_Forgotten == FALSE
ClosesAfterWrite == s.close_flag

FlagTest ==
    /\ pc["io"] = "flagTest"
    /\ \/ ClosesAfterWrite /\ ShutdownMayThrow /\ Crash("throw")
       \/ /\ ClosesAfterWrite /\ ShutdownMayPass
          /\ net' = [net EXCEPT !.sock = "shut"]
          /\ Goto("io", "readingTest")
          /\ UNCHANGED <<s, env, life>>
       \/ ~ClosesAfterWrite /\ Finish("io") /\ UNCHANGED <<s, net, env, life>>

ReadingTest ==
    /\ pc["io"] = "readingTest"
    /\ \/ s.reading /\ Finish("io") /\ UNCHANGED net
       \/ ~s.reading /\ CloseAndGo("countTest")
    /\ UNCHANGED <<s, env, life>>

-----------------------------------------------------------------------------
(* The I/O thread: the end of the session. *)
HandlersDone_NotAsked == TRUE
HandlersDone == s.work_read_count = 0

FireClosed == life' = [life EXCEPT !.fired = @ + 1]

CountTest ==
    /\ pc["io"] = "countTest"
    /\ \/ HandlersDone /\ FireClosed /\ Goto("io", "remove")
       \/ ~HandlersDone /\ Finish("io") /\ UNCHANGED life
    /\ UNCHANGED <<s, net, env>>

(* the lambda of close_if_necessary *)
CloseLambda ==
    /\ Begins("io", "close")
    /\ \/ ShutdownMayThrow /\ Crash("throw")
       \/ ShutdownMayPass /\ CloseAndGo("remove") /\ FireClosed /\ UNCHANGED <<s, env>>

(* close_handler_: server::close_session, under the server's write lock.   *)
(* A client has no close_handler_ and keeps the session.                   *)
CloseHandler ==
    /\ pc["io"] = "remove"
    /\ pc["acc"] \in {"readSet", "readStart", "idle"}
    /\ life' = IF Shared THEN life ELSE [life EXCEPT !.where = "none"]
    /\ Finish("io")
    /\ UNCHANGED <<s, net, env>>

-----------------------------------------------------------------------------
(* The work thread: the posted fire_read, with any handler in it. *)
FireRead ==
    /\ Begins(Work, "fire_read")
    /\ in_handler' = TRUE
    /\ pc' = [pc EXCEPT ![Work] = "user"]
    /\ UNCHANGED <<s, net, env, queue, life>>

(* read_buffer()->retrieve(k), and then its look at the notification *)
Retrieve(k) ==
    /\ pc[Work] = "user" /\ k <= s.rbuf
    /\ s' = [s EXCEPT !.rbuf = @ - k]
    /\ Goto(Work, "notifyTest")
    /\ UNCHANGED <<net, env, life>>

MustNotify_OneLate == s.notify /\ s.rbuf < s.high_water - 1
MustNotify == s.notify /\ s.rbuf < s.high_water

NotifyTest == Test(Work, "notifyTest", MustNotify, "readSet", "user")

(* Only after the notification has run is it taken down. *)
Disarm ==
    /\ \/ /\ pc[Work] = "clear1" /\ Goto(Work, "clear2")
          /\ s' = [s EXCEPT !.notify = FALSE]
       \/ /\ pc[Work] = "clear2" /\ Goto(Work, "user")
          /\ s' = [s EXCEPT !.high_water = 0]
    /\ UNCHANGED <<net, env, life>>

(* write_buffer()->append: by a handler in place, or by the task that      *)
(* session::write posted                                                   *)
AppendBytes ==
    /\ \/ /\ pc[Work] = "user" /\ env.written < MaxOut
          /\ env' = [env EXCEPT !.written = @ + 1]
       \/ Begins(Work, "append") /\ UNCHANGED env
    /\ s' = [s EXCEPT !.wbuf = @ + 1]
    /\ Goto(Work, "pend")
    /\ UNCHANGED <<net, life>>

(* notify_write *)
Pend ==
    /\ pc[Work] = "pend"
    /\ s' = [s EXCEPT !.pending = (@ + 1) % SizeMod]
    /\ Goto(Work, "postWrite")
    /\ UNCHANGED <<net, env, life>>

PostWrite ==
    /\ pc[Work] = "postWrite"
    /\ Return(Work, Post(queue, "io", Task("write", 0)))
    /\ UNCHANGED <<s, net, env, life>>

(* a handler calls close(), once *)
Close ==
    /\ pc[Work] = "user" /\ ~s.close_flag
    /\ s' = [s EXCEPT !.close_flag = TRUE]
    /\ Goto(Work, "cnFlag")
    /\ UNCHANGED <<net, env, life>>

FireReadReturns ==
    /\ pc[Work] = "user"
    /\ in_handler' = FALSE
    /\ pc' = [pc EXCEPT ![Work] = "endHandle"]
    /\ UNCHANGED <<s, net, env, queue, life>>

HandlerCounted_Not == s
HandlerCounted == [s EXCEPT !.work_read_count = @ - 1]

EndTask ==
    /\ \/ /\ pc[Work] = "endHandle" /\ Goto(Work, "endCount")
          /\ s' = [s EXCEPT !.handle_count = @ - 1]
       \/ /\ pc[Work] = "endCount" /\ Goto(Work, "cnFlag")
          /\ s' = HandlerCounted
    /\ UNCHANGED <<net, env, life>>

-----------------------------------------------------------------------------
(* close_if_necessary: each condition is read for itself. *)
CloseIfNecessary(th) ==
    /\ \/ /\ pc[th] = "cnFlag"
          /\ IF s.close_flag /\ ~s.writing THEN Goto(th, "cnCount") ELSE Return(th, queue)
       \/ /\ pc[th] = "cnCount"
          /\ IF HandlersDone THEN Goto(th, "cnReading") ELSE Return(th, queue)
       \/ /\ pc[th] = "cnReading"
          /\ IF s.reading THEN Goto(th, "cnCancel")
                          ELSE Return(th, Post(queue, "io", Task("close", 0)))
    /\ UNCHANGED <<s, net, env, life>>

(* socket_.cancel() throws on a closed socket and aborts every operation,  *)
(* the write as well as the read.                                          *)
CancelAll_Nothing(th) == Return(th, queue) /\ UNCHANGED net
CancelAll(th) ==
    Return(th, Aborted(queue)) /\ net' = [net EXCEPT !.reads = 0, !.writes = <<>>]

Cancel(th) ==
    /\ pc[th] = "cnCancel"
    /\ \/ net.sock = "closed" /\ Crash("throw")
       \/ net.sock # "closed" /\ CancelAll(th) /\ UNCHANGED <<s, env, life>>

-----------------------------------------------------------------------------
(* The accept thread: server::handle_check_idle, under the write lock from *)
(* the test to the erase; its close() can come long after the test.        *)
CheckIdle ==
    /\ pc["acc"] = "idle" /\ life.where = "session_map" /\ s.handle_count = 0
    /\ Goto("acc", "idleClose")
    /\ UNCHANGED <<s, net, env, life>>

IdleClose ==
    /\ pc["acc"] = "idleClose"
    /\ s' = [s EXCEPT !.close_flag = TRUE]
    /\ Goto("acc", "cnFlag")
    /\ UNCHANGED <<net, env, life>>

Erase ==
    /\ pc["acc"] = "erase"
    /\ life' = [life EXCEPT !.where = "wait_remove"]
    /\ Goto("acc", "idle")
    /\ UNCHANGED <<s, net, env>>

-----------------------------------------------------------------------------
(* The peer, the kernel, and threads of the user outside the session. *)
Completes(t) == Go(Post(queue, "io", t), "io", pc["io"]) /\ UNCHANGED <<s, life>>

ReadCompletes(n) ==
    /\ net.reads > 0 /\ n <= MaxIn - env.received
    /\ net' = [net EXCEPT !.reads = @ - 1]
    /\ env' = [env EXCEPT !.received = @ + n]
    /\ Completes(Task("read_ok", n))

ReadEnds ==
    /\ net.reads > 0
    /\ net' = [net EXCEPT !.reads = @ - 1]
    /\ \/ (env.peer = "fin" \/ net.sock = "shut") /\ Completes(Task("read_end", 0))
       \/ env.peer = "reset" /\ Completes(Task("read_error", 0))
    /\ UNCHANGED env

(* A part of what was asked, or all of it; a write of nothing completes. *)
WriteEnds ==
    /\ net.writes # <<>>
    /\ net' = [net EXCEPT !.writes = Tail(@)]
    /\ LET len == Head(net.writes) IN
       \/ /\ len = 0 \/ (net.sock = "open" /\ env.peer \in {"open", "fin"})
          /\ \E n \in (IF len = 0 THEN {0} ELSE 1..len) : Completes(Task("write_ok", n))
       \/ /\ len # 0 /\ (net.sock = "shut" \/ env.peer \in {"refused", "reset"})
          /\ Completes(Task("write_error", 0))
    /\ UNCHANGED env

PeerCloses ==
    /\ \/ env.peer = "open" /\ env' = [env EXCEPT !.peer = "fin"]
       \/ PeerMayReset /\ env.peer \in {"open", "fin"} /\ env' = [env EXCEPT !.peer = "reset"]
    /\ UNCHANGED <<s, net, queue, pc, in_handler, life>>

(* session::write from a thread that is in none of the session's tasks *)
WritePosts ==
    /\ env.written < MaxOut
    /\ env' = [env EXCEPT !.written = @ + 1]
    /\ Go(Post(queue, Work, Task("append", 1)), "io", pc["io"])
    /\ UNCHANGED <<s, net, life>>

(* A task, or the completion of an operation, meets the session destroyed. *)
UseAfterFree ==
    /\ life.crashed = "no" /\ Freed
    /\ net.reads > 0 \/ net.writes # <<>> \/ \E th \in Runners : queue[th] # <<>>
    /\ Crash("use after free")

-----------------------------------------------------------------------------
NewSession == [reading |-> FALSE, writing |-> FALSE, close_flag |-> FALSE,
               work_read_count |-> 0, handle_count |-> 0, pending |-> 0,
               rbuf |-> 0, wbuf |-> 0, notify |-> FALSE, high_water |-> 0]

(* A handler may write a greeting of g units in fire_connect. *)
Greeted(r, g) == [r EXCEPT !.pending = @ + g, !.wbuf = @ + g]

(* A server's session begins in start(), on the accept thread, when        *)
(* fire_connect has returned.                                              *)
Init ==
    \E g \in {0, 1} \cap 0..MaxOut :
        /\ s = Greeted(NewSession, g)
        /\ net = [sock |-> "open", reads |-> 0, writes |-> <<>>]
        /\ env = [peer |-> "open", received |-> 0, written |-> g]
        /\ queue = [th \in Runners |->
                      IF th = "io" THEN Repeat(Task("write", 0), g) ELSE <<>>]
        /\ pc = [th \in Threads |-> IF th = "acc" THEN "readSet" ELSE "idle"]
        /\ in_handler = FALSE
        /\ life = [where |-> "session_map", fired |-> 0, passed |-> FALSE, crashed |-> "no"]

IoStep ==
    \/ HandleRead \/ HandleReadEnd \/ HandleReadEndThrows \/ HandleError
    \/ CloseAfterLastRead \/ MaskTest \/ Arm \/ PostFireRead
    \/ Write \/ WriteSet \/ WriteStart \/ HandleWrite \/ Wrote \/ WroteEnd
    \/ PendingTest \/ FlagTest \/ ReadingTest
    \/ CountTest \/ CloseLambda \/ CloseHandler

WorkStep ==
    \/ FireRead \/ (\E k \in 1..MaxIn : Retrieve(k)) \/ NotifyTest \/ Disarm
    \/ AppendBytes \/ Pend \/ PostWrite
    \/ Close \/ FireReadReturns \/ EndTask

AnyStep(th) == ReadSet(th) \/ ReadStart(th) \/ CloseIfNecessary(th) \/ Cancel(th)

AcceptStep == CheckIdle \/ IdleClose \/ Erase

EnvStep ==
    \/ \E n \in 1..MaxIn : ReadCompletes(n)
    \/ ReadEnds \/ WriteEnds \/ PeerCloses \/ WritePosts

Next ==
    \/ /\ Running
       /\ \/ IoStep \/ WorkStep \/ AcceptStep \/ EnvStep
          \/ \E th \in Threads : AnyStep(th)
    \/ UseAfterFree

Spec == Init /\ [][Next]_vars

(* Each thread goes on with the task it has; the system completes a read   *)
(* of a stream that has ended, and a write, since the peer reads what it   *)
(* is sent or goes away.  Nobody has to send, write, close or be idle.     *)
Fairness ==
    /\ WF_vars(Running /\ (IoStep \/ AnyStep("io")))
    /\ WF_vars(Running /\ (WorkStep \/ AnyStep(Work)))
    /\ WF_vars(Running /\ (IdleClose \/ Erase \/ AnyStep("acc")))
    /\ WF_vars(Running /\ ReadEnds)
    /\ WF_vars(Running /\ WriteEnds)

FairSpec == Spec /\ Fairness

-----------------------------------------------------------------------------
Labels == {"idle", "closeTest", "maskTest", "arm1", "arm2", "readSet", "readStart",
           "postRead", "writeOn", "writeSet", "writeStart", "wrote", "wroteEnd",
           "pendingTest", "flagTest", "readingTest", "countTest", "remove", "user",
           "notifyTest", "clear1", "clear2", "pend", "postWrite", "endHandle", "endCount",
           "cnFlag", "cnCount", "cnReading", "cnCancel", "idleClose", "erase", "started"}

Ops == {"read_ok", "read_end", "read_error", "write_ok", "write_end", "write_error",
        "write", "close", "fire_read", "append", "connected", "refused"}

Members == [reading : BOOLEAN, writing : BOOLEAN, close_flag : BOOLEAN,
            work_read_count : Nat, handle_count : Nat, pending : 0..SizeMod - 1,
            rbuf : Nat, wbuf : Nat, notify : BOOLEAN, high_water : {0, Mask}]
Sockets == [sock : {"open", "shut", "closed"}, reads : Nat, writes : Seq(Nat)]
Outside == [peer : {"none", "refused", "open", "fin", "reset"}, received : Nat, written : Nat]
Lives   == [where : {"session_map", "wait_remove", "none", "client"}, fired : Nat,
            passed : BOOLEAN, crashed : {"no", "throw", "fatal", "use after free"}]
Tasks   == [op : Ops, n : Nat]

TypeOK ==
    /\ s \in Members /\ net \in Sockets /\ env \in Outside /\ life \in Lives
    /\ queue \in [Runners -> Seq(Tasks)]
    /\ pc \in [Threads -> Labels]
    /\ in_handler \in BOOLEAN

Num(q, op)     == Cardinality({i \in DOMAIN q : q[i].op = op})
Count(th, op)  == Num(queue[th], op)
InTask(th, op) == pc[th] # "idle" /\ Runs(th, op)
If(b) == IF b THEN 1 ELSE 0

(* reading_ is TRUE exactly while one read is being started, outstanding   *)
(* or completed and not yet handled.                                       *)
ReadFlagTruthful ==
    If(s.reading) = Cardinality({th \in Threads : pc[th] = "readStart"}) + net.reads
        + Count("io", "read_ok") - If(InTask("io", "read_ok"))
        + Count("io", "read_end") - If(InTask("io", "read_end"))
        + Count("io", "read_error")

(* writing_ is TRUE exactly while one write is outstanding or completed    *)
(* and not yet accounted for.                                              *)
WriteFlagTruthful ==
    If(s.writing) = Len(net.writes) + If(pc["io"] = "writeStart")
        + Count("io", "write_ok")
        - If(InTask("io", "write_ok") /\ pc["io"] # "wrote")
        + Count("io", "write_end")
        - If(InTask("io", "write_end") /\ pc["io"] # "wroteEnd")
        + Count("io", "write_error")

(* Both flags tell the truth: there are never two reads or two writes,     *)
(* whichever thread resumes reading, and none that a close overlooks.      *)
FlagsTruthful == ReadFlagTruthful /\ WriteFlagTruthful

Returned == Runs(Work, "fire_read") /\ ~in_handler
            /\ pc[Work] \in {"cnFlag", "cnCount", "cnReading", "cnCancel"}

(* work_read_count_ counts the posted fire_reads that have not returned:   *)
(* whoever reads 0 knows that no handler is running or queued.             *)
WorkReadCountExact == s.work_read_count = Count(Work, "fire_read") - If(Returned)

(* What check_idle looks at never misses a handler that runs or waits, or  *)
(* a write under way; while the session is not closing it is exact.        *)
Busy == Count(Work, "fire_read") - If(Returned \/ pc[Work] = "endCount")
        + If(s.writing /\ pc["io"] \notin {"writeStart", "wrote", "wroteEnd"})
        + If(InTask("io", "read_ok"))

HandleCountSound ==
    /\ s.handle_count >= Busy
    /\ ~s.close_flag => s.handle_count = Busy

(* pending_write_len_ is the length of the write buffer, short only of an  *)
(* append whose notify_write is not done, even when a write that took that *)
(* append along has made it wrap below zero.                               *)
PendingExact == (s.pending + If(pc[Work] = "pend")) % SizeMod = s.wbuf

(* No written byte is forgotten: while the session is open, somebody is    *)
(* writing the bytes in the buffer or is about to look at them.            *)
NoForgottenWrite ==
    s.wbuf > 0 /\ ~s.close_flag =>
        \/ s.writing \/ Count("io", "write") > 0
        \/ pc[Work] \in {"pend", "postWrite"}
        \/ pc["io"] \in {"pendingTest", "writeOn", "writeSet"}

Quiet == (\A th \in Threads : pc[th] = "idle") /\ (\A th \in Runners : queue[th] = <<>>)

(* No resume is lost: an open session with nothing to run is reading, or   *)
(* holds a full buffer whose consumer will resume it.                      *)
NoLostResume ==
    Running /\ Quiet /\ ~s.close_flag =>
        \/ s.reading
        \/ Mask # 0 /\ s.notify /\ s.high_water = Mask /\ s.rbuf >= Mask

(* No session is left half closed but in one way: with nothing to run and  *)
(* no operation outstanding, a closing session is closed, has told its     *)
(* handlers, and has left the maps.  The one way is that handle_write has  *)
(* read pending_write_len_ twice (lines 275 and 242), and found it wrapped *)
(* the first time and 0 the second, so that neither write() nor            *)
(* close_after_last_write acted; even then nothing is left to be written.  *)
NoLimbo ==
    Quiet /\ life.crashed = "no" /\ s.close_flag /\ ~s.reading /\ ~s.writing =>
        \/ net.sock = "closed" /\ life.fired = 1 /\ life.where \in {"none", "client"}
        \/ life.passed /\ s.wbuf = 0

(* The stages of SessionLife as the members show them. *)
Stage ==
    IF life.where = "none" THEN "gone"
    ELSE IF life.fired > 0
         THEN IF life.fired = 1 /\ net.sock = "closed" THEN "told" ELSE "told out of order"
    ELSE IF net.sock = "closed" THEN "closed"
    ELSE IF s.close_flag THEN "closing" ELSE "open"

Life == INSTANCE SessionLife WITH stage <- Stage

(* The session goes one way (SessionLife): closed for good, then told to   *)
(* its handlers, once, whichever thread comes last, then let go of.        *)
ImplementsLife == Life!Spec

(* What asio asks of the caller of async_read_some and async_write_some    *)
(* (asio/basic_stream_socket.hpp:691-693, 803-805): the buffers, which the *)
(* session owns, live until the handler is called.                         *)
BuffersOutliveOperations ==
    Freed => /\ net.reads = 0 /\ net.writes = <<>>
             /\ \A op \in {"read_ok", "read_end", "write_ok", "write_end"} :
                    Count("io", op) = 0

(* A close that was asked for closes the socket (or the process dies),     *)
(* unless handle_write leaves it to a write() that does nothing (NoLimbo); *)
(* and a session whose socket is closed is let go of, without exception.   *)
CloseCompletes ==
    /\ s.close_flag ~> (net.sock = "closed" \/ life.crashed # "no" \/ life.passed)
    /\ net.sock = "closed" ~> (life.where = "none" \/ life.crashed # "no")

(* What was written leaves the buffer while the session stays open. *)
WritesLeave == s.wbuf > 0 ~> (s.wbuf = 0 \/ s.close_flag \/ life.crashed # "no")
=============================================================================
