---------------------------- MODULE ClientProofs ----------------------------
(***************************************************************************)
(* Theorems about a client (Client), for any high water mask, any frames,  *)
(* any decoder settings, any bounds on what is sent and written and any    *)
(* interleaving of its thread, its user's, the kernel and the peer: a      *)
(* connection with nothing left to run is being read unless the decoder    *)
(* holds it up in one of four ways, and no handler runs after fire_closed. *)
(*                                                                         *)
(* Unlike a server's session a client has one thread for every task, so    *)
(* that its invariant speaks of one place, one queue and the task at the   *)
(* head of it.  A lemma about a step has the same steps wherever they      *)
(* apply: e, what was so before it; x, what it does; n, that the counts    *)
(* are numbers; q, what it does to the queue and the counts; f, the        *)
(* members after it; g, what the invariant says of such a state; then one  *)
(* step for each part of the invariant.                                    *)
(***************************************************************************)
EXTENDS Client, SessionProofs

(* The client's one thread, its queue and the task at the head of it.      *)
Place == pc["io"]
Line  == queue["io"]
Many(op) == Num(Line, op)
Kind  == IF Line = <<>> THEN "none" ELSE Head(Line).op

(* The types that the argument needs.                                      *)
ClientMembers == [reading : BOOLEAN, writing : BOOLEAN, close_flag : BOOLEAN,
                  work_read_count : Int, handle_count : Int, pending : Int,
                  rbuf : Nat, wbuf : Int, notify : BOOLEAN, high_water : {0, Mask}]
ClientSockets == [sock : {"open", "shut", "closed"}, reads : Nat, writes : Seq(Int)]
ClientOutside == [peer : {"none", "refused", "open", "fin", "reset"}, received : Int, written : Int]
ClientLives   == [where : {"client"}, fired : Nat, passed : BOOLEAN,
                  crashed : {"no", "throw", "fatal"}]
ClientQueues  == [{"io"} -> Seq(Tasks)]

ClientTyped ==
    /\ s \in ClientMembers /\ net \in ClientSockets /\ env \in ClientOutside
    /\ life \in ClientLives /\ queue \in ClientQueues /\ pc \in [{"io", "acc"} -> Labels]
    /\ in_handler \in BOOLEAN /\ user_closed \in BOOLEAN /\ frame \in Claims

(* Where the thread can be, and the task it runs there.                    *)
ThreadPlaces ==
    /\ Place \in {"idle", "closeTest", "maskTest", "arm1", "arm2", "readSet", "readStart",
                  "postRead", "started", "writeOn", "writeSet", "writeStart", "wrote", "wroteEnd",
                  "pendingTest", "flagTest", "readingTest", "countTest", "remove", "user",
                  "notifyTest", "clear1", "clear2", "pend", "postWrite", "endHandle",
                  "endCount", "cnFlag", "cnCount", "cnReading", "cnCancel"}
    /\ Place # "idle" => Kind # "none"
    /\ Place \in {"closeTest", "maskTest", "arm1", "arm2", "postRead"} => Kind = "read_ok"
    /\ Place \in {"readSet", "readStart"}
           => Kind \in {"read_ok", "connected"} \/ (Kind = "fire_read" /\ in_handler)
    /\ Place = "started" => Kind = "connected"
    /\ Place \in {"wrote", "pendingTest", "writeOn"} => Kind = "write_ok"
    /\ Place \in {"writeSet", "writeStart"} => Kind \in {"write", "write_ok"}
    /\ Place = "wroteEnd" => Kind = "write_end"
    /\ Place \in {"flagTest", "readingTest"} => Kind \in {"write_ok", "write_end"}
    /\ Place = "countTest" => Kind \in {"read_ok", "read_end", "write_ok", "write_end"}
    /\ Place = "remove" => Kind \in {"read_ok", "read_end", "write_ok", "write_end", "close"}
    /\ Kind = "read_end" => Place \in {"idle", "countTest", "remove"}
    /\ Place \in {"user", "notifyTest", "clear1", "clear2"} => in_handler
    /\ Place \in {"endHandle", "endCount", "cnFlag", "cnCount", "cnReading", "cnCancel"}
           => Kind = "fire_read"
    /\ Place \in {"endHandle", "endCount"} => ~in_handler
    /\ Place \in {"pend", "postWrite"} => in_handler \/ Kind = "append"
    /\ in_handler => Place # "idle" /\ Kind = "fire_read"

(* The user's thread closes, and does nothing else.                        *)
UserPlaces ==
    /\ pc["acc"] \in {"idle", "idleClose", "cnFlag", "cnCount", "cnReading", "cnCancel"}
    /\ pc["acc"] \in {"cnFlag", "cnCount", "cnReading", "cnCancel"} => s.close_flag
    /\ ~user_closed => pc["acc"] = "idle"

(* The right to read is with the connect, a thread that is about to read,  *)
(* the read under way, handle_read until it reads again or arms the        *)
(* notification, or the armed notification: there is one.                  *)
Waits(op) == Many(op) - If(Place # "idle" /\ Kind = op)
Handled   == If(Kind = "read_ok" /\ Place \in {"closeTest", "maskTest", "arm1", "arm2"})
Starter   == If(Place \in {"readSet", "readStart"})
Resumed   == Kind = "fire_read" /\ Place \in {"readSet", "readStart", "clear1", "clear2"}
Notifier  == If(s.high_water # 0 /\ ~Resumed)
Attempt   == If(env.peer = "none")

OneRight ==
    Attempt + Waits("connected") + Starter + net.reads + Waits("read_ok") + Handled
        + Waits("read_end") + Many("read_error") + Notifier <= 1

(* While reading_ is not set, no read is under way or has come back.       *)
FlagClear ==
    ~s.reading => /\ Place \notin {"readStart", "clear1", "clear2"}
                  /\ net.reads = 0 /\ Waits("read_ok") = 0 /\ Waits("read_end") = 0
                  /\ Many("read_error") = 0

(* work_read_count_ counts the handlers that are posted or run.            *)
Out == If(Kind = "fire_read" /\ ~in_handler
          /\ Place \in {"cnFlag", "cnCount", "cnReading", "cnCancel"})
CountTrue ==
    /\ s.work_read_count = Many("fire_read") - Out
    /\ Place \in {"cnReading", "cnCancel"} => s.work_read_count = 0

(* Until the connect has come back, nothing was read.                      *)
Connecting == env.peer = "none" \/ Waits("connected") > 0
NothingYet ==
    Connecting => /\ Many("fire_read") = 0 /\ ~(Place # "idle" /\ Kind = "read_ok")
                  /\ user_closed \/ ~s.close_flag

(* Whoever is on the way to the end has found close_flag_ set.             *)
EndKnown ==
    \/ Place \in {"readingTest", "countTest", "remove", "cnCount", "cnReading", "cnCancel"}
    \/ Many("write_end") > 0 \/ Many("close") > 0 \/ (Place # "idle" /\ Kind = "read_end")
    => s.close_flag

(* Nobody reads, or is about to hand on what was read.                     *)
Silent ==
    /\ ~Connecting /\ Starter = 0 /\ net.reads = 0 /\ Waits("read_ok") = 0
    /\ Kind = "read_ok" => Place \in {"idle", "countTest", "remove"}

(* Who calls fire_closed, or will, unless the user's thread made it so.    *)
Over ==
    ~user_closed =>
        /\ Place = "countTest" => Silent
        /\ Many("close") > 0 \/ life.fired > 0 => Silent /\ s.work_read_count = 0

(* handle_read arms the notification above the mask only.                  *)
ArmTrue ==
    /\ Place \in {"arm1", "arm2"} => s.rbuf >= Mask
    /\ Place = "arm2" => s.notify

(* An open connection is being read, is about to be, or will be when the   *)
(* decoder has taken enough.                                               *)
ReadComing ==
    ~s.close_flag /\ env.peer \in {"open", "fin", "reset"} =>
        \/ s.reading \/ Waits("connected") > 0
        \/ Place \in {"closeTest", "maskTest", "arm1", "arm2", "readSet"}
        \/ s.notify /\ s.high_water = Mask /\ (s.rbuf >= Mask \/ Place = "notifyTest")

(* Of such a buffer decode may take nothing.                               *)
Stays == s.rbuf <= Header \/ frame > Longest \/ s.rbuf < frame

(* Of any other it will: decode is posted or runs, or handle_read is about *)
(* to post it, unless it has returned behind a frame that it dropped.      *)
DecodeComing ==
    ~s.close_flag /\ turn # "dropped" /\ ~Stays =>
        \/ Many("fire_read") > If(Place # "idle" /\ Kind = "fire_read" /\ ~in_handler)
        \/ /\ Kind = "read_ok"
           /\ Place \in {"closeTest", "maskTest", "arm1", "arm2", "readSet", "readStart",
                        "postRead"}

ClientInv ==
    /\ ClientTyped /\ ThreadPlaces /\ UserPlaces
    /\ OneRight /\ FlagClear /\ CountTrue /\ NothingYet /\ EndKnown /\ Over
    /\ ArmTrue /\ ReadComing /\ DecodeComing

-----------------------------------------------------------------------------
(* A client has one thread for every task, and its user's.                 *)
LEMMA ClientThreads ==
    /\ Work = "io" /\ Runners = {"io"} /\ Threads = {"io", "acc"}
    /\ Mask \in Nat /\ SizeMod \in Nat /\ SizeMod > 0 /\ Shared
    /\ Header \in Nat /\ Longest \in Nat /\ Strip \in Nat /\ Claims \subseteq Nat
BY ClientAssumption, SessionAssumption DEF Work, Runners, Threads

(* The counts are numbers, and the task at the head is counted.            *)
LEMMA Counted ==
    ASSUME ClientTyped
    PROVE  /\ Line \in Seq(Tasks) /\ (Line = <<>> <=> Kind = "none")
           /\ \A op : Many(op) \in Nat
           /\ \A op : op # "none" /\ Kind = op => Many(op) >= 1
<1>1. Line \in Seq(Tasks)
  BY DEF ClientTyped, ClientQueues, Line
<1>2. \A op : Many(op) \in Nat
  BY <1>1, NumType DEF Many
<1>3. Line = <<>> <=> Kind = "none"
  <2>1. Line # <<>> => Head(Line) \in Tasks
    BY <1>1
  <2> QED
    BY <2>1 DEF Kind, Tasks, Ops
<1>4. ASSUME NEW op, op # "none", Kind = op PROVE Many(op) >= 1
  <2>1. Line # <<>> /\ Head(Line).op = op
    BY <1>4 DEF Kind
  <2>2. Tail(Line) \in Seq(Tasks) /\ Num(Tail(Line), op) = Num(Line, op) - 1
    BY <1>1, <2>1, NumTail DEF If
  <2>3. Num(Tail(Line), op) \in Nat
    BY <2>2, NumType
  <2> QED
    BY <1>2, <2>2, <2>3 DEF Many
<1> QED
  BY <1>1, <1>2, <1>3, <1>4

(* A queue of tasks in place of the old one.                               *)
LEMMA Queued ==
    ASSUME ClientTyped, NEW q \in Seq(Tasks), queue' = [queue EXCEPT !["io"] = q]
    PROVE  queue' \in ClientQueues /\ Line' = q
BY DEF ClientTyped, ClientQueues, Line

(* The same, for the kinds that the invariant counts.                      *)
LEMMA HeadCounted ==
    ASSUME ClientTyped
    PROVE  /\ \A op : Many(op) \in Nat
           /\ Kind = "connected" => Many("connected") >= 1
           /\ Kind = "read_ok" => Many("read_ok") >= 1
           /\ Kind = "read_end" => Many("read_end") >= 1
           /\ Kind = "read_error" => Many("read_error") >= 1
           /\ Kind = "fire_read" => Many("fire_read") >= 1
           /\ Kind = "close" => Many("close") >= 1
           /\ Kind = "write_end" => Many("write_end") >= 1
BY Counted

(* What the queue's operations do to the counts: none, nothing.            *)
LEMMA QueueLeft ==
    ASSUME queue' = queue
    PROVE  Kind' = Kind /\ \A op : Many(op)' = Many(op)
BY DEF Kind, Many, Line

(* A task posted is counted,                                               *)
LEMMA Posted ==
    ASSUME ClientTyped, NEW t \in Tasks, queue' = Post(queue, "io", t)
    PROVE  /\ queue' \in ClientQueues /\ (Kind # "none" => Kind' = Kind)
           /\ \A op : Many(op)' = Many(op) + If(t.op = op)
<1>1. Line \in Seq(Tasks) /\ (Line = <<>> <=> Kind = "none")
  BY Counted
<1>2. Line' = Append(Line, t) /\ queue' = [queue EXCEPT !["io"] = Append(Line, t)]
  BY DEF ClientTyped, ClientQueues, Post, Line
<1>3. queue' \in ClientQueues
  <2>1. Append(Line, t) \in Seq(Tasks)
    BY <1>1
  <2> QED
    BY <1>2, <2>1, Queued
<1>4. Kind # "none" => Kind' = Kind
  BY <1>1, <1>2, HeadTailAppend DEF Kind
<1> QED
  BY <1>1, <1>2, <1>3, <1>4, NumAppend DEF Many

(* one that has run is not,                                                *)
LEMMA Popped ==
    ASSUME ClientTyped, Kind # "none", queue' = Pop(queue, "io")
    PROVE  queue' \in ClientQueues /\ \A op : Many(op)' = Many(op) - If(Kind = op)
<1>1. Line \in Seq(Tasks) /\ Line # <<>>
  BY Counted
<1>2. Line' = Tail(Line) /\ queue' = [queue EXCEPT !["io"] = Tail(Line)]
  BY DEF ClientTyped, ClientQueues, Pop, Line
<1>3. queue' \in ClientQueues
  <2>1. Tail(Line) \in Seq(Tasks)
    BY <1>1
  <2> QED
    BY <1>2, <2>1, Queued
<1> QED
  BY <1>1, <1>2, <1>3, NumTail DEF Many, Kind

(* whether the other is posted before it is taken away                     *)
LEMMA PoppedPosted ==
    ASSUME ClientTyped, Kind # "none", NEW t \in Tasks, queue' = Pop(Post(queue, "io", t), "io")
    PROVE  /\ queue' \in ClientQueues
           /\ \A op : Many(op)' = Many(op) - If(Kind = op) + If(t.op = op)
<1>1. Line \in Seq(Tasks) /\ Line # <<>>
  BY Counted
<1>2. PICK q \in Seq(Tasks) : q = Append(Line, t)
  <2>1. Append(Line, t) \in Seq(Tasks)
    BY <1>1
  <2> QED
    BY <2>1
<1>3. q # <<>> /\ Head(q) = Head(Line) /\ Tail(q) \in Seq(Tasks)
  BY <1>1, <1>2, HeadTailAppend
<1>4. queue' \in ClientQueues /\ Line' = Tail(q)
  <2>1. queue' = [queue EXCEPT !["io"] = Tail(q)]
    BY <1>2 DEF ClientTyped, ClientQueues, Pop, Post, Line
  <2> QED
    BY <1>3, <2>1, Queued
<1>5. ASSUME NEW op PROVE Many(op)' = Many(op) - If(Kind = op) + If(t.op = op)
  <2>1. Num(q, op) = Num(Line, op) + If(t.op = op)
    BY <1>1, <1>2, NumAppend
  <2>2. Num(Tail(q), op) = Num(q, op) - If(Kind = op)
    <3>1. Num(Tail(q), op) = Num(q, op) - If(Head(q).op = op)
      BY <1>2, <1>3, NumTail
    <3>2. Head(q).op = Kind
      BY <1>1, <1>3 DEF Kind
    <3> QED
      BY <3>1, <3>2
  <2>3. Num(Line, op) \in Nat
    BY <1>1, NumType
  <2> QED
    BY <1>4, <2>1, <2>2, <2>3 DEF Many, If
<1> QED
  BY <1>4, <1>5

(* Many of one kind are posted at once.                                    *)
LEMMA PostedTimes ==
    ASSUME NEW q \in Seq(Tasks), NEW t \in Tasks, NEW n \in Nat
    PROVE  /\ q \o Repeat(t, n) \in Seq(Tasks)
           /\ q # <<>> => q \o Repeat(t, n) # <<>> /\ Head(q \o Repeat(t, n)) = Head(q)
           /\ \A op : Num(q \o Repeat(t, n), op) = Num(q, op) + (IF t.op = op THEN n ELSE 0)
BY NumRepeat, RepeatKept

(* The operations outstanding are so many.                                 *)
LEMMA Outstanding ==
    ASSUME ClientInv
    PROVE  net.reads \in Nat /\ Len(net.writes) \in Nat
<1>1. net.reads \in Nat /\ net.writes \in Seq(Int)
  BY DEF ClientInv, ClientTyped, ClientSockets
<1> QED
  BY <1>1

(* The outstanding operations come back as aborted.                        *)
Ended(op) == IF op = "read_end" THEN net.reads ELSE IF op = "write_end" THEN Len(net.writes) ELSE 0

(* They are posted at the end of the queue.                                *)
LEMMA AbortedIs ==
    ASSUME ClientTyped
    PROVE  \E q \in Seq(Tasks) :
             /\ Aborted(queue) = [queue EXCEPT !["io"] = q]
             /\ Line # <<>> => q # <<>> /\ Head(q) = Head(Line)
             /\ \A op : Num(q, op) = Many(op) + Ended(op)
<1>1. /\ Line \in Seq(Tasks) /\ net.reads \in Nat /\ Len(net.writes) \in Nat
      /\ \A op : Many(op) \in Nat
  BY Counted DEF ClientTyped, ClientSockets
<1>2. Task("read_end", 0) \in Tasks /\ Task("write_end", 0) \in Tasks
      /\ Task("read_end", 0).op = "read_end" /\ Task("write_end", 0).op = "write_end"
  BY DEF Task, Tasks, Ops
<1>3. PICK r \in Seq(Tasks) : r = Line \o Repeat(Task("read_end", 0), net.reads)
  BY <1>1, <1>2, PostedTimes
<1>4. PICK q \in Seq(Tasks) : q = r \o Repeat(Task("write_end", 0), Len(net.writes))
  BY <1>1, <1>2, PostedTimes
<1>5. Aborted(queue) = [queue EXCEPT !["io"] = q]
  BY <1>3, <1>4 DEF Aborted, Line, ClientTyped, ClientQueues
<1>6. Line # <<>> => q # <<>> /\ Head(q) = Head(Line)
  BY <1>1, <1>2, <1>3, <1>4, PostedTimes
<1>7. ASSUME NEW op PROVE Num(q, op) = Many(op) + Ended(op)
  <2>1. PICK a \in Tasks, b \in Tasks, m \in Nat, n \in Nat :
            /\ a = Task("read_end", 0) /\ a.op = "read_end" /\ m = net.reads
            /\ b = Task("write_end", 0) /\ b.op = "write_end" /\ n = Len(net.writes)
    BY <1>1, <1>2
  <2>2. Num(Line \o Repeat(a, m), op) = Num(Line, op) + (IF a.op = op THEN m ELSE 0)
    <3>1. Line \in Seq(Tasks)
      BY <1>1
    <3> QED
      BY <2>1, <3>1, NumRepeat
  <2>3. Num(r \o Repeat(b, n), op) = Num(r, op) + (IF b.op = op THEN n ELSE 0)
    <3>1. r \in Seq(Tasks)
      BY <1>3
    <3> QED
      BY <2>1, <3>1, NumRepeat
  <2>4. Num(r, op) = Many(op) + (IF "read_end" = op THEN net.reads ELSE 0)
    BY <1>3, <2>1, <2>2 DEF Many
  <2>5. Num(q, op) = Num(r, op) + (IF "write_end" = op THEN Len(net.writes) ELSE 0)
    BY <1>4, <2>1, <2>3
  <2> QED
    BY <1>1, <2>4, <2>5 DEF Ended
<1> QED
  BY <1>5, <1>6, <1>7

(* That leaves the task at the head where it is,                           *)
LEMMA AbortedLeft ==
    ASSUME ClientTyped, queue' = Aborted(queue)
    PROVE  /\ queue' \in ClientQueues /\ (Kind # "none" => Kind' = Kind)
           /\ \A op : Many(op)' = Many(op) + Ended(op)
<1>1. PICK q \in Seq(Tasks) : /\ Aborted(queue) = [queue EXCEPT !["io"] = q]
                              /\ Line # <<>> => q # <<>> /\ Head(q) = Head(Line)
                              /\ \A op : Num(q, op) = Many(op) + Ended(op)
  BY AbortedIs
<1>2. Line' = q /\ queue' \in ClientQueues
  BY <1>1 DEF ClientTyped, ClientQueues, Line
<1>3. Kind # "none" => Kind' = Kind
  BY <1>1, <1>2 DEF Kind
<1> QED
  BY <1>1, <1>2, <1>3 DEF Many

(* or takes it away.                                                       *)
LEMMA AbortedPopped ==
    ASSUME ClientTyped, Kind # "none", queue' = Pop(Aborted(queue), "io")
    PROVE  /\ queue' \in ClientQueues
           /\ \A op : Many(op)' = Many(op) + Ended(op) - If(Kind = op)
<1>1. PICK q \in Seq(Tasks) : /\ Aborted(queue) = [queue EXCEPT !["io"] = q]
                              /\ Line # <<>> => q # <<>> /\ Head(q) = Head(Line)
                              /\ \A op : Num(q, op) = Many(op) + Ended(op)
  BY AbortedIs
<1>2. Line # <<>> /\ Tail(q) \in Seq(Tasks)
  BY <1>1, Counted
<1>3. Line' = Tail(q) /\ queue' \in ClientQueues
  <2>1. queue' = [queue EXCEPT !["io"] = Tail(q)]
    BY <1>1 DEF ClientTyped, ClientQueues, Pop
  <2> QED
    BY <1>2, <2>1, Queued
<1>4. ASSUME NEW op PROVE Many(op)' = Many(op) + Ended(op) - If(Kind = op)
  <2>1. Num(Tail(q), op) = Num(q, op) - If(Kind = op)
    BY <1>1, <1>2, NumTail DEF Kind
  <2>2. Num(q, op) = Many(op) + Ended(op)
    BY <1>1
  <2>3. Many(op)' = Num(Tail(q), op)
    BY <1>3 DEF Many
  <2>4. Many(op) \in Nat /\ Ended(op) \in Nat /\ If(Kind = op) \in {0, 1}
    BY Counted DEF Ended, If, ClientTyped, ClientSockets
  <2> QED
    BY <2>1, <2>2, <2>3, <2>4
<1> QED
  BY <1>3, <1>4

-----------------------------------------------------------------------------
(* Each step keeps the invariant: e is what was so before it, x what it    *)
(* does, q what that does to the counts, f what the members are after it.  *)
Fixed == UNCHANGED <<frame, turn, user_closed>>

(* A process that ends leaves everything where it is.                      *)
LEMMA CrashCounts ==
    ASSUME ClientInv, Fixed, NEW how \in {"throw", "fatal"}, Crash(how)
    PROVE  ClientInv'
<1> USE ClientThreads DEF ClientInv
<1>x. /\ life' = [life EXCEPT !.crashed = how]
      /\ UNCHANGED <<s, net, env, queue, pc, in_handler, frame, turn, user_closed>>
  BY DEF Crash, Fixed
<1>q. Kind' = Kind /\ Place' = Place /\ \A op : Many(op)' = Many(op)
  BY <1>x, QueueLeft DEF Place
<1>f. life' \in ClientLives /\ life'.fired = life.fired
  BY <1>x DEF ClientTyped, ClientLives
<1>1. ClientTyped'
  BY <1>x, <1>f DEF ClientTyped
<1>2. /\ ThreadPlaces' /\ UserPlaces' /\ OneRight' /\ FlagClear' /\ CountTrue' /\ NothingYet'
      /\ EndKnown'
  BY <1>x, <1>q
  DEF ThreadPlaces, UserPlaces, OneRight, FlagClear, CountTrue, NothingYet, EndKnown, Waits,
      Handled, Starter, Resumed, Notifier, Attempt, Out, Connecting, If
<1>3. Over' /\ ArmTrue' /\ ReadComing' /\ DecodeComing'
  BY <1>x, <1>q, <1>f
  DEF Over, Silent, Connecting, Starter, Waits, ArmTrue, ReadComing, DecodeComing, Stays, If
<1> QED
  BY <1>1, <1>2, <1>3

(* A task that has nothing more to do leaves the queue.                    *)
LEMMA FinishPasses ==
    ASSUME ClientInv, Fixed, UNCHANGED <<s, net, env>>, life' \in ClientLives,
           life'.fired = life.fired,
           Finish("io"), in_handler = FALSE,
           \/ Place = "idle" /\ Kind \in {"write", "refused"}
           \/ Place \in {"started", "writeOn", "flagTest", "readingTest", "countTest", "remove",
                         "cnFlag", "cnCount", "cnReading", "cnCancel"}
    PROVE  ClientInv'
<1> USE ClientThreads DEF ClientInv
<1>e. /\ Kind # "none" /\ in_handler = FALSE
      /\ \/ Place = "idle" /\ Kind \in {"write", "refused"}
         \/ Place \in {"started", "writeOn", "flagTest", "readingTest", "countTest", "remove",
                       "cnFlag", "cnCount", "cnReading", "cnCancel"}
      /\ Place \notin {"closeTest", "maskTest", "arm1", "arm2", "readSet", "readStart", "postRead"}
      /\ Kind = "read_ok" /\ Place # "idle" => s.close_flag
      /\ Kind = "fire_read" /\ Place # "idle" => Out = 1 /\ Many("fire_read") >= 1
      /\ Place # "notifyTest"
  BY Counted DEF ThreadPlaces, EndKnown, Out, If
<1>x. /\ queue' = Pop(queue, "io") /\ pc' = [pc EXCEPT !["io"] = "idle"]
      /\ in_handler' = in_handler
      /\ UNCHANGED <<s, net, env, frame, turn, user_closed>> /\ life' \in ClientLives
      /\ life'.fired = life.fired
  BY DEF Finish, Go, Fixed
<1>n. /\ Many("connected") \in Nat
      /\ Many("read_ok") \in Nat
      /\ Many("read_end") \in Nat
      /\ Many("read_error") \in Nat
      /\ Many("fire_read") \in Nat
      /\ Many("close") \in Nat
      /\ Many("write_end") \in Nat
      /\ Kind = "connected" => Many("connected") >= 1
      /\ Kind = "read_ok" => Many("read_ok") >= 1
      /\ Kind = "read_end" => Many("read_end") >= 1
      /\ Kind = "fire_read" => Many("fire_read") >= 1
      /\ Kind = "close" => Many("close") >= 1
      /\ Kind = "write_end" => Many("write_end") >= 1
  BY HeadCounted
<1>q. /\ queue' \in ClientQueues
      /\ Many("connected")' = Many("connected") - If(Kind = "connected")
      /\ Many("read_ok")' = Many("read_ok") - If(Kind = "read_ok")
      /\ Many("read_end")' = Many("read_end") - If(Kind = "read_end")
      /\ Many("read_error")' = Many("read_error") - If(Kind = "read_error")
      /\ Many("fire_read")' = Many("fire_read") - If(Kind = "fire_read")
      /\ Many("close")' = Many("close") - If(Kind = "close")
      /\ Many("write_end")' = Many("write_end") - If(Kind = "write_end")
  <2>1. queue' \in ClientQueues /\ \A op : Many(op)' = Many(op) - If(Kind = op)
    BY <1>e, <1>x, Popped
  <2> QED
    BY <1>e, <1>n, <2>1 DEF If
<1>f. /\ Place' = "idle" /\ pc'["acc"] = pc["acc"]
      /\ s'.reading = s.reading
      /\ s'.close_flag = s.close_flag
      /\ s'.work_read_count = s.work_read_count
      /\ s'.rbuf = s.rbuf
      /\ s'.notify = s.notify
      /\ s'.high_water = s.high_water
      /\ s.rbuf \in Nat /\ net.reads \in Nat /\ s.work_read_count \in Int
      /\ s.high_water \in Nat /\ frame \in Nat
      /\ frame' = frame /\ turn' = turn
      /\ env'.peer = env.peer
      /\ user_closed' = user_closed
  BY <1>e, <1>x DEF ClientTyped, ClientMembers, ClientSockets, Place
<1>1. ClientTyped'
  <2>1. s' \in ClientMembers
    BY <1>x DEF ClientTyped
  <2>2. pc' \in [{"io", "acc"} -> Labels]
    BY <1>e, <1>x DEF ClientTyped, Labels
  <2>3. /\ net' \in ClientSockets /\ env' \in ClientOutside /\ life' \in ClientLives
        /\ queue' \in ClientQueues /\ in_handler' \in BOOLEAN
    BY <1>x, <1>q DEF ClientTyped
  <2> QED
    BY <1>x, <2>1, <2>2, <2>3 DEF ClientTyped
<1>2. ThreadPlaces' /\ UserPlaces'
  BY <1>e, <1>x, <1>n, <1>q, <1>f
  DEF ThreadPlaces, UserPlaces
<1>3. OneRight'
  BY <1>e, <1>x, <1>n, <1>q, <1>f
  DEF ThreadPlaces, OneRight, Waits, Handled, Starter, Resumed, Notifier, Attempt, If
<1>4. FlagClear'
  BY <1>e, <1>x, <1>n, <1>q, <1>f
  DEF ThreadPlaces, FlagClear, Waits, If
<1>5. CountTrue'
  BY <1>e, <1>x, <1>n, <1>q, <1>f
  DEF ThreadPlaces, CountTrue, Out, If
<1>6. NothingYet' /\ EndKnown'
  BY <1>e, <1>x, <1>n, <1>q, <1>f
  DEF ThreadPlaces, NothingYet, EndKnown, Connecting, Waits, If
<1>7. Over'
  BY <1>e, <1>x, <1>n, <1>q, <1>f
  DEF ThreadPlaces, Over, Silent, Connecting, CountTrue, Out, Waits, Starter, If, NothingYet,
      EndKnown, OneRight, FlagClear, Handled, Resumed, Notifier, Attempt
<1>8. ArmTrue' /\ ReadComing' /\ DecodeComing'
  <2>1. ArmTrue'
    BY <1>f DEF ArmTrue
  <2>2. ReadComing'
    <3>1. Waits("connected")' = Waits("connected")
      BY <1>e, <1>n, <1>q, <1>f DEF ThreadPlaces, Waits, If
    <3> QED
      BY <1>e, <1>n, <1>f, <3>1 DEF ThreadPlaces, ReadComing, EndKnown
  <2>3. Stays' = Stays
    BY <1>f DEF Stays
  <2>4. Many("fire_read") > If(Place # "idle" /\ Kind = "fire_read" /\ ~in_handler)
            => Many("fire_read")' > 0
    BY <1>e, <1>n, <1>q DEF If
  <2>5. DecodeComing'
    BY <1>e, <1>n, <1>f, <2>3, <2>4 DEF DecodeComing, EndKnown, If
  <2> QED
    BY <2>1, <2>2, <2>5
<1> QED
  BY <1>1, <1>2, <1>3, <1>4, <1>5, <1>6, <1>7, <1>8

(* Mostly nothing else changes.                                            *)
LEMMA FinishCounts ==
    ASSUME ClientInv, Fixed, UNCHANGED <<s, net, env, life>>, Finish("io"), in_handler = FALSE,
           \/ Place = "idle" /\ Kind \in {"write", "refused"}
           \/ Place \in {"started", "writeOn", "flagTest", "readingTest", "countTest", "remove",
                         "cnFlag", "cnCount", "cnReading", "cnCancel"}
    PROVE  ClientInv'
<1>1. life' \in ClientLives /\ life'.fired = life.fired /\ UNCHANGED <<s, net, env>>
  BY DEF ClientInv, ClientTyped
<1> QED
  BY <1>1, FinishPasses

(* A test, and on to a place that it allows.                               *)
LEMMA MoveCounts ==
    ASSUME ClientInv, Fixed,
           UNCHANGED <<s, net, env, life>>, NEW l, Goto("io", l),
           \/ Place = "closeTest" /\ l = "maskTest"
           \/ Place = "maskTest" /\ l = "readSet"
           \/ Place = "maskTest" /\ l = "arm1" /\ s.rbuf >= Mask
           \/ Place = "pendingTest" /\ l \in {"writeOn", "flagTest"}
           \/ Place = "notifyTest" /\ l = "readSet" /\ s.notify /\ s.rbuf < s.high_water
           \/ Place = "notifyTest" /\ l = "user" /\ ~(s.notify /\ s.rbuf < s.high_water)
           \/ Place = "cnFlag" /\ l = "cnCount" /\ s.close_flag
           \/ Place = "cnCount" /\ l = "cnReading" /\ s.work_read_count = 0
           \/ Place = "cnReading" /\ l = "cnCancel"
           \/ Place \in {"cnFlag", "cnCount"} /\ l = "user" /\ in_handler
    PROVE  ClientInv'
<1> USE ClientThreads DEF ClientInv
<1>e. /\ l \in Labels /\ Kind # "none" /\ Place # "idle"
  BY DEF ThreadPlaces, Labels
<1>x. /\ queue' = queue /\ pc' = [pc EXCEPT !["io"] = l] /\ in_handler' = in_handler
      /\ UNCHANGED <<s, net, env, life, frame, turn, user_closed>>
  BY DEF Goto, Go, Fixed
<1>n. /\ Many("connected") \in Nat
      /\ Many("read_ok") \in Nat
      /\ Many("read_end") \in Nat
      /\ Many("read_error") \in Nat
      /\ Many("fire_read") \in Nat
      /\ Many("close") \in Nat
      /\ Many("write_end") \in Nat
      /\ Kind = "connected" => Many("connected") >= 1
      /\ Kind = "read_ok" => Many("read_ok") >= 1
      /\ Kind = "read_end" => Many("read_end") >= 1
      /\ Kind = "fire_read" => Many("fire_read") >= 1
      /\ Kind = "close" => Many("close") >= 1
      /\ Kind = "write_end" => Many("write_end") >= 1
  BY HeadCounted
<1>q. /\ queue' \in ClientQueues /\ Kind' = Kind
      /\ Many("connected")' = Many("connected")
      /\ Many("read_ok")' = Many("read_ok")
      /\ Many("read_end")' = Many("read_end")
      /\ Many("read_error")' = Many("read_error")
      /\ Many("fire_read")' = Many("fire_read")
      /\ Many("close")' = Many("close")
      /\ Many("write_end")' = Many("write_end")
  <2>1. Kind' = Kind /\ \A op : Many(op)' = Many(op)
    BY <1>x, QueueLeft
  <2> QED
    BY <1>x, <2>1 DEF ClientTyped
<1>f. /\ Place' = l /\ pc'["acc"] = pc["acc"]
      /\ s'.reading = s.reading
      /\ s'.close_flag = s.close_flag
      /\ s'.work_read_count = s.work_read_count
      /\ s'.rbuf = s.rbuf
      /\ s'.notify = s.notify
      /\ s'.high_water = s.high_water
      /\ s.rbuf \in Nat /\ net.reads \in Nat /\ s.work_read_count \in Int
      /\ s.high_water \in Nat /\ frame \in Nat
      /\ frame' = frame /\ turn' = turn
      /\ env'.peer = env.peer
      /\ user_closed' = user_closed
  BY <1>e, <1>x DEF ClientTyped, ClientMembers, ClientSockets, Place
<1>1. ClientTyped'
  <2>1. s' \in ClientMembers
    BY <1>x DEF ClientTyped
  <2>2. pc' \in [{"io", "acc"} -> Labels]
    BY <1>e, <1>x DEF ClientTyped, Labels
  <2>3. /\ net' \in ClientSockets /\ env' \in ClientOutside /\ life' \in ClientLives
        /\ queue' \in ClientQueues /\ in_handler' \in BOOLEAN
    BY <1>x, <1>q DEF ClientTyped
  <2> QED
    BY <1>x, <2>1, <2>2, <2>3 DEF ClientTyped
<1>2. ThreadPlaces' /\ UserPlaces'
  BY <1>e, <1>x, <1>n, <1>q, <1>f
  DEF ThreadPlaces, UserPlaces
<1>3. OneRight'
  BY <1>e, <1>x, <1>n, <1>q, <1>f
  DEF ThreadPlaces, OneRight, Waits, Handled, Starter, Resumed, Notifier, Attempt, If
<1>4. FlagClear'
  BY <1>e, <1>x, <1>n, <1>q, <1>f
  DEF ThreadPlaces, FlagClear, Waits, If
<1>5. CountTrue'
  BY <1>e, <1>x, <1>n, <1>q, <1>f
  DEF ThreadPlaces, CountTrue, Out, If
<1>6. NothingYet' /\ EndKnown'
  BY <1>e, <1>x, <1>n, <1>q, <1>f
  DEF ThreadPlaces, NothingYet, EndKnown, Connecting, Waits, If
<1>7. Over'
  BY <1>e, <1>x, <1>n, <1>q, <1>f
  DEF ThreadPlaces, Over, Silent, Connecting, CountTrue, Out, Waits, Starter, If
<1>8. ArmTrue' /\ ReadComing' /\ DecodeComing'
  BY <1>e, <1>x, <1>n, <1>q, <1>f
  DEF ThreadPlaces, ArmTrue, ReadComing, DecodeComing, Stays, FlagClear, EndKnown, Waits, If
<1> QED
  BY <1>1, <1>2, <1>3, <1>4, <1>5, <1>6, <1>7, <1>8

(* Each of the places where the right to read can be holds it or not.      *)
LEMMA Rights ==
    ASSUME ClientInv
    PROVE  /\ Attempt \in {0, 1} /\ Starter \in {0, 1} /\ Notifier \in {0, 1} /\ Handled \in {0, 1}
           /\ net.reads \in Nat /\ Many("read_error") \in Nat
           /\ Waits("connected") \in Nat /\ Waits("read_ok") \in Nat /\ Waits("read_end") \in Nat
<1>1. /\ Many("connected") \in Nat /\ (Kind = "connected" => Many("connected") >= 1)
      /\ Many("read_ok") \in Nat /\ (Kind = "read_ok" => Many("read_ok") >= 1)
      /\ Many("read_end") \in Nat /\ (Kind = "read_end" => Many("read_end") >= 1)
      /\ Many("read_error") \in Nat
  BY HeadCounted DEF ClientInv
<1>2. net.reads \in Nat
  BY DEF ClientInv, ClientTyped, ClientSockets
<1>3. Waits("connected") \in Nat /\ Waits("read_ok") \in Nat /\ Waits("read_end") \in Nat
  BY <1>1 DEF Waits, If
<1> QED
  BY <1>1, <1>2, <1>3 DEF Attempt, Starter, Notifier, Handled, If

(* When handle_read holds it, or is about to at the end of the stream, no  *)
(* one else does.                                                          *)
LEMMA Handling ==
    ASSUME ClientInv, Handled = 1 \/ Waits("read_end") >= 1
    PROVE  /\ ~Connecting /\ Attempt = 0 /\ Waits("connected") = 0 /\ Starter = 0 /\ net.reads = 0
           /\ Waits("read_ok") = 0 /\ Many("read_error") = 0 /\ Notifier = 0
           /\ Handled + Waits("read_end") = 1
<1>1. OneRight
  BY DEF ClientInv
<1>2. /\ Attempt = 0 /\ Waits("connected") = 0 /\ Starter = 0 /\ net.reads = 0
      /\ Waits("read_ok") = 0 /\ Many("read_error") = 0 /\ Notifier = 0
      /\ Handled + Waits("read_end") = 1
  BY <1>1, Rights DEF OneRight
<1> QED
  BY <1>2 DEF Connecting, Attempt, If

(* So when a read has come back.                                           *)
LEMMA ReadReturned ==
    ASSUME ClientInv, Waits("read_ok") >= 1
    PROVE  /\ env.peer # "none" /\ Waits("connected") = 0 /\ net.reads = 0 /\ Waits("read_ok") = 1
           /\ Many("read_error") = 0 /\ Waits("read_end") = 0
<1>1. OneRight
  BY DEF ClientInv
<1>2. /\ Attempt = 0 /\ Waits("connected") = 0 /\ net.reads = 0 /\ Waits("read_ok") = 1
      /\ Many("read_error") = 0 /\ Waits("read_end") = 0
  BY <1>1, Rights DEF OneRight
<1> QED
  BY <1>2 DEF Attempt, If

(* A task posted when the one that ran is gone: the same counts.           *)
LEMMA PoppedThenPosted ==
    ASSUME ClientTyped, Kind # "none", NEW t \in Tasks, queue' = Post(Pop(queue, "io"), "io", t)
    PROVE  /\ queue' \in ClientQueues
           /\ \A op : Many(op)' = Many(op) - If(Kind = op) + If(t.op = op)
<1>1. Line \in Seq(Tasks) /\ Line # <<>>
  BY Counted
<1>2. PICK q \in Seq(Tasks) : q = Tail(Line)
  <2>1. Tail(Line) \in Seq(Tasks)
    BY <1>1
  <2> QED
    BY <2>1
<1>3. queue' \in ClientQueues /\ Line' = Append(q, t)
  <2>1. queue' = [queue EXCEPT !["io"] = Append(q, t)]
    BY <1>2 DEF ClientTyped, ClientQueues, Pop, Post, Line
  <2>2. Append(q, t) \in Seq(Tasks)
    BY <1>2
  <2> QED
    BY <2>1, <2>2, Queued
<1>4. ASSUME NEW op PROVE Many(op)' = Many(op) - If(Kind = op) + If(t.op = op)
  <2>1. Num(q, op) = Num(Line, op) - If(Kind = op)
    BY <1>1, <1>2, NumTail DEF Kind
  <2>2. Num(Append(q, t), op) = Num(q, op) + If(t.op = op)
    BY NumAppend
  <2> QED
    BY <1>3, <2>1, <2>2 DEF Many
<1> QED
  BY <1>3, <1>4

(* handle_read takes what has come back.                                   *)
LEMMA HandleReadCounts ==
    ASSUME ClientInv, Fixed, HandleRead
    PROVE  ClientInv'
<1> USE ClientThreads DEF ClientInv
<1>a. Place = "idle" /\ Kind = "read_ok" /\ Line # <<>> /\ Head(Line) \in Tasks
  <2>1. Place = "idle" /\ Kind = "read_ok"
    BY DEF HandleRead, Begins, Runs, Place, Kind, Line
  <2> QED
    BY <2>1, Counted
<1>e. /\ Place = "idle" /\ Kind = "read_ok" /\ Length("io") \in Nat
  BY <1>a DEF Length, Tasks, Line
<1>x. /\ s' = [s EXCEPT !.handle_count = @ + 1, !.reading = FALSE, !.rbuf = @ + Length("io")]
      /\ queue' = queue /\ pc' = [pc EXCEPT !["io"] = "closeTest"] /\ in_handler' = in_handler
      /\ UNCHANGED <<net, env, life, frame, turn, user_closed>>
  BY DEF HandleRead, Goto, Go, Fixed
<1>n. /\ Many("connected") \in Nat
      /\ Many("read_ok") \in Nat
      /\ Many("read_end") \in Nat
      /\ Many("read_error") \in Nat
      /\ Many("fire_read") \in Nat
      /\ Many("close") \in Nat
      /\ Many("write_end") \in Nat
      /\ Kind = "connected" => Many("connected") >= 1
      /\ Kind = "read_ok" => Many("read_ok") >= 1
      /\ Kind = "read_end" => Many("read_end") >= 1
      /\ Kind = "fire_read" => Many("fire_read") >= 1
      /\ Kind = "close" => Many("close") >= 1
      /\ Kind = "write_end" => Many("write_end") >= 1
  BY HeadCounted
<1>q. /\ queue' \in ClientQueues /\ Kind' = Kind
      /\ Many("connected")' = Many("connected")
      /\ Many("read_ok")' = Many("read_ok")
      /\ Many("read_end")' = Many("read_end")
      /\ Many("read_error")' = Many("read_error")
      /\ Many("fire_read")' = Many("fire_read")
      /\ Many("close")' = Many("close")
      /\ Many("write_end")' = Many("write_end")
  <2>1. Kind' = Kind /\ \A op : Many(op)' = Many(op)
    BY <1>x, QueueLeft
  <2> QED
    BY <1>x, <2>1 DEF ClientTyped
<1>f. /\ Place' = "closeTest" /\ pc'["acc"] = pc["acc"]
      /\ s'.reading = FALSE
      /\ s'.close_flag = s.close_flag
      /\ s'.work_read_count = s.work_read_count
      /\ s'.rbuf = s.rbuf + Length("io")
      /\ s'.notify = s.notify
      /\ s'.high_water = s.high_water
      /\ s.rbuf \in Nat /\ net.reads \in Nat /\ s.work_read_count \in Int
      /\ s.high_water \in Nat /\ frame \in Nat
      /\ frame' = frame /\ turn' = turn
      /\ env'.peer = env.peer
      /\ user_closed' = user_closed
  BY <1>e, <1>x DEF ClientTyped, ClientMembers, ClientSockets, Place
<1>g. /\ env.peer # "none" /\ Many("connected") = 0 /\ net.reads = 0 /\ Many("read_ok") = 1
      /\ Many("read_error") = 0 /\ Many("read_end") = 0
  <2>1. Waits("read_ok") = Many("read_ok") /\ Waits("connected") = Many("connected")
        /\ Waits("read_end") = Many("read_end")
    BY <1>e, <1>n DEF Waits, If
  <2> QED
    BY <1>e, <1>n, <2>1, ReadReturned
<1>1. ClientTyped'
  <2>1. s' \in ClientMembers
    <3>1. PICK m \in Nat : m = s.rbuf + Length("io")
      BY <1>e, <1>f
    <3>2. /\ s' = [s EXCEPT !.handle_count = @ + 1, !.reading = FALSE, !.rbuf = m]
          /\ s \in ClientMembers
      BY <1>x, <3>1 DEF ClientTyped
    <3>3. PICK h \in Int : h = s.handle_count + 1
      BY <3>2 DEF ClientMembers
    <3>4. s' = [s EXCEPT !.handle_count = h, !.reading = FALSE, !.rbuf = m]
      BY <3>2, <3>3
    <3> QED
      BY <3>2, <3>4 DEF ClientMembers
  <2>2. pc' \in [{"io", "acc"} -> Labels]
    BY <1>e, <1>x DEF ClientTyped, Labels
  <2>3. /\ net' \in ClientSockets /\ env' \in ClientOutside /\ life' \in ClientLives
        /\ queue' \in ClientQueues /\ in_handler' \in BOOLEAN
    BY <1>x, <1>q DEF ClientTyped
  <2> QED
    BY <1>x, <2>1, <2>2, <2>3 DEF ClientTyped
<1>2. ThreadPlaces' /\ UserPlaces'
  BY <1>e, <1>x, <1>n, <1>q, <1>f
  DEF ThreadPlaces, UserPlaces
<1>3. OneRight'
  BY <1>e, <1>x, <1>n, <1>q, <1>f
  DEF ThreadPlaces, OneRight, Waits, Handled, Starter, Resumed, Notifier, Attempt, If
<1>4. FlagClear'
  BY <1>e, <1>x, <1>n, <1>q, <1>f, <1>g
  DEF FlagClear, Waits, If
<1>5. CountTrue'
  BY <1>e, <1>x, <1>n, <1>q, <1>f
  DEF ThreadPlaces, CountTrue, Out, If
<1>6. NothingYet' /\ EndKnown'
  BY <1>e, <1>x, <1>n, <1>q, <1>f, <1>g
  DEF ThreadPlaces, NothingYet, EndKnown, Connecting, Waits, If
<1>7. Over'
  BY <1>e, <1>x, <1>n, <1>q, <1>f
  DEF ThreadPlaces, Over, Silent, Connecting, CountTrue, Out, Waits, Starter, If
<1>8. ArmTrue' /\ ReadComing' /\ DecodeComing'
  BY <1>e, <1>x, <1>n, <1>q, <1>f
  DEF ThreadPlaces, ArmTrue, ReadComing, DecodeComing, Stays, FlagClear, EndKnown, Waits, If
<1> QED
  BY <1>1, <1>2, <1>3, <1>4, <1>5, <1>6, <1>7, <1>8

(* It arms the notification:                                               *)
LEMMA ArmCounts1 ==
    ASSUME ClientInv, Fixed, Arm, Place = "arm1"
    PROVE  ClientInv'
<1> USE ClientThreads DEF ClientInv
<1>e. /\ Place = "arm1"
  BY DEF ThreadPlaces, ClientTyped
<1>x. /\ s' = [s EXCEPT !.notify = TRUE]
      /\ queue' = queue /\ pc' = [pc EXCEPT !["io"] = "arm2"] /\ in_handler' = in_handler
      /\ UNCHANGED <<net, env, life, frame, turn, user_closed>>
  BY DEF Arm, AfterArm, Goto, Go, Fixed, Place
<1>n. /\ Many("connected") \in Nat
      /\ Many("read_ok") \in Nat
      /\ Many("read_end") \in Nat
      /\ Many("read_error") \in Nat
      /\ Many("fire_read") \in Nat
      /\ Many("close") \in Nat
      /\ Many("write_end") \in Nat
      /\ Kind = "connected" => Many("connected") >= 1
      /\ Kind = "read_ok" => Many("read_ok") >= 1
      /\ Kind = "read_end" => Many("read_end") >= 1
      /\ Kind = "fire_read" => Many("fire_read") >= 1
      /\ Kind = "close" => Many("close") >= 1
      /\ Kind = "write_end" => Many("write_end") >= 1
  BY HeadCounted
<1>q. /\ queue' \in ClientQueues /\ Kind' = Kind
      /\ Many("connected")' = Many("connected")
      /\ Many("read_ok")' = Many("read_ok")
      /\ Many("read_end")' = Many("read_end")
      /\ Many("read_error")' = Many("read_error")
      /\ Many("fire_read")' = Many("fire_read")
      /\ Many("close")' = Many("close")
      /\ Many("write_end")' = Many("write_end")
  <2>1. Kind' = Kind /\ \A op : Many(op)' = Many(op)
    BY <1>x, QueueLeft
  <2> QED
    BY <1>x, <2>1 DEF ClientTyped
<1>f. /\ Place' = "arm2" /\ pc'["acc"] = pc["acc"]
      /\ s'.reading = s.reading
      /\ s'.close_flag = s.close_flag
      /\ s'.work_read_count = s.work_read_count
      /\ s'.rbuf = s.rbuf
      /\ s'.notify = TRUE
      /\ s'.high_water = s.high_water
      /\ s.rbuf \in Nat /\ net.reads \in Nat /\ s.work_read_count \in Int
      /\ s.high_water \in Nat /\ frame \in Nat
      /\ frame' = frame /\ turn' = turn
      /\ env'.peer = env.peer
      /\ user_closed' = user_closed
  BY <1>e, <1>x DEF ClientTyped, ClientMembers, ClientSockets, Place
<1>1. ClientTyped'
  <2>1. s' \in ClientMembers
    <3>1. s \in ClientMembers
      BY DEF ClientTyped
    <3> QED
      BY <1>e, <1>x, <3>1 DEF ClientMembers
  <2>2. pc' \in [{"io", "acc"} -> Labels]
    BY <1>e, <1>x DEF ClientTyped, Labels
  <2>3. /\ net' \in ClientSockets /\ env' \in ClientOutside /\ life' \in ClientLives
        /\ queue' \in ClientQueues /\ in_handler' \in BOOLEAN
    BY <1>x, <1>q DEF ClientTyped
  <2> QED
    BY <1>x, <2>1, <2>2, <2>3 DEF ClientTyped
<1>2. ThreadPlaces' /\ UserPlaces'
  BY <1>e, <1>x, <1>n, <1>q, <1>f
  DEF ThreadPlaces, UserPlaces
<1>3. OneRight'
  BY <1>e, <1>x, <1>n, <1>q, <1>f
  DEF ThreadPlaces, OneRight, Waits, Handled, Starter, Resumed, Notifier, Attempt, If
<1>4. FlagClear'
  BY <1>e, <1>x, <1>n, <1>q, <1>f
  DEF ThreadPlaces, FlagClear, Waits, If
<1>5. CountTrue'
  BY <1>e, <1>x, <1>n, <1>q, <1>f
  DEF ThreadPlaces, CountTrue, Out, If
<1>6. NothingYet' /\ EndKnown'
  BY <1>e, <1>x, <1>n, <1>q, <1>f
  DEF ThreadPlaces, NothingYet, EndKnown, Connecting, Waits, If
<1>7. Over'
  BY <1>e, <1>x, <1>n, <1>q, <1>f
  DEF ThreadPlaces, Over, Silent, Connecting, CountTrue, Out, Waits, Starter, If
<1>8. ArmTrue' /\ ReadComing' /\ DecodeComing'
  BY <1>e, <1>x, <1>n, <1>q, <1>f
  DEF ThreadPlaces, ArmTrue, ReadComing, DecodeComing, Stays, FlagClear, EndKnown, Waits, If
<1> QED
  BY <1>1, <1>2, <1>3, <1>4, <1>5, <1>6, <1>7, <1>8

(* set_notify_behind_high_water_mask is two assignments;                   *)
LEMMA ArmCounts2 ==
    ASSUME ClientInv, Fixed, Arm, Place = "arm2"
    PROVE  ClientInv'
<1> USE ClientThreads DEF ClientInv
<1>e. /\ Place = "arm2"
  BY DEF ThreadPlaces, ClientTyped
<1>x. /\ s' = [s EXCEPT !.high_water = Mask]
      /\ queue' = queue /\ pc' = [pc EXCEPT !["io"] = "postRead"] /\ in_handler' = in_handler
      /\ UNCHANGED <<net, env, life, frame, turn, user_closed>>
  BY DEF Arm, AfterArm, Goto, Go, Fixed, Place
<1>n. /\ Many("connected") \in Nat
      /\ Many("read_ok") \in Nat
      /\ Many("read_end") \in Nat
      /\ Many("read_error") \in Nat
      /\ Many("fire_read") \in Nat
      /\ Many("close") \in Nat
      /\ Many("write_end") \in Nat
      /\ Kind = "connected" => Many("connected") >= 1
      /\ Kind = "read_ok" => Many("read_ok") >= 1
      /\ Kind = "read_end" => Many("read_end") >= 1
      /\ Kind = "fire_read" => Many("fire_read") >= 1
      /\ Kind = "close" => Many("close") >= 1
      /\ Kind = "write_end" => Many("write_end") >= 1
  BY HeadCounted
<1>q. /\ queue' \in ClientQueues /\ Kind' = Kind
      /\ Many("connected")' = Many("connected")
      /\ Many("read_ok")' = Many("read_ok")
      /\ Many("read_end")' = Many("read_end")
      /\ Many("read_error")' = Many("read_error")
      /\ Many("fire_read")' = Many("fire_read")
      /\ Many("close")' = Many("close")
      /\ Many("write_end")' = Many("write_end")
  <2>1. Kind' = Kind /\ \A op : Many(op)' = Many(op)
    BY <1>x, QueueLeft
  <2> QED
    BY <1>x, <2>1 DEF ClientTyped
<1>f. /\ Place' = "postRead" /\ pc'["acc"] = pc["acc"]
      /\ s'.reading = s.reading
      /\ s'.close_flag = s.close_flag
      /\ s'.work_read_count = s.work_read_count
      /\ s'.rbuf = s.rbuf
      /\ s'.notify = s.notify
      /\ s'.high_water = Mask
      /\ s.rbuf \in Nat /\ net.reads \in Nat /\ s.work_read_count \in Int
      /\ s.high_water \in Nat /\ frame \in Nat
      /\ frame' = frame /\ turn' = turn
      /\ env'.peer = env.peer
      /\ user_closed' = user_closed
  BY <1>e, <1>x DEF ClientTyped, ClientMembers, ClientSockets, Place
<1>1. ClientTyped'
  <2>1. s' \in ClientMembers
    <3>1. s \in ClientMembers
      BY DEF ClientTyped
    <3> QED
      BY <1>e, <1>x, <3>1 DEF ClientMembers
  <2>2. pc' \in [{"io", "acc"} -> Labels]
    BY <1>e, <1>x DEF ClientTyped, Labels
  <2>3. /\ net' \in ClientSockets /\ env' \in ClientOutside /\ life' \in ClientLives
        /\ queue' \in ClientQueues /\ in_handler' \in BOOLEAN
    BY <1>x, <1>q DEF ClientTyped
  <2> QED
    BY <1>x, <2>1, <2>2, <2>3 DEF ClientTyped
<1>2. ThreadPlaces' /\ UserPlaces'
  BY <1>e, <1>x, <1>n, <1>q, <1>f
  DEF ThreadPlaces, UserPlaces
<1>3. OneRight'
  BY <1>e, <1>x, <1>n, <1>q, <1>f
  DEF ThreadPlaces, OneRight, Waits, Handled, Starter, Resumed, Notifier, Attempt, If
<1>4. FlagClear'
  BY <1>e, <1>x, <1>n, <1>q, <1>f
  DEF ThreadPlaces, FlagClear, Waits, If
<1>5. CountTrue'
  BY <1>e, <1>x, <1>n, <1>q, <1>f
  DEF ThreadPlaces, CountTrue, Out, If
<1>6. NothingYet' /\ EndKnown'
  BY <1>e, <1>x, <1>n, <1>q, <1>f
  DEF ThreadPlaces, NothingYet, EndKnown, Connecting, Waits, If
<1>7. Over'
  BY <1>e, <1>x, <1>n, <1>q, <1>f
  DEF ThreadPlaces, Over, Silent, Connecting, CountTrue, Out, Waits, Starter, If
<1>8. ArmTrue' /\ ReadComing' /\ DecodeComing'
  BY <1>e, <1>x, <1>n, <1>q, <1>f
  DEF ThreadPlaces, ArmTrue, ReadComing, DecodeComing, Stays, FlagClear, EndKnown, Waits, If
<1> QED
  BY <1>1, <1>2, <1>3, <1>4, <1>5, <1>6, <1>7, <1>8

(* and posts the handlers.                                                 *)
LEMMA PostFireReadCounts ==
    ASSUME ClientInv, Fixed, PostFireRead
    PROVE  ClientInv'
<1> USE ClientThreads DEF ClientInv
<1>a. Task("fire_read", 0) \in Tasks /\ Task("fire_read", 0).op = "fire_read"
  BY DEF Task, Tasks, Ops
<1>e. /\ Place = "postRead" /\ Kind = "read_ok" /\ in_handler = FALSE
  BY DEF PostFireRead, Place, ThreadPlaces
<1>x. /\ s' = [s EXCEPT !.work_read_count = @ + 1]
      /\ queue' = Pop(Post(queue, "io", Task("fire_read", 0)), "io")
      /\ pc' = [pc EXCEPT !["io"] = "idle"] /\ in_handler' = in_handler
      /\ UNCHANGED <<net, env, life, frame, turn, user_closed>>
  BY DEF PostFireRead, Go, Fixed
<1>n. /\ Many("connected") \in Nat
      /\ Many("read_ok") \in Nat
      /\ Many("read_end") \in Nat
      /\ Many("read_error") \in Nat
      /\ Many("fire_read") \in Nat
      /\ Many("close") \in Nat
      /\ Many("write_end") \in Nat
      /\ Kind = "connected" => Many("connected") >= 1
      /\ Kind = "read_ok" => Many("read_ok") >= 1
      /\ Kind = "read_end" => Many("read_end") >= 1
      /\ Kind = "fire_read" => Many("fire_read") >= 1
      /\ Kind = "close" => Many("close") >= 1
      /\ Kind = "write_end" => Many("write_end") >= 1
  BY HeadCounted
<1>q. /\ queue' \in ClientQueues
      /\ Many("connected")' = Many("connected") - If(Kind = "connected")
      /\ Many("read_ok")' = Many("read_ok") - If(Kind = "read_ok")
      /\ Many("read_end")' = Many("read_end") - If(Kind = "read_end")
      /\ Many("read_error")' = Many("read_error") - If(Kind = "read_error")
      /\ Many("fire_read")' = Many("fire_read") - If(Kind = "fire_read") + 1
      /\ Many("close")' = Many("close") - If(Kind = "close")
      /\ Many("write_end")' = Many("write_end") - If(Kind = "write_end")
  <2>1. /\ queue' \in ClientQueues
        /\ \A op : Many(op)' = Many(op) - If(Kind = op) + If(Task("fire_read", 0).op = op)
    BY <1>e, <1>x, <1>a, PoppedPosted
  <2> QED
    BY <1>e, <1>n, <2>1, <1>a DEF If
<1>f. /\ Place' = "idle" /\ pc'["acc"] = pc["acc"]
      /\ s'.reading = s.reading
      /\ s'.close_flag = s.close_flag
      /\ s'.work_read_count = s.work_read_count + 1
      /\ s'.rbuf = s.rbuf
      /\ s'.notify = s.notify
      /\ s'.high_water = s.high_water
      /\ s.rbuf \in Nat /\ net.reads \in Nat /\ s.work_read_count \in Int
      /\ s.high_water \in Nat /\ frame \in Nat
      /\ frame' = frame /\ turn' = turn
      /\ env'.peer = env.peer
      /\ user_closed' = user_closed
  BY <1>e, <1>x DEF ClientTyped, ClientMembers, ClientSockets, Place
<1>1. ClientTyped'
  <2>1. s' \in ClientMembers
    <3>1. s \in ClientMembers
      BY DEF ClientTyped
    <3> QED
      BY <1>e, <1>x, <3>1 DEF ClientMembers
  <2>2. pc' \in [{"io", "acc"} -> Labels]
    BY <1>e, <1>x DEF ClientTyped, Labels
  <2>3. /\ net' \in ClientSockets /\ env' \in ClientOutside /\ life' \in ClientLives
        /\ queue' \in ClientQueues /\ in_handler' \in BOOLEAN
    BY <1>x, <1>q DEF ClientTyped
  <2> QED
    BY <1>x, <2>1, <2>2, <2>3 DEF ClientTyped
<1>2. ThreadPlaces' /\ UserPlaces'
  BY <1>e, <1>x, <1>n, <1>q, <1>f
  DEF ThreadPlaces, UserPlaces
<1>3. OneRight'
  BY <1>e, <1>x, <1>n, <1>q, <1>f
  DEF ThreadPlaces, OneRight, Waits, Handled, Starter, Resumed, Notifier, Attempt, If
<1>4. FlagClear'
  BY <1>e, <1>x, <1>n, <1>q, <1>f DEF ThreadPlaces, FlagClear, Waits, If
<1>5. CountTrue'
  BY <1>e, <1>x, <1>n, <1>q, <1>f
  DEF ThreadPlaces, CountTrue, Out, If
<1>6. NothingYet' /\ EndKnown'
  BY <1>e, <1>x, <1>n, <1>q, <1>f
  DEF ThreadPlaces, NothingYet, EndKnown, Connecting, Waits, If
<1>7. Over'
  BY <1>e, <1>x, <1>n, <1>q, <1>f
  DEF ThreadPlaces, Over, Silent, Connecting, CountTrue, Out, Waits, Starter, If
<1>8. ArmTrue' /\ ReadComing' /\ DecodeComing'
  BY <1>e, <1>x, <1>n, <1>q, <1>f
  DEF ThreadPlaces, ArmTrue, ReadComing, DecodeComing, Stays, FlagClear, EndKnown, Waits, If
<1> QED
  BY <1>1, <1>2, <1>3, <1>4, <1>5, <1>6, <1>7, <1>8

(* handle_write gives the handle of the write back,                        *)
LEMMA HandleWriteCounts ==
    ASSUME ClientInv, Fixed, HandleWrite
    PROVE  ClientInv'
<1> USE ClientThreads DEF ClientInv
<1>e. /\ Place = "idle" /\ Kind \in {"write_ok", "write_end"}
  BY DEF HandleWrite, Begins, Runs, Place, Kind, Line
<1>x. /\ s' = [s EXCEPT !.handle_count = @ - 1]
      /\ pc' = [pc EXCEPT !["io"] = IF Kind = "write_ok" THEN "wrote" ELSE "wroteEnd"]
      /\ queue' = queue /\ in_handler' = in_handler
      /\ UNCHANGED <<net, env, life, frame, turn, user_closed>>
  BY <1>e DEF HandleWrite, Goto, Go, Fixed, Runs, Kind, Line
<1>n. /\ Many("connected") \in Nat
      /\ Many("read_ok") \in Nat
      /\ Many("read_end") \in Nat
      /\ Many("read_error") \in Nat
      /\ Many("fire_read") \in Nat
      /\ Many("close") \in Nat
      /\ Many("write_end") \in Nat
      /\ Kind = "connected" => Many("connected") >= 1
      /\ Kind = "read_ok" => Many("read_ok") >= 1
      /\ Kind = "read_end" => Many("read_end") >= 1
      /\ Kind = "fire_read" => Many("fire_read") >= 1
      /\ Kind = "close" => Many("close") >= 1
      /\ Kind = "write_end" => Many("write_end") >= 1
  BY HeadCounted
<1>q. /\ queue' \in ClientQueues /\ Kind' = Kind
      /\ Many("connected")' = Many("connected")
      /\ Many("read_ok")' = Many("read_ok")
      /\ Many("read_end")' = Many("read_end")
      /\ Many("read_error")' = Many("read_error")
      /\ Many("fire_read")' = Many("fire_read")
      /\ Many("close")' = Many("close")
      /\ Many("write_end")' = Many("write_end")
  <2>1. Kind' = Kind /\ \A op : Many(op)' = Many(op)
    BY <1>x, QueueLeft
  <2> QED
    BY <1>x, <2>1 DEF ClientTyped
<1>f. /\ Place' = (IF Kind = "write_ok" THEN "wrote" ELSE "wroteEnd") /\ pc'["acc"] = pc["acc"]
      /\ s'.reading = s.reading
      /\ s'.close_flag = s.close_flag
      /\ s'.work_read_count = s.work_read_count
      /\ s'.rbuf = s.rbuf
      /\ s'.notify = s.notify
      /\ s'.high_water = s.high_water
      /\ s.rbuf \in Nat /\ net.reads \in Nat /\ s.work_read_count \in Int
      /\ s.high_water \in Nat /\ frame \in Nat
      /\ frame' = frame /\ turn' = turn
      /\ env'.peer = env.peer
      /\ user_closed' = user_closed
  BY <1>e, <1>x DEF ClientTyped, ClientMembers, ClientSockets, Place
<1>1. ClientTyped'
  <2>1. s' \in ClientMembers
    <3>1. s \in ClientMembers
      BY DEF ClientTyped
    <3> QED
      BY <1>e, <1>x, <3>1 DEF ClientMembers
  <2>2. pc' \in [{"io", "acc"} -> Labels]
    BY <1>e, <1>x DEF ClientTyped, Labels
  <2>3. /\ net' \in ClientSockets /\ env' \in ClientOutside /\ life' \in ClientLives
        /\ queue' \in ClientQueues /\ in_handler' \in BOOLEAN
    BY <1>x, <1>q DEF ClientTyped
  <2> QED
    BY <1>x, <2>1, <2>2, <2>3 DEF ClientTyped
<1>2. ThreadPlaces' /\ UserPlaces'
  BY <1>e, <1>x, <1>n, <1>q, <1>f
  DEF ThreadPlaces, UserPlaces
<1>3. OneRight'
  BY <1>e, <1>x, <1>n, <1>q, <1>f
  DEF ThreadPlaces, OneRight, Waits, Handled, Starter, Resumed, Notifier, Attempt, If
<1>4. FlagClear'
  BY <1>e, <1>x, <1>n, <1>q, <1>f
  DEF ThreadPlaces, FlagClear, Waits, If
<1>5. CountTrue'
  BY <1>e, <1>x, <1>n, <1>q, <1>f
  DEF ThreadPlaces, CountTrue, Out, If
<1>6. NothingYet' /\ EndKnown'
  BY <1>e, <1>x, <1>n, <1>q, <1>f
  DEF ThreadPlaces, NothingYet, EndKnown, Connecting, Waits, If
<1>7. Over'
  BY <1>e, <1>x, <1>n, <1>q, <1>f
  DEF ThreadPlaces, Over, Silent, Connecting, CountTrue, Out, Waits, Starter, If
<1>8. ArmTrue' /\ ReadComing' /\ DecodeComing'
  BY <1>e, <1>x, <1>n, <1>q, <1>f
  DEF ThreadPlaces, ArmTrue, ReadComing, DecodeComing, Stays, FlagClear, EndKnown, Waits, If
<1> QED
  BY <1>1, <1>2, <1>3, <1>4, <1>5, <1>6, <1>7, <1>8

(* and takes what was sent out of the counts.                              *)
LEMMA WroteCounts ==
    ASSUME ClientInv, Fixed, Wrote
    PROVE  ClientInv'
<1> USE ClientThreads DEF ClientInv
<1>a. Place = "wrote" /\ Kind = "write_ok" /\ Line # <<>> /\ Head(Line) \in Tasks
  <2>1. Place = "wrote" /\ Kind = "write_ok"
    BY DEF Wrote, Place, ThreadPlaces
  <2> QED
    BY <2>1, Counted
<1>e. /\ Place = "wrote" /\ Kind = "write_ok" /\ Length("io") \in Nat
  BY <1>a DEF Length, Tasks, Line
<1>x. /\ s' = [s EXCEPT !.writing = FALSE, !.wbuf = @ - Length("io"),
                      !.pending = StillPending(Length("io"))]
      /\ queue' = queue /\ pc' = [pc EXCEPT !["io"] = "pendingTest"] /\ in_handler' = in_handler
      /\ UNCHANGED <<net, env, life, frame, turn, user_closed>>
  BY DEF Wrote, Goto, Go, Fixed
<1>n. /\ Many("connected") \in Nat
      /\ Many("read_ok") \in Nat
      /\ Many("read_end") \in Nat
      /\ Many("read_error") \in Nat
      /\ Many("fire_read") \in Nat
      /\ Many("close") \in Nat
      /\ Many("write_end") \in Nat
      /\ Kind = "connected" => Many("connected") >= 1
      /\ Kind = "read_ok" => Many("read_ok") >= 1
      /\ Kind = "read_end" => Many("read_end") >= 1
      /\ Kind = "fire_read" => Many("fire_read") >= 1
      /\ Kind = "close" => Many("close") >= 1
      /\ Kind = "write_end" => Many("write_end") >= 1
  BY HeadCounted
<1>q. /\ queue' \in ClientQueues /\ Kind' = Kind
      /\ Many("connected")' = Many("connected")
      /\ Many("read_ok")' = Many("read_ok")
      /\ Many("read_end")' = Many("read_end")
      /\ Many("read_error")' = Many("read_error")
      /\ Many("fire_read")' = Many("fire_read")
      /\ Many("close")' = Many("close")
      /\ Many("write_end")' = Many("write_end")
  <2>1. Kind' = Kind /\ \A op : Many(op)' = Many(op)
    BY <1>x, QueueLeft
  <2> QED
    BY <1>x, <2>1 DEF ClientTyped
<1>f. /\ Place' = "pendingTest" /\ pc'["acc"] = pc["acc"]
      /\ s'.reading = s.reading
      /\ s'.close_flag = s.close_flag
      /\ s'.work_read_count = s.work_read_count
      /\ s'.rbuf = s.rbuf
      /\ s'.notify = s.notify
      /\ s'.high_water = s.high_water
      /\ s.rbuf \in Nat /\ net.reads \in Nat /\ s.work_read_count \in Int
      /\ s.high_water \in Nat /\ frame \in Nat
      /\ frame' = frame /\ turn' = turn
      /\ env'.peer = env.peer
      /\ user_closed' = user_closed
  BY <1>e, <1>x DEF ClientTyped, ClientMembers, ClientSockets, Place
<1>1. ClientTyped'
  <2>1. s' \in ClientMembers
    <3>1. PICK m \in Int, v \in Int, u \in Int :
              m = StillPending(Length("io")) /\ v = s.wbuf /\ u = Length("io")
      BY <1>e DEF ClientTyped, ClientMembers, StillPending
    <3>2. s' = [s EXCEPT !.writing = FALSE, !.wbuf = v - u, !.pending = m] /\ v - u \in Int
      BY <1>x, <3>1
    <3>3. s \in ClientMembers
      BY DEF ClientTyped
    <3> QED
      BY <3>1, <3>2, <3>3 DEF ClientMembers
  <2>2. pc' \in [{"io", "acc"} -> Labels]
    BY <1>e, <1>x DEF ClientTyped, Labels
  <2>3. /\ net' \in ClientSockets /\ env' \in ClientOutside /\ life' \in ClientLives
        /\ queue' \in ClientQueues /\ in_handler' \in BOOLEAN
    BY <1>x, <1>q DEF ClientTyped
  <2> QED
    BY <1>x, <2>1, <2>2, <2>3 DEF ClientTyped
<1>2. ThreadPlaces' /\ UserPlaces'
  BY <1>e, <1>x, <1>n, <1>q, <1>f
  DEF ThreadPlaces, UserPlaces
<1>3. OneRight'
  BY <1>e, <1>x, <1>n, <1>q, <1>f
  DEF ThreadPlaces, OneRight, Waits, Handled, Starter, Resumed, Notifier, Attempt, If
<1>4. FlagClear'
  BY <1>e, <1>x, <1>n, <1>q, <1>f
  DEF ThreadPlaces, FlagClear, Waits, If
<1>5. CountTrue'
  BY <1>e, <1>x, <1>n, <1>q, <1>f
  DEF ThreadPlaces, CountTrue, Out, If
<1>6. NothingYet' /\ EndKnown'
  BY <1>e, <1>x, <1>n, <1>q, <1>f
  DEF ThreadPlaces, NothingYet, EndKnown, Connecting, Waits, If
<1>7. Over'
  BY <1>e, <1>x, <1>n, <1>q, <1>f
  DEF ThreadPlaces, Over, Silent, Connecting, CountTrue, Out, Waits, Starter, If
<1>8. ArmTrue' /\ ReadComing' /\ DecodeComing'
  BY <1>e, <1>x, <1>n, <1>q, <1>f
  DEF ThreadPlaces, ArmTrue, ReadComing, DecodeComing, Stays, FlagClear, EndKnown, Waits, If
<1> QED
  BY <1>1, <1>2, <1>3, <1>4, <1>5, <1>6, <1>7, <1>8

(* A write that was aborted closes what was closing already.               *)
LEMMA WroteEndCounts ==
    ASSUME ClientInv, Fixed, WroteEnd
    PROVE  ClientInv'
<1> USE ClientThreads DEF ClientInv
<1>e. /\ Place = "wroteEnd" /\ Kind = "write_end" /\ s.close_flag
  BY HeadCounted DEF WroteEnd, Place, ThreadPlaces, EndKnown
<1>x. /\ s' = [s EXCEPT !.writing = FALSE, !.close_flag = TRUE]
      /\ queue' = queue /\ pc' = [pc EXCEPT !["io"] = "flagTest"] /\ in_handler' = in_handler
      /\ UNCHANGED <<net, env, life, frame, turn, user_closed>>
  BY DEF WroteEnd, Goto, Go, Fixed
<1>n. /\ Many("connected") \in Nat
      /\ Many("read_ok") \in Nat
      /\ Many("read_end") \in Nat
      /\ Many("read_error") \in Nat
      /\ Many("fire_read") \in Nat
      /\ Many("close") \in Nat
      /\ Many("write_end") \in Nat
      /\ Kind = "connected" => Many("connected") >= 1
      /\ Kind = "read_ok" => Many("read_ok") >= 1
      /\ Kind = "read_end" => Many("read_end") >= 1
      /\ Kind = "fire_read" => Many("fire_read") >= 1
      /\ Kind = "close" => Many("close") >= 1
      /\ Kind = "write_end" => Many("write_end") >= 1
  BY HeadCounted
<1>q. /\ queue' \in ClientQueues /\ Kind' = Kind
      /\ Many("connected")' = Many("connected")
      /\ Many("read_ok")' = Many("read_ok")
      /\ Many("read_end")' = Many("read_end")
      /\ Many("read_error")' = Many("read_error")
      /\ Many("fire_read")' = Many("fire_read")
      /\ Many("close")' = Many("close")
      /\ Many("write_end")' = Many("write_end")
  <2>1. Kind' = Kind /\ \A op : Many(op)' = Many(op)
    BY <1>x, QueueLeft
  <2> QED
    BY <1>x, <2>1 DEF ClientTyped
<1>f. /\ Place' = "flagTest" /\ pc'["acc"] = pc["acc"]
      /\ s'.reading = s.reading
      /\ s'.close_flag = TRUE
      /\ s'.work_read_count = s.work_read_count
      /\ s'.rbuf = s.rbuf
      /\ s'.notify = s.notify
      /\ s'.high_water = s.high_water
      /\ s.rbuf \in Nat /\ net.reads \in Nat /\ s.work_read_count \in Int
      /\ s.high_water \in Nat /\ frame \in Nat
      /\ frame' = frame /\ turn' = turn
      /\ env'.peer = env.peer
      /\ user_closed' = user_closed
  BY <1>e, <1>x DEF ClientTyped, ClientMembers, ClientSockets, Place
<1>1. ClientTyped'
  <2>1. s' \in ClientMembers
    <3>1. s \in ClientMembers
      BY DEF ClientTyped
    <3> QED
      BY <1>e, <1>x, <3>1 DEF ClientMembers
  <2>2. pc' \in [{"io", "acc"} -> Labels]
    BY <1>e, <1>x DEF ClientTyped, Labels
  <2>3. /\ net' \in ClientSockets /\ env' \in ClientOutside /\ life' \in ClientLives
        /\ queue' \in ClientQueues /\ in_handler' \in BOOLEAN
    BY <1>x, <1>q DEF ClientTyped
  <2> QED
    BY <1>x, <2>1, <2>2, <2>3 DEF ClientTyped
<1>2. ThreadPlaces' /\ UserPlaces'
  BY <1>e, <1>x, <1>n, <1>q, <1>f
  DEF ThreadPlaces, UserPlaces
<1>3. OneRight'
  BY <1>e, <1>x, <1>n, <1>q, <1>f
  DEF ThreadPlaces, OneRight, Waits, Handled, Starter, Resumed, Notifier, Attempt, If
<1>4. FlagClear'
  BY <1>e, <1>x, <1>n, <1>q, <1>f
  DEF ThreadPlaces, FlagClear, Waits, If
<1>5. CountTrue'
  BY <1>e, <1>x, <1>n, <1>q, <1>f
  DEF ThreadPlaces, CountTrue, Out, If
<1>6. NothingYet' /\ EndKnown'
  BY <1>e, <1>x, <1>n, <1>q, <1>f
  DEF ThreadPlaces, NothingYet, EndKnown, Connecting, Waits, If
<1>7. Over'
  BY <1>e, <1>x, <1>n, <1>q, <1>f
  DEF ThreadPlaces, Over, Silent, Connecting, CountTrue, Out, Waits, Starter, If
<1>8. ArmTrue' /\ ReadComing' /\ DecodeComing'
  BY <1>e, <1>x, <1>n, <1>q, <1>f
  DEF ThreadPlaces, ArmTrue, ReadComing, DecodeComing, Stays, FlagClear, EndKnown, Waits, If
<1> QED
  BY <1>1, <1>2, <1>3, <1>4, <1>5, <1>6, <1>7, <1>8

(* The posted handlers are called.                                         *)
LEMMA FireReadCounts ==
    ASSUME ClientInv, FireRead, UNCHANGED <<frame, user_closed>>
    PROVE  ClientInv'
<1> USE ClientThreads DEF ClientInv
<1>e. /\ Place = "idle" /\ Kind = "fire_read"
  BY DEF FireRead, Begins, Runs, Place, Kind, Line
<1>x. /\ queue' = queue /\ pc' = [pc EXCEPT !["io"] = "user"] /\ in_handler' = TRUE
      /\ UNCHANGED <<s, net, env, life, frame, user_closed>>
  BY DEF FireRead
<1>n. /\ Many("connected") \in Nat
      /\ Many("read_ok") \in Nat
      /\ Many("read_end") \in Nat
      /\ Many("read_error") \in Nat
      /\ Many("fire_read") \in Nat
      /\ Many("close") \in Nat
      /\ Many("write_end") \in Nat
      /\ Kind = "connected" => Many("connected") >= 1
      /\ Kind = "read_ok" => Many("read_ok") >= 1
      /\ Kind = "read_end" => Many("read_end") >= 1
      /\ Kind = "fire_read" => Many("fire_read") >= 1
      /\ Kind = "close" => Many("close") >= 1
      /\ Kind = "write_end" => Many("write_end") >= 1
  BY HeadCounted
<1>q. /\ queue' \in ClientQueues /\ Kind' = Kind
      /\ Many("connected")' = Many("connected")
      /\ Many("read_ok")' = Many("read_ok")
      /\ Many("read_end")' = Many("read_end")
      /\ Many("read_error")' = Many("read_error")
      /\ Many("fire_read")' = Many("fire_read")
      /\ Many("close")' = Many("close")
      /\ Many("write_end")' = Many("write_end")
  <2>1. Kind' = Kind /\ \A op : Many(op)' = Many(op)
    BY <1>x, QueueLeft
  <2> QED
    BY <1>x, <2>1 DEF ClientTyped
<1>f. /\ Place' = "user" /\ pc'["acc"] = pc["acc"]
      /\ s'.reading = s.reading
      /\ s'.close_flag = s.close_flag
      /\ s'.work_read_count = s.work_read_count
      /\ s'.rbuf = s.rbuf
      /\ s'.notify = s.notify
      /\ s'.high_water = s.high_water
      /\ s.rbuf \in Nat /\ net.reads \in Nat /\ s.work_read_count \in Int
      /\ s.high_water \in Nat /\ frame \in Nat
      /\ env'.peer = env.peer
      /\ user_closed' = user_closed
  BY <1>e, <1>x DEF ClientTyped, ClientMembers, ClientSockets, Place
<1>1. ClientTyped'
  <2>1. s' \in ClientMembers
    BY <1>x DEF ClientTyped
  <2>2. pc' \in [{"io", "acc"} -> Labels]
    BY <1>e, <1>x DEF ClientTyped, Labels
  <2>3. /\ net' \in ClientSockets /\ env' \in ClientOutside /\ life' \in ClientLives
        /\ queue' \in ClientQueues /\ in_handler' \in BOOLEAN
    BY <1>x, <1>q DEF ClientTyped
  <2> QED
    BY <1>x, <2>1, <2>2, <2>3 DEF ClientTyped
<1>2. ThreadPlaces' /\ UserPlaces'
  BY <1>e, <1>x, <1>n, <1>q, <1>f
  DEF ThreadPlaces, UserPlaces
<1>3. OneRight'
  BY <1>e, <1>x, <1>n, <1>q, <1>f
  DEF ThreadPlaces, OneRight, Waits, Handled, Starter, Resumed, Notifier, Attempt, If
<1>4. FlagClear'
  BY <1>e, <1>x, <1>n, <1>q, <1>f
  DEF ThreadPlaces, FlagClear, Waits, If
<1>5. CountTrue'
  BY <1>e, <1>x, <1>n, <1>q, <1>f
  DEF ThreadPlaces, CountTrue, Out, If
<1>6. NothingYet' /\ EndKnown'
  BY <1>e, <1>x, <1>n, <1>q, <1>f
  DEF ThreadPlaces, NothingYet, EndKnown, Connecting, Waits, If
<1>7. Over'
  BY <1>e, <1>x, <1>n, <1>q, <1>f
  DEF ThreadPlaces, Over, Silent, Connecting, CountTrue, Out, Waits, Starter, If
<1>8. ArmTrue' /\ ReadComing' /\ DecodeComing'
  BY <1>e, <1>x, <1>n, <1>q, <1>f
  DEF ThreadPlaces, ArmTrue, ReadComing, DecodeComing, Stays, FlagClear, EndKnown, Waits, If
<1> QED
  BY <1>1, <1>2, <1>3, <1>4, <1>5, <1>6, <1>7, <1>8

(* The decoder takes a frame, or a part of it, and so makes room,          *)
LEMMA RetrieveCounts ==
    ASSUME ClientInv, NEW k \in Int, Retrieve(k), frame' \in Claims,
           user_closed' = user_closed
    PROVE  ClientInv'
<1> USE ClientThreads DEF ClientInv
<1>e. /\ Place = "user" /\ k \in Int /\ k <= s.rbuf
      /\ in_handler = TRUE /\ Kind = "fire_read"
  BY DEF Retrieve, Place, ThreadPlaces, ClientTyped
<1>x. /\ s' = [s EXCEPT !.rbuf = @ - k]
      /\ queue' = queue /\ pc' = [pc EXCEPT !["io"] = "notifyTest"] /\ in_handler' = in_handler
      /\ UNCHANGED <<net, env, life, user_closed>> /\ frame' \in Claims
  BY DEF Retrieve, Goto, Go
<1>n. /\ Many("connected") \in Nat
      /\ Many("read_ok") \in Nat
      /\ Many("read_end") \in Nat
      /\ Many("read_error") \in Nat
      /\ Many("fire_read") \in Nat
      /\ Many("close") \in Nat
      /\ Many("write_end") \in Nat
      /\ Kind = "connected" => Many("connected") >= 1
      /\ Kind = "read_ok" => Many("read_ok") >= 1
      /\ Kind = "read_end" => Many("read_end") >= 1
      /\ Kind = "fire_read" => Many("fire_read") >= 1
      /\ Kind = "close" => Many("close") >= 1
      /\ Kind = "write_end" => Many("write_end") >= 1
  BY HeadCounted
<1>q. /\ queue' \in ClientQueues /\ Kind' = Kind
      /\ Many("connected")' = Many("connected")
      /\ Many("read_ok")' = Many("read_ok")
      /\ Many("read_end")' = Many("read_end")
      /\ Many("read_error")' = Many("read_error")
      /\ Many("fire_read")' = Many("fire_read")
      /\ Many("close")' = Many("close")
      /\ Many("write_end")' = Many("write_end")
  <2>1. Kind' = Kind /\ \A op : Many(op)' = Many(op)
    BY <1>x, QueueLeft
  <2> QED
    BY <1>x, <2>1 DEF ClientTyped
<1>f. /\ Place' = "notifyTest" /\ pc'["acc"] = pc["acc"]
      /\ s'.reading = s.reading
      /\ s'.close_flag = s.close_flag
      /\ s'.work_read_count = s.work_read_count
      /\ s'.rbuf = s.rbuf - k
      /\ s'.notify = s.notify
      /\ s'.high_water = s.high_water
      /\ s.rbuf \in Nat /\ net.reads \in Nat /\ s.work_read_count \in Int
      /\ s.high_water \in Nat /\ frame \in Nat
      /\ env'.peer = env.peer
      /\ user_closed' = user_closed
  BY <1>e, <1>x DEF ClientTyped, ClientMembers, ClientSockets, Place
<1>1. ClientTyped'
  <2>1. s' \in ClientMembers
    <3>1. s \in ClientMembers
      BY DEF ClientTyped
    <3> QED
      BY <1>e, <1>x, <3>1 DEF ClientMembers
  <2>2. pc' \in [{"io", "acc"} -> Labels]
    BY <1>e, <1>x DEF ClientTyped, Labels
  <2>3. /\ net' \in ClientSockets /\ env' \in ClientOutside /\ life' \in ClientLives
        /\ queue' \in ClientQueues /\ in_handler' \in BOOLEAN
    BY <1>x, <1>q DEF ClientTyped
  <2> QED
    BY <1>x, <2>1, <2>2, <2>3 DEF ClientTyped
<1>2. ThreadPlaces' /\ UserPlaces'
  BY <1>e, <1>x, <1>n, <1>q, <1>f
  DEF ThreadPlaces, UserPlaces
<1>3. OneRight'
  BY <1>e, <1>x, <1>n, <1>q, <1>f
  DEF ThreadPlaces, OneRight, Waits, Handled, Starter, Resumed, Notifier, Attempt, If
<1>4. FlagClear'
  BY <1>e, <1>x, <1>n, <1>q, <1>f
  DEF ThreadPlaces, FlagClear, Waits, If
<1>5. CountTrue'
  BY <1>e, <1>x, <1>n, <1>q, <1>f
  DEF ThreadPlaces, CountTrue, Out, If
<1>6. NothingYet' /\ EndKnown'
  BY <1>e, <1>x, <1>n, <1>q, <1>f
  DEF ThreadPlaces, NothingYet, EndKnown, Connecting, Waits, If
<1>7. Over'
  BY <1>e, <1>x, <1>n, <1>q, <1>f
  DEF ThreadPlaces, Over, Silent, Connecting, CountTrue, Out, Waits, Starter, If
<1>8. ArmTrue' /\ ReadComing' /\ DecodeComing'
  <2>1. ArmTrue' /\ ReadComing'
    BY <1>e, <1>x, <1>n, <1>q, <1>f DEF ThreadPlaces, ArmTrue, ReadComing, Waits, If
  <2>2. DecodeComing'
    BY <1>e, <1>x, <1>n, <1>q, <1>f DEF DecodeComing, If
  <2> QED
    BY <2>1, <2>2
<1> QED
  BY <1>1, <1>2, <1>3, <1>4, <1>5, <1>6, <1>7, <1>8

(* The notification is taken down when it has run,                         *)
LEMMA DisarmCounts1 ==
    ASSUME ClientInv, Fixed, Disarm, Place = "clear1"
    PROVE  ClientInv'
<1> USE ClientThreads DEF ClientInv
<1>e. /\ Place = "clear1"
  BY DEF ThreadPlaces, ClientTyped
<1>x. /\ s' = [s EXCEPT !.notify = FALSE]
      /\ queue' = queue /\ pc' = [pc EXCEPT !["io"] = "clear2"] /\ in_handler' = in_handler
      /\ UNCHANGED <<net, env, life, frame, turn, user_closed>>
  BY DEF Disarm, Goto, Go, Fixed, Place
<1>n. /\ Many("connected") \in Nat
      /\ Many("read_ok") \in Nat
      /\ Many("read_end") \in Nat
      /\ Many("read_error") \in Nat
      /\ Many("fire_read") \in Nat
      /\ Many("close") \in Nat
      /\ Many("write_end") \in Nat
      /\ Kind = "connected" => Many("connected") >= 1
      /\ Kind = "read_ok" => Many("read_ok") >= 1
      /\ Kind = "read_end" => Many("read_end") >= 1
      /\ Kind = "fire_read" => Many("fire_read") >= 1
      /\ Kind = "close" => Many("close") >= 1
      /\ Kind = "write_end" => Many("write_end") >= 1
  BY HeadCounted
<1>q. /\ queue' \in ClientQueues /\ Kind' = Kind
      /\ Many("connected")' = Many("connected")
      /\ Many("read_ok")' = Many("read_ok")
      /\ Many("read_end")' = Many("read_end")
      /\ Many("read_error")' = Many("read_error")
      /\ Many("fire_read")' = Many("fire_read")
      /\ Many("close")' = Many("close")
      /\ Many("write_end")' = Many("write_end")
  <2>1. Kind' = Kind /\ \A op : Many(op)' = Many(op)
    BY <1>x, QueueLeft
  <2> QED
    BY <1>x, <2>1 DEF ClientTyped
<1>f. /\ Place' = "clear2" /\ pc'["acc"] = pc["acc"]
      /\ s'.reading = s.reading
      /\ s'.close_flag = s.close_flag
      /\ s'.work_read_count = s.work_read_count
      /\ s'.rbuf = s.rbuf
      /\ s'.notify = FALSE
      /\ s'.high_water = s.high_water
      /\ s.rbuf \in Nat /\ net.reads \in Nat /\ s.work_read_count \in Int
      /\ s.high_water \in Nat /\ frame \in Nat
      /\ frame' = frame /\ turn' = turn
      /\ env'.peer = env.peer
      /\ user_closed' = user_closed
  BY <1>e, <1>x DEF ClientTyped, ClientMembers, ClientSockets, Place
<1>1. ClientTyped'
  <2>1. s' \in ClientMembers
    <3>1. s \in ClientMembers
      BY DEF ClientTyped
    <3> QED
      BY <1>e, <1>x, <3>1 DEF ClientMembers
  <2>2. pc' \in [{"io", "acc"} -> Labels]
    BY <1>e, <1>x DEF ClientTyped, Labels
  <2>3. /\ net' \in ClientSockets /\ env' \in ClientOutside /\ life' \in ClientLives
        /\ queue' \in ClientQueues /\ in_handler' \in BOOLEAN
    BY <1>x, <1>q DEF ClientTyped
  <2> QED
    BY <1>x, <2>1, <2>2, <2>3 DEF ClientTyped
<1>2. ThreadPlaces' /\ UserPlaces'
  BY <1>e, <1>x, <1>n, <1>q, <1>f
  DEF ThreadPlaces, UserPlaces
<1>3. OneRight'
  BY <1>e, <1>x, <1>n, <1>q, <1>f
  DEF ThreadPlaces, OneRight, Waits, Handled, Starter, Resumed, Notifier, Attempt, If
<1>4. FlagClear'
  BY <1>e, <1>x, <1>n, <1>q, <1>f
  DEF ThreadPlaces, FlagClear, Waits, If
<1>5. CountTrue'
  BY <1>e, <1>x, <1>n, <1>q, <1>f
  DEF ThreadPlaces, CountTrue, Out, If
<1>6. NothingYet' /\ EndKnown'
  BY <1>e, <1>x, <1>n, <1>q, <1>f
  DEF ThreadPlaces, NothingYet, EndKnown, Connecting, Waits, If
<1>7. Over'
  BY <1>e, <1>x, <1>n, <1>q, <1>f
  DEF ThreadPlaces, Over, Silent, Connecting, CountTrue, Out, Waits, Starter, If
<1>8. ArmTrue' /\ ReadComing' /\ DecodeComing'
  BY <1>e, <1>x, <1>n, <1>q, <1>f
  DEF ThreadPlaces, ArmTrue, ReadComing, DecodeComing, Stays, FlagClear, EndKnown, Waits, If
<1> QED
  BY <1>1, <1>2, <1>3, <1>4, <1>5, <1>6, <1>7, <1>8

(* by two assignments.                                                     *)
LEMMA DisarmCounts2 ==
    ASSUME ClientInv, Fixed, Disarm, Place = "clear2"
    PROVE  ClientInv'
<1> USE ClientThreads DEF ClientInv
<1>e. /\ Place = "clear2"
  BY DEF ThreadPlaces, ClientTyped
<1>x. /\ s' = [s EXCEPT !.high_water = 0]
      /\ queue' = queue /\ pc' = [pc EXCEPT !["io"] = "user"] /\ in_handler' = in_handler
      /\ UNCHANGED <<net, env, life, frame, turn, user_closed>>
  BY DEF Disarm, Goto, Go, Fixed, Place
<1>n. /\ Many("connected") \in Nat
      /\ Many("read_ok") \in Nat
      /\ Many("read_end") \in Nat
      /\ Many("read_error") \in Nat
      /\ Many("fire_read") \in Nat
      /\ Many("close") \in Nat
      /\ Many("write_end") \in Nat
      /\ Kind = "connected" => Many("connected") >= 1
      /\ Kind = "read_ok" => Many("read_ok") >= 1
      /\ Kind = "read_end" => Many("read_end") >= 1
      /\ Kind = "fire_read" => Many("fire_read") >= 1
      /\ Kind = "close" => Many("close") >= 1
      /\ Kind = "write_end" => Many("write_end") >= 1
  BY HeadCounted
<1>q. /\ queue' \in ClientQueues /\ Kind' = Kind
      /\ Many("connected")' = Many("connected")
      /\ Many("read_ok")' = Many("read_ok")
      /\ Many("read_end")' = Many("read_end")
      /\ Many("read_error")' = Many("read_error")
      /\ Many("fire_read")' = Many("fire_read")
      /\ Many("close")' = Many("close")
      /\ Many("write_end")' = Many("write_end")
  <2>1. Kind' = Kind /\ \A op : Many(op)' = Many(op)
    BY <1>x, QueueLeft
  <2> QED
    BY <1>x, <2>1 DEF ClientTyped
<1>f. /\ Place' = "user" /\ pc'["acc"] = pc["acc"]
      /\ s'.reading = s.reading
      /\ s'.close_flag = s.close_flag
      /\ s'.work_read_count = s.work_read_count
      /\ s'.rbuf = s.rbuf
      /\ s'.notify = s.notify
      /\ s'.high_water = 0
      /\ s.rbuf \in Nat /\ net.reads \in Nat /\ s.work_read_count \in Int
      /\ s.high_water \in Nat /\ frame \in Nat
      /\ frame' = frame /\ turn' = turn
      /\ env'.peer = env.peer
      /\ user_closed' = user_closed
  BY <1>e, <1>x DEF ClientTyped, ClientMembers, ClientSockets, Place
<1>1. ClientTyped'
  <2>1. s' \in ClientMembers
    <3>1. s \in ClientMembers
      BY DEF ClientTyped
    <3> QED
      BY <1>e, <1>x, <3>1 DEF ClientMembers
  <2>2. pc' \in [{"io", "acc"} -> Labels]
    BY <1>e, <1>x DEF ClientTyped, Labels
  <2>3. /\ net' \in ClientSockets /\ env' \in ClientOutside /\ life' \in ClientLives
        /\ queue' \in ClientQueues /\ in_handler' \in BOOLEAN
    BY <1>x, <1>q DEF ClientTyped
  <2> QED
    BY <1>x, <2>1, <2>2, <2>3 DEF ClientTyped
<1>2. ThreadPlaces' /\ UserPlaces'
  BY <1>e, <1>x, <1>n, <1>q, <1>f
  DEF ThreadPlaces, UserPlaces
<1>3. OneRight'
  BY <1>e, <1>x, <1>n, <1>q, <1>f
  DEF ThreadPlaces, OneRight, Waits, Handled, Starter, Resumed, Notifier, Attempt, If
<1>4. FlagClear'
  BY <1>e, <1>x, <1>n, <1>q, <1>f
  DEF ThreadPlaces, FlagClear, Waits, If
<1>5. CountTrue'
  BY <1>e, <1>x, <1>n, <1>q, <1>f
  DEF ThreadPlaces, CountTrue, Out, If
<1>6. NothingYet' /\ EndKnown'
  BY <1>e, <1>x, <1>n, <1>q, <1>f
  DEF ThreadPlaces, NothingYet, EndKnown, Connecting, Waits, If
<1>7. Over'
  BY <1>e, <1>x, <1>n, <1>q, <1>f
  DEF ThreadPlaces, Over, Silent, Connecting, CountTrue, Out, Waits, Starter, If
<1>8. ArmTrue' /\ ReadComing' /\ DecodeComing'
  BY <1>e, <1>x, <1>n, <1>q, <1>f
  DEF ThreadPlaces, ArmTrue, ReadComing, DecodeComing, Stays, FlagClear, EndKnown, Waits, If
<1> QED
  BY <1>1, <1>2, <1>3, <1>4, <1>5, <1>6, <1>7, <1>8

(* What is written changes nothing of it,                                  *)
LEMMA AppendBytesCounts ==
    ASSUME ClientInv, Fixed, AppendBytes
    PROVE  ClientInv'
<1> USE ClientThreads DEF ClientInv
<1>e. /\ \/ Place = "user"
         \/ Place = "idle" /\ Kind = "append"
  BY DEF AppendBytes, Begins, Runs, Place, Kind, Line
<1>x. /\ s' = [s EXCEPT !.wbuf = @ + 1]
      /\ queue' = queue /\ pc' = [pc EXCEPT !["io"] = "pend"] /\ in_handler' = in_handler
      /\ env' = env \/ env' = [env EXCEPT !.written = @ + 1]
      /\ UNCHANGED <<net, life, frame, turn, user_closed>>
  BY DEF AppendBytes, Goto, Go, Fixed
<1>n. /\ Many("connected") \in Nat
      /\ Many("read_ok") \in Nat
      /\ Many("read_end") \in Nat
      /\ Many("read_error") \in Nat
      /\ Many("fire_read") \in Nat
      /\ Many("close") \in Nat
      /\ Many("write_end") \in Nat
      /\ Kind = "connected" => Many("connected") >= 1
      /\ Kind = "read_ok" => Many("read_ok") >= 1
      /\ Kind = "read_end" => Many("read_end") >= 1
      /\ Kind = "fire_read" => Many("fire_read") >= 1
      /\ Kind = "close" => Many("close") >= 1
      /\ Kind = "write_end" => Many("write_end") >= 1
  BY HeadCounted
<1>q. /\ queue' \in ClientQueues /\ Kind' = Kind
      /\ Many("connected")' = Many("connected")
      /\ Many("read_ok")' = Many("read_ok")
      /\ Many("read_end")' = Many("read_end")
      /\ Many("read_error")' = Many("read_error")
      /\ Many("fire_read")' = Many("fire_read")
      /\ Many("close")' = Many("close")
      /\ Many("write_end")' = Many("write_end")
  <2>1. Kind' = Kind /\ \A op : Many(op)' = Many(op)
    BY <1>x, QueueLeft
  <2> QED
    BY <1>x, <2>1 DEF ClientTyped
<1>f. /\ Place' = "pend" /\ pc'["acc"] = pc["acc"]
      /\ s'.reading = s.reading
      /\ s'.close_flag = s.close_flag
      /\ s'.work_read_count = s.work_read_count
      /\ s'.rbuf = s.rbuf
      /\ s'.notify = s.notify
      /\ s'.high_water = s.high_water
      /\ s.rbuf \in Nat /\ net.reads \in Nat /\ s.work_read_count \in Int
      /\ s.high_water \in Nat /\ frame \in Nat
      /\ frame' = frame /\ turn' = turn
      /\ env'.peer = env.peer
      /\ user_closed' = user_closed
  BY <1>e, <1>x DEF ClientTyped, ClientMembers, ClientOutside, ClientSockets, Place
<1>1. ClientTyped'
  <2>1. s' \in ClientMembers
    <3>1. s \in ClientMembers
      BY DEF ClientTyped
    <3> QED
      BY <1>e, <1>x, <3>1 DEF ClientMembers
  <2>2. pc' \in [{"io", "acc"} -> Labels]
    BY <1>e, <1>x DEF ClientTyped, Labels
  <2>3. /\ net' \in ClientSockets /\ env' \in ClientOutside /\ life' \in ClientLives
        /\ queue' \in ClientQueues /\ in_handler' \in BOOLEAN
    <3>1. env \in ClientOutside
      BY DEF ClientTyped
    <3>2. env' \in ClientOutside
      BY <1>x, <3>1 DEF ClientOutside
    <3> QED
      BY <1>x, <1>q, <3>2 DEF ClientTyped
  <2> QED
    BY <1>x, <2>1, <2>2, <2>3 DEF ClientTyped
<1>2. ThreadPlaces' /\ UserPlaces'
  BY <1>e, <1>x, <1>n, <1>q, <1>f
  DEF ThreadPlaces, UserPlaces
<1>3. OneRight'
  BY <1>e, <1>x, <1>n, <1>q, <1>f
  DEF ThreadPlaces, OneRight, Waits, Handled, Starter, Resumed, Notifier, Attempt, If
<1>4. FlagClear'
  BY <1>e, <1>x, <1>n, <1>q, <1>f
  DEF ThreadPlaces, FlagClear, Waits, If
<1>5. CountTrue'
  BY <1>e, <1>x, <1>n, <1>q, <1>f
  DEF ThreadPlaces, CountTrue, Out, If
<1>6. NothingYet' /\ EndKnown'
  BY <1>e, <1>x, <1>n, <1>q, <1>f
  DEF ThreadPlaces, NothingYet, EndKnown, Connecting, Waits, If
<1>7. Over'
  BY <1>e, <1>x, <1>n, <1>q, <1>f
  DEF ThreadPlaces, Over, Silent, Connecting, CountTrue, Out, Waits, Starter, If
<1>8. ArmTrue' /\ ReadComing' /\ DecodeComing'
  BY <1>e, <1>x, <1>n, <1>q, <1>f
  DEF ThreadPlaces, ArmTrue, ReadComing, DecodeComing, Stays, FlagClear, EndKnown, Waits, If
<1> QED
  BY <1>1, <1>2, <1>3, <1>4, <1>5, <1>6, <1>7, <1>8

(* nor does its length.                                                    *)
LEMMA PendCounts ==
    ASSUME ClientInv, Fixed, Pend
    PROVE  ClientInv'
<1> USE ClientThreads DEF ClientInv
<1>e. /\ Place = "pend"
  BY DEF Pend, Place
<1>x. /\ s' = [s EXCEPT !.pending = (@ + 1) % SizeMod]
      /\ queue' = queue /\ pc' = [pc EXCEPT !["io"] = "postWrite"] /\ in_handler' = in_handler
      /\ UNCHANGED <<net, env, life, frame, turn, user_closed>>
  BY DEF Pend, Goto, Go, Fixed
<1>n. /\ Many("connected") \in Nat
      /\ Many("read_ok") \in Nat
      /\ Many("read_end") \in Nat
      /\ Many("read_error") \in Nat
      /\ Many("fire_read") \in Nat
      /\ Many("close") \in Nat
      /\ Many("write_end") \in Nat
      /\ Kind = "connected" => Many("connected") >= 1
      /\ Kind = "read_ok" => Many("read_ok") >= 1
      /\ Kind = "read_end" => Many("read_end") >= 1
      /\ Kind = "fire_read" => Many("fire_read") >= 1
      /\ Kind = "close" => Many("close") >= 1
      /\ Kind = "write_end" => Many("write_end") >= 1
  BY HeadCounted
<1>q. /\ queue' \in ClientQueues /\ Kind' = Kind
      /\ Many("connected")' = Many("connected")
      /\ Many("read_ok")' = Many("read_ok")
      /\ Many("read_end")' = Many("read_end")
      /\ Many("read_error")' = Many("read_error")
      /\ Many("fire_read")' = Many("fire_read")
      /\ Many("close")' = Many("close")
      /\ Many("write_end")' = Many("write_end")
  <2>1. Kind' = Kind /\ \A op : Many(op)' = Many(op)
    BY <1>x, QueueLeft
  <2> QED
    BY <1>x, <2>1 DEF ClientTyped
<1>f. /\ Place' = "postWrite" /\ pc'["acc"] = pc["acc"]
      /\ s'.reading = s.reading
      /\ s'.close_flag = s.close_flag
      /\ s'.work_read_count = s.work_read_count
      /\ s'.rbuf = s.rbuf
      /\ s'.notify = s.notify
      /\ s'.high_water = s.high_water
      /\ s.rbuf \in Nat /\ net.reads \in Nat /\ s.work_read_count \in Int
      /\ s.high_water \in Nat /\ frame \in Nat
      /\ frame' = frame /\ turn' = turn
      /\ env'.peer = env.peer
      /\ user_closed' = user_closed
  BY <1>e, <1>x DEF ClientTyped, ClientMembers, ClientSockets, Place
<1>1. ClientTyped'
  <2>1. s' \in ClientMembers
    <3>1. PICK m \in Int : m = (s.pending + 1) % SizeMod
      BY DEF ClientTyped, ClientMembers
    <3>2. s' = [s EXCEPT !.pending = m] /\ s \in ClientMembers
      BY <1>x, <3>1 DEF ClientTyped
    <3> QED
      BY <3>2 DEF ClientMembers
  <2>2. pc' \in [{"io", "acc"} -> Labels]
    BY <1>e, <1>x DEF ClientTyped, Labels
  <2>3. /\ net' \in ClientSockets /\ env' \in ClientOutside /\ life' \in ClientLives
        /\ queue' \in ClientQueues /\ in_handler' \in BOOLEAN
    BY <1>x, <1>q DEF ClientTyped
  <2> QED
    BY <1>x, <2>1, <2>2, <2>3 DEF ClientTyped
<1>2. ThreadPlaces' /\ UserPlaces'
  BY <1>e, <1>x, <1>n, <1>q, <1>f
  DEF ThreadPlaces, UserPlaces
<1>3. OneRight'
  BY <1>e, <1>x, <1>n, <1>q, <1>f
  DEF ThreadPlaces, OneRight, Waits, Handled, Starter, Resumed, Notifier, Attempt, If
<1>4. FlagClear'
  BY <1>e, <1>x, <1>n, <1>q, <1>f
  DEF ThreadPlaces, FlagClear, Waits, If
<1>5. CountTrue'
  BY <1>e, <1>x, <1>n, <1>q, <1>f
  DEF ThreadPlaces, CountTrue, Out, If
<1>6. NothingYet' /\ EndKnown'
  BY <1>e, <1>x, <1>n, <1>q, <1>f
  DEF ThreadPlaces, NothingYet, EndKnown, Connecting, Waits, If
<1>7. Over'
  BY <1>e, <1>x, <1>n, <1>q, <1>f
  DEF ThreadPlaces, Over, Silent, Connecting, CountTrue, Out, Waits, Starter, If
<1>8. ArmTrue' /\ ReadComing' /\ DecodeComing'
  BY <1>e, <1>x, <1>n, <1>q, <1>f
  DEF ThreadPlaces, ArmTrue, ReadComing, DecodeComing, Stays, FlagClear, EndKnown, Waits, If
<1> QED
  BY <1>1, <1>2, <1>3, <1>4, <1>5, <1>6, <1>7, <1>8

(* A handler closes.                                                       *)
LEMMA CloseCounts ==
    ASSUME ClientInv, Fixed, Close
    PROVE  ClientInv'
<1> USE ClientThreads DEF ClientInv
<1>e. /\ Place = "user" /\ in_handler
  BY DEF Close, Place, ThreadPlaces
<1>x. /\ s' = [s EXCEPT !.close_flag = TRUE]
      /\ queue' = queue /\ pc' = [pc EXCEPT !["io"] = "cnFlag"] /\ in_handler' = in_handler
      /\ UNCHANGED <<net, env, life, frame, turn, user_closed>>
  BY DEF Close, Goto, Go, Fixed
<1>n. /\ Many("connected") \in Nat
      /\ Many("read_ok") \in Nat
      /\ Many("read_end") \in Nat
      /\ Many("read_error") \in Nat
      /\ Many("fire_read") \in Nat
      /\ Many("close") \in Nat
      /\ Many("write_end") \in Nat
      /\ Kind = "connected" => Many("connected") >= 1
      /\ Kind = "read_ok" => Many("read_ok") >= 1
      /\ Kind = "read_end" => Many("read_end") >= 1
      /\ Kind = "fire_read" => Many("fire_read") >= 1
      /\ Kind = "close" => Many("close") >= 1
      /\ Kind = "write_end" => Many("write_end") >= 1
  BY HeadCounted
<1>q. /\ queue' \in ClientQueues /\ Kind' = Kind
      /\ Many("connected")' = Many("connected")
      /\ Many("read_ok")' = Many("read_ok")
      /\ Many("read_end")' = Many("read_end")
      /\ Many("read_error")' = Many("read_error")
      /\ Many("fire_read")' = Many("fire_read")
      /\ Many("close")' = Many("close")
      /\ Many("write_end")' = Many("write_end")
  <2>1. Kind' = Kind /\ \A op : Many(op)' = Many(op)
    BY <1>x, QueueLeft
  <2> QED
    BY <1>x, <2>1 DEF ClientTyped
<1>f. /\ Place' = "cnFlag" /\ pc'["acc"] = pc["acc"]
      /\ s'.reading = s.reading
      /\ s'.close_flag = TRUE
      /\ s'.work_read_count = s.work_read_count
      /\ s'.rbuf = s.rbuf
      /\ s'.notify = s.notify
      /\ s'.high_water = s.high_water
      /\ s.rbuf \in Nat /\ net.reads \in Nat /\ s.work_read_count \in Int
      /\ s.high_water \in Nat /\ frame \in Nat
      /\ frame' = frame /\ turn' = turn
      /\ env'.peer = env.peer
      /\ user_closed' = user_closed
  BY <1>e, <1>x DEF ClientTyped, ClientMembers, ClientSockets, Place
<1>1. ClientTyped'
  <2>1. s' \in ClientMembers
    <3>1. s \in ClientMembers
      BY DEF ClientTyped
    <3> QED
      BY <1>e, <1>x, <3>1 DEF ClientMembers
  <2>2. pc' \in [{"io", "acc"} -> Labels]
    BY <1>e, <1>x DEF ClientTyped, Labels
  <2>3. /\ net' \in ClientSockets /\ env' \in ClientOutside /\ life' \in ClientLives
        /\ queue' \in ClientQueues /\ in_handler' \in BOOLEAN
    BY <1>x, <1>q DEF ClientTyped
  <2> QED
    BY <1>x, <2>1, <2>2, <2>3 DEF ClientTyped
<1>2. ThreadPlaces' /\ UserPlaces'
  BY <1>e, <1>x, <1>n, <1>q, <1>f
  DEF ThreadPlaces, UserPlaces
<1>3. OneRight'
  BY <1>e, <1>x, <1>n, <1>q, <1>f
  DEF ThreadPlaces, OneRight, Waits, Handled, Starter, Resumed, Notifier, Attempt, If
<1>4. FlagClear'
  BY <1>e, <1>x, <1>n, <1>q, <1>f
  DEF ThreadPlaces, FlagClear, Waits, If
<1>5. CountTrue'
  BY <1>e, <1>x, <1>n, <1>q, <1>f
  DEF ThreadPlaces, CountTrue, Out, If
<1>6. NothingYet' /\ EndKnown'
  BY <1>e, <1>x, <1>n, <1>q, <1>f
  DEF ThreadPlaces, NothingYet, EndKnown, Connecting, Waits, If
<1>7. Over'
  BY <1>e, <1>x, <1>n, <1>q, <1>f
  DEF ThreadPlaces, Over, Silent, Connecting, CountTrue, Out, Waits, Starter, If
<1>8. ArmTrue' /\ ReadComing' /\ DecodeComing'
  BY <1>e, <1>x, <1>n, <1>q, <1>f
  DEF ThreadPlaces, ArmTrue, ReadComing, DecodeComing, Stays, FlagClear, EndKnown, Waits, If
<1> QED
  BY <1>1, <1>2, <1>3, <1>4, <1>5, <1>6, <1>7, <1>8

(* It returns when it holds no whole frame, and when it dropped one.       *)
LEMMA FireReadReturnsCounts ==
    ASSUME ClientInv, Fixed, Returns, FireReadReturns
    PROVE  ClientInv'
<1> USE ClientThreads DEF ClientInv
<1>e. /\ Place = "user" /\ (turn = "dropped" \/ Stays)
  BY DEF FireReadReturns, Place, Returns, Looks, Short, Whole, HeaderIn, Stays, ClientTyped,
      ClientMembers
<1>x. /\ queue' = queue /\ pc' = [pc EXCEPT !["io"] = "endHandle"] /\ in_handler' = FALSE
      /\ UNCHANGED <<s, net, env, life, frame, turn, user_closed>>
  BY DEF FireReadReturns, Fixed
<1>n. /\ Many("connected") \in Nat
      /\ Many("read_ok") \in Nat
      /\ Many("read_end") \in Nat
      /\ Many("read_error") \in Nat
      /\ Many("fire_read") \in Nat
      /\ Many("close") \in Nat
      /\ Many("write_end") \in Nat
      /\ Kind = "connected" => Many("connected") >= 1
      /\ Kind = "read_ok" => Many("read_ok") >= 1
      /\ Kind = "read_end" => Many("read_end") >= 1
      /\ Kind = "fire_read" => Many("fire_read") >= 1
      /\ Kind = "close" => Many("close") >= 1
      /\ Kind = "write_end" => Many("write_end") >= 1
  BY HeadCounted
<1>q. /\ queue' \in ClientQueues /\ Kind' = Kind
      /\ Many("connected")' = Many("connected")
      /\ Many("read_ok")' = Many("read_ok")
      /\ Many("read_end")' = Many("read_end")
      /\ Many("read_error")' = Many("read_error")
      /\ Many("fire_read")' = Many("fire_read")
      /\ Many("close")' = Many("close")
      /\ Many("write_end")' = Many("write_end")
  <2>1. Kind' = Kind /\ \A op : Many(op)' = Many(op)
    BY <1>x, QueueLeft
  <2> QED
    BY <1>x, <2>1 DEF ClientTyped
<1>f. /\ Place' = "endHandle" /\ pc'["acc"] = pc["acc"]
      /\ s'.reading = s.reading
      /\ s'.close_flag = s.close_flag
      /\ s'.work_read_count = s.work_read_count
      /\ s'.rbuf = s.rbuf
      /\ s'.notify = s.notify
      /\ s'.high_water = s.high_water
      /\ s.rbuf \in Nat /\ net.reads \in Nat /\ s.work_read_count \in Int
      /\ s.high_water \in Nat /\ frame \in Nat
      /\ frame' = frame /\ turn' = turn
      /\ env'.peer = env.peer
      /\ user_closed' = user_closed
  BY <1>e, <1>x DEF ClientTyped, ClientMembers, ClientSockets, Place
<1>1. ClientTyped'
  <2>1. s' \in ClientMembers
    BY <1>x DEF ClientTyped
  <2>2. pc' \in [{"io", "acc"} -> Labels]
    BY <1>e, <1>x DEF ClientTyped, Labels
  <2>3. /\ net' \in ClientSockets /\ env' \in ClientOutside /\ life' \in ClientLives
        /\ queue' \in ClientQueues /\ in_handler' \in BOOLEAN
    BY <1>x, <1>q DEF ClientTyped
  <2> QED
    BY <1>x, <2>1, <2>2, <2>3 DEF ClientTyped
<1>2. ThreadPlaces' /\ UserPlaces'
  BY <1>e, <1>x, <1>n, <1>q, <1>f
  DEF ThreadPlaces, UserPlaces
<1>3. OneRight'
  BY <1>e, <1>x, <1>n, <1>q, <1>f
  DEF ThreadPlaces, OneRight, Waits, Handled, Starter, Resumed, Notifier, Attempt, If
<1>4. FlagClear'
  BY <1>e, <1>x, <1>n, <1>q, <1>f
  DEF ThreadPlaces, FlagClear, Waits, If
<1>5. CountTrue'
  BY <1>e, <1>x, <1>n, <1>q, <1>f
  DEF ThreadPlaces, CountTrue, Out, If
<1>6. NothingYet' /\ EndKnown'
  BY <1>e, <1>x, <1>n, <1>q, <1>f
  DEF ThreadPlaces, NothingYet, EndKnown, Connecting, Waits, If
<1>7. Over'
  BY <1>e, <1>x, <1>n, <1>q, <1>f
  DEF ThreadPlaces, Over, Silent, Connecting, CountTrue, Out, Waits, Starter, If
<1>8. ArmTrue' /\ ReadComing' /\ DecodeComing'
  BY <1>e, <1>x, <1>n, <1>q, <1>f
  DEF ThreadPlaces, ArmTrue, ReadComing, DecodeComing, Stays, FlagClear, EndKnown, Waits, If
<1> QED
  BY <1>1, <1>2, <1>3, <1>4, <1>5, <1>6, <1>7, <1>8

(* Behind the handlers handle_count_ is given back,                        *)
LEMMA EndTaskCounts1 ==
    ASSUME ClientInv, Fixed, EndTask, Place = "endHandle"
    PROVE  ClientInv'
<1> USE ClientThreads DEF ClientInv
<1>e. /\ Place = "endHandle" /\ in_handler = FALSE
  BY DEF ThreadPlaces, ClientTyped
<1>x. /\ s' = [s EXCEPT !.handle_count = @ - 1]
      /\ queue' = queue /\ pc' = [pc EXCEPT !["io"] = "endCount"] /\ in_handler' = in_handler
      /\ UNCHANGED <<net, env, life, frame, turn, user_closed>>
  BY DEF EndTask, HandlerCounted, Goto, Go, Fixed, Place
<1>n. /\ Many("connected") \in Nat
      /\ Many("read_ok") \in Nat
      /\ Many("read_end") \in Nat
      /\ Many("read_error") \in Nat
      /\ Many("fire_read") \in Nat
      /\ Many("close") \in Nat
      /\ Many("write_end") \in Nat
      /\ Kind = "connected" => Many("connected") >= 1
      /\ Kind = "read_ok" => Many("read_ok") >= 1
      /\ Kind = "read_end" => Many("read_end") >= 1
      /\ Kind = "fire_read" => Many("fire_read") >= 1
      /\ Kind = "close" => Many("close") >= 1
      /\ Kind = "write_end" => Many("write_end") >= 1
  BY HeadCounted
<1>q. /\ queue' \in ClientQueues /\ Kind' = Kind
      /\ Many("connected")' = Many("connected")
      /\ Many("read_ok")' = Many("read_ok")
      /\ Many("read_end")' = Many("read_end")
      /\ Many("read_error")' = Many("read_error")
      /\ Many("fire_read")' = Many("fire_read")
      /\ Many("close")' = Many("close")
      /\ Many("write_end")' = Many("write_end")
  <2>1. Kind' = Kind /\ \A op : Many(op)' = Many(op)
    BY <1>x, QueueLeft
  <2> QED
    BY <1>x, <2>1 DEF ClientTyped
<1>f. /\ Place' = "endCount" /\ pc'["acc"] = pc["acc"]
      /\ s'.reading = s.reading
      /\ s'.close_flag = s.close_flag
      /\ s'.work_read_count = s.work_read_count
      /\ s'.rbuf = s.rbuf
      /\ s'.notify = s.notify
      /\ s'.high_water = s.high_water
      /\ s.rbuf \in Nat /\ net.reads \in Nat /\ s.work_read_count \in Int
      /\ s.high_water \in Nat /\ frame \in Nat
      /\ frame' = frame /\ turn' = turn
      /\ env'.peer = env.peer
      /\ user_closed' = user_closed
  BY <1>e, <1>x DEF ClientTyped, ClientMembers, ClientSockets, Place
<1>1. ClientTyped'
  <2>1. s' \in ClientMembers
    <3>1. s \in ClientMembers
      BY DEF ClientTyped
    <3> QED
      BY <1>e, <1>x, <3>1 DEF ClientMembers
  <2>2. pc' \in [{"io", "acc"} -> Labels]
    BY <1>e, <1>x DEF ClientTyped, Labels
  <2>3. /\ net' \in ClientSockets /\ env' \in ClientOutside /\ life' \in ClientLives
        /\ queue' \in ClientQueues /\ in_handler' \in BOOLEAN
    BY <1>x, <1>q DEF ClientTyped
  <2> QED
    BY <1>x, <2>1, <2>2, <2>3 DEF ClientTyped
<1>2. ThreadPlaces' /\ UserPlaces'
  BY <1>e, <1>x, <1>n, <1>q, <1>f
  DEF ThreadPlaces, UserPlaces
<1>3. OneRight'
  BY <1>e, <1>x, <1>n, <1>q, <1>f
  DEF ThreadPlaces, OneRight, Waits, Handled, Starter, Resumed, Notifier, Attempt, If
<1>4. FlagClear'
  BY <1>e, <1>x, <1>n, <1>q, <1>f
  DEF ThreadPlaces, FlagClear, Waits, If
<1>5. CountTrue'
  BY <1>e, <1>x, <1>n, <1>q, <1>f
  DEF ThreadPlaces, CountTrue, Out, If
<1>6. NothingYet' /\ EndKnown'
  BY <1>e, <1>x, <1>n, <1>q, <1>f
  DEF ThreadPlaces, NothingYet, EndKnown, Connecting, Waits, If
<1>7. Over'
  BY <1>e, <1>x, <1>n, <1>q, <1>f
  DEF ThreadPlaces, Over, Silent, Connecting, CountTrue, Out, Waits, Starter, If
<1>8. ArmTrue' /\ ReadComing' /\ DecodeComing'
  BY <1>e, <1>x, <1>n, <1>q, <1>f
  DEF ThreadPlaces, ArmTrue, ReadComing, DecodeComing, Stays, FlagClear, EndKnown, Waits, If
<1> QED
  BY <1>1, <1>2, <1>3, <1>4, <1>5, <1>6, <1>7, <1>8

(* and they are counted no more.                                           *)
LEMMA EndTaskCounts2 ==
    ASSUME ClientInv, Fixed, EndTask, Place = "endCount"
    PROVE  ClientInv'
<1> USE ClientThreads DEF ClientInv
<1>e. /\ Place = "endCount" /\ in_handler = FALSE
  BY DEF ThreadPlaces, ClientTyped
<1>x. /\ s' = [s EXCEPT !.work_read_count = @ - 1]
      /\ queue' = queue /\ pc' = [pc EXCEPT !["io"] = "cnFlag"] /\ in_handler' = in_handler
      /\ UNCHANGED <<net, env, life, frame, turn, user_closed>>
  BY DEF EndTask, HandlerCounted, Goto, Go, Fixed, Place
<1>n. /\ Many("connected") \in Nat
      /\ Many("read_ok") \in Nat
      /\ Many("read_end") \in Nat
      /\ Many("read_error") \in Nat
      /\ Many("fire_read") \in Nat
      /\ Many("close") \in Nat
      /\ Many("write_end") \in Nat
      /\ Kind = "connected" => Many("connected") >= 1
      /\ Kind = "read_ok" => Many("read_ok") >= 1
      /\ Kind = "read_end" => Many("read_end") >= 1
      /\ Kind = "fire_read" => Many("fire_read") >= 1
      /\ Kind = "close" => Many("close") >= 1
      /\ Kind = "write_end" => Many("write_end") >= 1
  BY HeadCounted
<1>q. /\ queue' \in ClientQueues /\ Kind' = Kind
      /\ Many("connected")' = Many("connected")
      /\ Many("read_ok")' = Many("read_ok")
      /\ Many("read_end")' = Many("read_end")
      /\ Many("read_error")' = Many("read_error")
      /\ Many("fire_read")' = Many("fire_read")
      /\ Many("close")' = Many("close")
      /\ Many("write_end")' = Many("write_end")
  <2>1. Kind' = Kind /\ \A op : Many(op)' = Many(op)
    BY <1>x, QueueLeft
  <2> QED
    BY <1>x, <2>1 DEF ClientTyped
<1>f. /\ Place' = "cnFlag" /\ pc'["acc"] = pc["acc"]
      /\ s'.reading = s.reading
      /\ s'.close_flag = s.close_flag
      /\ s'.work_read_count = s.work_read_count - 1
      /\ s'.rbuf = s.rbuf
      /\ s'.notify = s.notify
      /\ s'.high_water = s.high_water
      /\ s.rbuf \in Nat /\ net.reads \in Nat /\ s.work_read_count \in Int
      /\ s.high_water \in Nat /\ frame \in Nat
      /\ frame' = frame /\ turn' = turn
      /\ env'.peer = env.peer
      /\ user_closed' = user_closed
  BY <1>e, <1>x DEF ClientTyped, ClientMembers, ClientSockets, Place
<1>1. ClientTyped'
  <2>1. s' \in ClientMembers
    <3>1. s \in ClientMembers
      BY DEF ClientTyped
    <3> QED
      BY <1>e, <1>x, <3>1 DEF ClientMembers
  <2>2. pc' \in [{"io", "acc"} -> Labels]
    BY <1>e, <1>x DEF ClientTyped, Labels
  <2>3. /\ net' \in ClientSockets /\ env' \in ClientOutside /\ life' \in ClientLives
        /\ queue' \in ClientQueues /\ in_handler' \in BOOLEAN
    BY <1>x, <1>q DEF ClientTyped
  <2> QED
    BY <1>x, <2>1, <2>2, <2>3 DEF ClientTyped
<1>2. ThreadPlaces' /\ UserPlaces'
  BY <1>e, <1>x, <1>n, <1>q, <1>f
  DEF ThreadPlaces, UserPlaces
<1>3. OneRight'
  BY <1>e, <1>x, <1>n, <1>q, <1>f
  DEF ThreadPlaces, OneRight, Waits, Handled, Starter, Resumed, Notifier, Attempt, If
<1>4. FlagClear'
  BY <1>e, <1>x, <1>n, <1>q, <1>f
  DEF ThreadPlaces, FlagClear, Waits, If
<1>5. CountTrue'
  BY <1>e, <1>x, <1>n, <1>q, <1>f
  DEF ThreadPlaces, CountTrue, Out, If
<1>6. NothingYet' /\ EndKnown'
  BY <1>e, <1>x, <1>n, <1>q, <1>f
  DEF ThreadPlaces, NothingYet, EndKnown, Connecting, Waits, If
<1>7. Over'
  BY <1>e, <1>x, <1>n, <1>q, <1>f
  DEF ThreadPlaces, Over, Silent, Connecting, CountTrue, Out, Waits, Starter, If
<1>8. ArmTrue' /\ ReadComing' /\ DecodeComing'
  BY <1>e, <1>x, <1>n, <1>q, <1>f
  DEF ThreadPlaces, ArmTrue, ReadComing, DecodeComing, Stays, FlagClear, EndKnown, Waits, If
<1> QED
  BY <1>1, <1>2, <1>3, <1>4, <1>5, <1>6, <1>7, <1>8

(* read() sets reading_,                                                   *)
LEMMA ReadSetCounts ==
    ASSUME ClientInv, Fixed, ReadSet("io")
    PROVE  ClientInv'
<1> USE ClientThreads DEF ClientInv
<1>e. /\ Place = "readSet"
  BY DEF ReadSet, Place
<1>x. /\ s' = [s EXCEPT !.reading = TRUE]
      /\ queue' = queue /\ pc' = [pc EXCEPT !["io"] = "readStart"] /\ in_handler' = in_handler
      /\ UNCHANGED <<net, env, life, frame, turn, user_closed>>
  BY DEF ReadSet, ReadFlagged, Goto, Go, Fixed
<1>n. /\ Many("connected") \in Nat
      /\ Many("read_ok") \in Nat
      /\ Many("read_end") \in Nat
      /\ Many("read_error") \in Nat
      /\ Many("fire_read") \in Nat
      /\ Many("close") \in Nat
      /\ Many("write_end") \in Nat
      /\ Kind = "connected" => Many("connected") >= 1
      /\ Kind = "read_ok" => Many("read_ok") >= 1
      /\ Kind = "read_end" => Many("read_end") >= 1
      /\ Kind = "fire_read" => Many("fire_read") >= 1
      /\ Kind = "close" => Many("close") >= 1
      /\ Kind = "write_end" => Many("write_end") >= 1
  BY HeadCounted
<1>q. /\ queue' \in ClientQueues /\ Kind' = Kind
      /\ Many("connected")' = Many("connected")
      /\ Many("read_ok")' = Many("read_ok")
      /\ Many("read_end")' = Many("read_end")
      /\ Many("read_error")' = Many("read_error")
      /\ Many("fire_read")' = Many("fire_read")
      /\ Many("close")' = Many("close")
      /\ Many("write_end")' = Many("write_end")
  <2>1. Kind' = Kind /\ \A op : Many(op)' = Many(op)
    BY <1>x, QueueLeft
  <2> QED
    BY <1>x, <2>1 DEF ClientTyped
<1>f. /\ Place' = "readStart" /\ pc'["acc"] = pc["acc"]
      /\ s'.reading = TRUE
      /\ s'.close_flag = s.close_flag
      /\ s'.work_read_count = s.work_read_count
      /\ s'.rbuf = s.rbuf
      /\ s'.notify = s.notify
      /\ s'.high_water = s.high_water
      /\ s.rbuf \in Nat /\ net.reads \in Nat /\ s.work_read_count \in Int
      /\ s.high_water \in Nat /\ frame \in Nat
      /\ frame' = frame /\ turn' = turn
      /\ env'.peer = env.peer
      /\ user_closed' = user_closed
  BY <1>e, <1>x DEF ClientTyped, ClientMembers, ClientSockets, Place
<1>1. ClientTyped'
  <2>1. s' \in ClientMembers
    <3>1. s \in ClientMembers
      BY DEF ClientTyped
    <3> QED
      BY <1>e, <1>x, <3>1 DEF ClientMembers
  <2>2. pc' \in [{"io", "acc"} -> Labels]
    BY <1>e, <1>x DEF ClientTyped, Labels
  <2>3. /\ net' \in ClientSockets /\ env' \in ClientOutside /\ life' \in ClientLives
        /\ queue' \in ClientQueues /\ in_handler' \in BOOLEAN
    BY <1>x, <1>q DEF ClientTyped
  <2> QED
    BY <1>x, <2>1, <2>2, <2>3 DEF ClientTyped
<1>2. ThreadPlaces' /\ UserPlaces'
  BY <1>e, <1>x, <1>n, <1>q, <1>f
  DEF ThreadPlaces, UserPlaces
<1>3. OneRight'
  BY <1>e, <1>x, <1>n, <1>q, <1>f
  DEF ThreadPlaces, OneRight, Waits, Handled, Starter, Resumed, Notifier, Attempt, If
<1>4. FlagClear'
  BY <1>e, <1>x, <1>n, <1>q, <1>f
  DEF ThreadPlaces, FlagClear, Waits, If
<1>5. CountTrue'
  BY <1>e, <1>x, <1>n, <1>q, <1>f
  DEF ThreadPlaces, CountTrue, Out, If
<1>6. NothingYet' /\ EndKnown'
  BY <1>e, <1>x, <1>n, <1>q, <1>f
  DEF ThreadPlaces, NothingYet, EndKnown, Connecting, Waits, If
<1>7. Over'
  BY <1>e, <1>x, <1>n, <1>q, <1>f
  DEF ThreadPlaces, Over, Silent, Connecting, CountTrue, Out, Waits, Starter, If
<1>8. ArmTrue' /\ ReadComing' /\ DecodeComing'
  BY <1>e, <1>x, <1>n, <1>q, <1>f
  DEF ThreadPlaces, ArmTrue, ReadComing, DecodeComing, Stays, FlagClear, EndKnown, Waits, If
<1> QED
  BY <1>1, <1>2, <1>3, <1>4, <1>5, <1>6, <1>7, <1>8

(* The end of the stream closes, behind a write that is under way          *)
LEMMA HandleReadEndWaits ==
    ASSUME ClientInv, Fixed, HandleReadEnd, s.writing
    PROVE  ClientInv'
<1> USE ClientThreads DEF ClientInv
<1>e. /\ Place = "idle" /\ Kind = "read_end" /\ in_handler = FALSE
  BY DEF HandleReadEnd, Begins, Runs, Place, Kind, Line, ThreadPlaces, ClientTyped
<1>x. /\ s' = [s EXCEPT !.handle_count = @ + 1, !.reading = FALSE, !.close_flag = TRUE]
      /\ queue' = Pop(queue, "io")
      /\ pc' = [pc EXCEPT !["io"] = "idle"] /\ in_handler' = in_handler
      /\ UNCHANGED <<net, env, life, frame, turn, user_closed>>
  BY DEF HandleReadEnd, Finish, Go, Fixed
<1>n. /\ Many("connected") \in Nat
      /\ Many("read_ok") \in Nat
      /\ Many("read_end") \in Nat
      /\ Many("read_error") \in Nat
      /\ Many("fire_read") \in Nat
      /\ Many("close") \in Nat
      /\ Many("write_end") \in Nat
      /\ Kind = "connected" => Many("connected") >= 1
      /\ Kind = "read_ok" => Many("read_ok") >= 1
      /\ Kind = "read_end" => Many("read_end") >= 1
      /\ Kind = "fire_read" => Many("fire_read") >= 1
      /\ Kind = "close" => Many("close") >= 1
      /\ Kind = "write_end" => Many("write_end") >= 1
  BY HeadCounted
<1>q. /\ queue' \in ClientQueues
      /\ Many("connected")' = Many("connected") - If(Kind = "connected")
      /\ Many("read_ok")' = Many("read_ok") - If(Kind = "read_ok")
      /\ Many("read_end")' = Many("read_end") - If(Kind = "read_end")
      /\ Many("read_error")' = Many("read_error") - If(Kind = "read_error")
      /\ Many("fire_read")' = Many("fire_read") - If(Kind = "fire_read")
      /\ Many("close")' = Many("close") - If(Kind = "close")
      /\ Many("write_end")' = Many("write_end") - If(Kind = "write_end")
  <2>1. queue' \in ClientQueues /\ \A op : Many(op)' = Many(op) - If(Kind = op)
    BY <1>e, <1>x, Popped
  <2> QED
    BY <1>e, <1>n, <2>1 DEF If
<1>f. /\ Place' = "idle" /\ pc'["acc"] = pc["acc"]
      /\ s'.reading = FALSE
      /\ s'.close_flag = TRUE
      /\ s'.work_read_count = s.work_read_count
      /\ s'.rbuf = s.rbuf
      /\ s'.notify = s.notify
      /\ s'.high_water = s.high_water
      /\ s.rbuf \in Nat /\ net.reads \in Nat /\ s.work_read_count \in Int
      /\ s.high_water \in Nat /\ frame \in Nat
      /\ frame' = frame /\ turn' = turn
      /\ env'.peer = env.peer
      /\ user_closed' = user_closed
  BY <1>e, <1>x DEF ClientTyped, ClientMembers, ClientSockets, Place
<1>g. /\ env.peer # "none" /\ Many("connected") = 0 /\ net.reads = 0 /\ Many("read_ok") = 0
      /\ Many("read_error") = 0 /\ Many("read_end") = 1 /\ s.high_water = 0
  <2>1. Waits("read_end") = Many("read_end") /\ Handled = 0
    BY <1>e, <1>n DEF Waits, Handled, If
  <2>2. /\ ~Connecting /\ Waits("connected") = 0 /\ net.reads = 0 /\ Waits("read_ok") = 0
        /\ Many("read_error") = 0 /\ Notifier = 0 /\ Handled + Waits("read_end") = 1
    BY <1>e, <1>n, <2>1, Handling
  <2> QED
    BY <1>e, <1>n, <2>1, <2>2 DEF Connecting, Waits, Notifier, Resumed, If
<1>1. ClientTyped'
  <2>1. s' \in ClientMembers
    <3>1. s \in ClientMembers
      BY DEF ClientTyped
    <3>2. PICK h \in Int : h = s.handle_count + 1
      BY <3>1 DEF ClientMembers
    <3>3. s' = [s EXCEPT !.handle_count = h, !.reading = FALSE, !.close_flag = TRUE]
      BY <1>x, <3>2
    <3> QED
      BY <3>1, <3>3 DEF ClientMembers
  <2>2. pc' \in [{"io", "acc"} -> Labels]
    BY <1>e, <1>x DEF ClientTyped, Labels
  <2>3. /\ net' \in ClientSockets /\ env' \in ClientOutside /\ life' \in ClientLives
        /\ queue' \in ClientQueues /\ in_handler' \in BOOLEAN
    BY <1>x, <1>q DEF ClientTyped
  <2> QED
    BY <1>x, <2>1, <2>2, <2>3 DEF ClientTyped
<1>2. ThreadPlaces' /\ UserPlaces'
  BY <1>e, <1>x, <1>n, <1>q, <1>f
  DEF ThreadPlaces, UserPlaces
<1>3. OneRight'
  BY <1>e, <1>x, <1>n, <1>q, <1>f
  DEF ThreadPlaces, OneRight, Waits, Handled, Starter, Resumed, Notifier, Attempt, If
<1>4. FlagClear'
  BY <1>e, <1>x, <1>n, <1>q, <1>f, <1>g
  DEF FlagClear, Waits, If
<1>5. CountTrue'
  BY <1>e, <1>x, <1>n, <1>q, <1>f
  DEF ThreadPlaces, CountTrue, Out, If
<1>6. NothingYet' /\ EndKnown'
  <2>1. ~Connecting'
    <3>1. Many("connected")' = 0
      BY <1>e, <1>q, <1>g DEF If
    <3> QED
      BY <1>e, <1>q, <1>f, <1>g, <3>1 DEF Connecting, Waits, If
  <2>2. NothingYet'
    BY <2>1 DEF NothingYet
  <2>3. EndKnown'
    BY <1>e, <1>f DEF EndKnown
  <2> QED
    BY <2>2, <2>3
<1>7. Over'
  BY <1>e, <1>x, <1>n, <1>q, <1>f
  DEF ThreadPlaces, Over, Silent, Connecting, CountTrue, Out, Waits, Starter, If
<1>8. ArmTrue' /\ ReadComing' /\ DecodeComing'
  BY <1>e, <1>x, <1>n, <1>q, <1>f
  DEF ThreadPlaces, ArmTrue, ReadComing, DecodeComing, Stays, FlagClear, EndKnown, Waits, If
<1> QED
  BY <1>1, <1>2, <1>3, <1>4, <1>5, <1>6, <1>7, <1>8

(* or at once.                                                             *)
LEMMA HandleReadEndCloses ==
    ASSUME ClientInv, Fixed, HandleReadEnd, ~s.writing
    PROVE  ClientInv'
<1> USE ClientThreads DEF ClientInv
<1>e. /\ Place = "idle" /\ Kind = "read_end" /\ in_handler = FALSE
  BY DEF HandleReadEnd, Begins, Runs, Place, Kind, Line, ThreadPlaces, ClientTyped
<1>x. /\ s' = [s EXCEPT !.handle_count = @ + 1, !.reading = FALSE, !.close_flag = TRUE]
      /\ queue' = Aborted(queue)
      /\ pc' = [pc EXCEPT !["io"] = "countTest"] /\ in_handler' = in_handler
      /\ net' = [net EXCEPT !.sock = "closed", !.reads = 0, !.writes = <<>>]
      /\ UNCHANGED <<env, life, frame, turn, user_closed>>
  BY DEF HandleReadEnd, CloseAndGo, SocketClose, Go, Fixed
<1>n. /\ Many("connected") \in Nat
      /\ Many("read_ok") \in Nat
      /\ Many("read_end") \in Nat
      /\ Many("read_error") \in Nat
      /\ Many("fire_read") \in Nat
      /\ Many("close") \in Nat
      /\ Many("write_end") \in Nat
      /\ Kind = "connected" => Many("connected") >= 1
      /\ Kind = "read_ok" => Many("read_ok") >= 1
      /\ Kind = "read_end" => Many("read_end") >= 1
      /\ Kind = "fire_read" => Many("fire_read") >= 1
      /\ Kind = "close" => Many("close") >= 1
      /\ Kind = "write_end" => Many("write_end") >= 1
  BY HeadCounted
<1>q. /\ queue' \in ClientQueues /\ Kind' = Kind
      /\ Many("connected")' = Many("connected")
      /\ Many("read_ok")' = Many("read_ok")
      /\ Many("read_end")' = Many("read_end") + net.reads
      /\ Many("read_error")' = Many("read_error")
      /\ Many("fire_read")' = Many("fire_read")
      /\ Many("close")' = Many("close")
      /\ Many("write_end")' = Many("write_end") + Len(net.writes)
      /\ net.reads \in Nat /\ Len(net.writes) \in Nat
  <2>1. /\ queue' \in ClientQueues /\ (Kind # "none" => Kind' = Kind)
        /\ \A op : Many(op)' = Many(op) + Ended(op)
    BY <1>e, <1>x, AbortedLeft
  <2>2. net.reads \in Nat /\ Len(net.writes) \in Nat
    BY Outstanding
  <2>3. /\ Ended("connected") = 0 /\ Ended("read_ok") = 0 /\ Ended("read_end") = net.reads
        /\ Ended("read_error") = 0 /\ Ended("fire_read") = 0 /\ Ended("close") = 0
        /\ Ended("write_end") = Len(net.writes)
    BY DEF Ended
  <2>4. /\ queue' \in ClientQueues /\ (Kind # "none" => Kind' = Kind)
        /\ Many("connected")' = Many("connected") + Ended("connected")
        /\ Many("read_ok")' = Many("read_ok") + Ended("read_ok")
        /\ Many("read_end")' = Many("read_end") + Ended("read_end")
        /\ Many("read_error")' = Many("read_error") + Ended("read_error")
        /\ Many("fire_read")' = Many("fire_read") + Ended("fire_read")
        /\ Many("close")' = Many("close") + Ended("close")
        /\ Many("write_end")' = Many("write_end") + Ended("write_end")
    BY <2>1
  <2> QED
    BY <1>e, <1>n, <2>2, <2>3, <2>4 DEF If
<1>f. /\ Place' = "countTest" /\ pc'["acc"] = pc["acc"]
      /\ s'.reading = FALSE
      /\ s'.close_flag = TRUE
      /\ s'.work_read_count = s.work_read_count
      /\ s'.rbuf = s.rbuf
      /\ s'.notify = s.notify
      /\ s'.high_water = s.high_water
      /\ s.rbuf \in Nat /\ net.reads \in Nat /\ s.work_read_count \in Int
      /\ s.high_water \in Nat /\ frame \in Nat
      /\ frame' = frame /\ turn' = turn
      /\ net'.reads = 0
      /\ env'.peer = env.peer
      /\ user_closed' = user_closed
  BY <1>e, <1>x DEF ClientTyped, ClientMembers, ClientSockets, Place
<1>g. /\ env.peer # "none" /\ Many("connected") = 0 /\ net.reads = 0 /\ Many("read_ok") = 0
      /\ Many("read_error") = 0 /\ Many("read_end") = 1 /\ s.high_water = 0
  <2>1. Waits("read_end") = Many("read_end") /\ Handled = 0
    BY <1>e, <1>n DEF Waits, Handled, If
  <2>2. /\ ~Connecting /\ Waits("connected") = 0 /\ net.reads = 0 /\ Waits("read_ok") = 0
        /\ Many("read_error") = 0 /\ Notifier = 0 /\ Handled + Waits("read_end") = 1
    BY <1>e, <1>n, <2>1, Handling
  <2> QED
    BY <1>e, <1>n, <2>1, <2>2 DEF Connecting, Waits, Notifier, Resumed, If
<1>1. ClientTyped'
  <2>1. s' \in ClientMembers
    <3>1. s \in ClientMembers
      BY DEF ClientTyped
    <3>2. PICK h \in Int : h = s.handle_count + 1
      BY <3>1 DEF ClientMembers
    <3>3. s' = [s EXCEPT !.handle_count = h, !.reading = FALSE, !.close_flag = TRUE]
      BY <1>x, <3>2
    <3> QED
      BY <3>1, <3>3 DEF ClientMembers
  <2>2. pc' \in [{"io", "acc"} -> Labels]
    BY <1>e, <1>x DEF ClientTyped, Labels
  <2>3. /\ net' \in ClientSockets /\ env' \in ClientOutside /\ life' \in ClientLives
        /\ queue' \in ClientQueues /\ in_handler' \in BOOLEAN
    <3>1. net \in ClientSockets /\ <<>> \in Seq(Int)
      BY DEF ClientTyped
    <3>2. net' \in ClientSockets
      BY <1>x, <3>1 DEF ClientSockets
    <3> QED
      BY <1>x, <1>q, <3>2 DEF ClientTyped
  <2> QED
    BY <1>x, <2>1, <2>2, <2>3 DEF ClientTyped
<1>2. ThreadPlaces' /\ UserPlaces'
  BY <1>e, <1>x, <1>n, <1>q, <1>f
  DEF ThreadPlaces, UserPlaces
<1>3. OneRight'
  <2>1. /\ Attempt' = Attempt
        /\ Starter' = 0
        /\ net'.reads = 0
        /\ Handled' = 0
        /\ Many("read_error")' = Many("read_error")
        /\ Notifier' = Notifier
    <3>1. Attempt' = Attempt
      BY <1>f DEF Attempt, If
    <3>2. Notifier' = Notifier
      BY <1>e, <1>q, <1>f, <1>g
      DEF Resumed, Notifier, If
    <3>3. Starter' = 0 /\ Handled' = 0
      BY <1>f
      DEF Starter, Handled, If
    <3> QED
      BY <1>e, <1>q, <1>f, <1>g, <3>1, <3>2, <3>3
  <2>2. /\ Waits("connected")' = Waits("connected")
        /\ Waits("read_ok")' = Waits("read_ok")
        /\ Waits("read_end")' = 0
    BY <1>e, <1>n, <1>q, <1>f, <1>g
    DEF Waits, If
  <2>3. OneRight
    BY DEF ClientInv
  <2> QED
    BY <2>1, <2>2, <2>3, Rights DEF OneRight
<1>4. FlagClear'
  BY <1>e, <1>x, <1>n, <1>q, <1>f, <1>g
  DEF FlagClear, Waits, If
<1>5. CountTrue'
  BY <1>e, <1>x, <1>n, <1>q, <1>f
  DEF ThreadPlaces, CountTrue, Out, If
<1>6. NothingYet' /\ EndKnown'
  <2>1. ~Connecting'
    <3>1. Many("connected")' = 0
      BY <1>e, <1>q, <1>g DEF If
    <3> QED
      BY <1>e, <1>q, <1>f, <1>g, <3>1 DEF Connecting, Waits, If
  <2>2. NothingYet'
    BY <2>1 DEF NothingYet
  <2>3. EndKnown'
    BY <1>e, <1>f DEF EndKnown
  <2> QED
    BY <2>2, <2>3
<1>7. Over'
  BY <1>e, <1>x, <1>n, <1>q, <1>f, <1>g, SMTT(40)
  DEF ThreadPlaces, Over, Silent, Connecting, NothingYet, CountTrue, Out, Waits, Starter, If
<1>8. ArmTrue' /\ ReadComing' /\ DecodeComing'
  BY <1>e, <1>x, <1>n, <1>q, <1>f
  DEF ThreadPlaces, ArmTrue, ReadComing, DecodeComing, Stays, FlagClear, EndKnown, Waits, If
<1> QED
  BY <1>1, <1>2, <1>3, <1>4, <1>5, <1>6, <1>7, <1>8

(* The socket is closed behind the last read or the last write.            *)
LEMMA ClosesCounts ==
    ASSUME ClientInv, Fixed, UNCHANGED <<s, env, life>>, CloseAndGo("countTest"), s.close_flag,
           \/ Place = "closeTest"
           \/ Place = "readingTest" /\ ~s.reading
    PROVE  ClientInv'
<1> USE ClientThreads DEF ClientInv
<1>e. /\ \/ Place = "closeTest" /\ Kind = "read_ok"
         \/ Place = "readingTest" /\ s.reading = FALSE /\ Kind \in {"write_ok", "write_end"}
      /\ s.close_flag = TRUE /\ in_handler = FALSE
  BY DEF ThreadPlaces, ClientTyped, ClientMembers
<1>x. /\ queue' = Aborted(queue)
      /\ pc' = [pc EXCEPT !["io"] = "countTest"] /\ in_handler' = in_handler
      /\ net' = [net EXCEPT !.sock = "closed", !.reads = 0, !.writes = <<>>]
      /\ UNCHANGED <<s, env, life, frame, turn, user_closed>>
  BY DEF CloseAndGo, SocketClose, Go, Fixed
<1>n. /\ Many("connected") \in Nat
      /\ Many("read_ok") \in Nat
      /\ Many("read_end") \in Nat
      /\ Many("read_error") \in Nat
      /\ Many("fire_read") \in Nat
      /\ Many("close") \in Nat
      /\ Many("write_end") \in Nat
      /\ Kind = "connected" => Many("connected") >= 1
      /\ Kind = "read_ok" => Many("read_ok") >= 1
      /\ Kind = "read_end" => Many("read_end") >= 1
      /\ Kind = "fire_read" => Many("fire_read") >= 1
      /\ Kind = "close" => Many("close") >= 1
      /\ Kind = "write_end" => Many("write_end") >= 1
  BY HeadCounted
<1>q. /\ queue' \in ClientQueues /\ Kind' = Kind
      /\ Many("connected")' = Many("connected")
      /\ Many("read_ok")' = Many("read_ok")
      /\ Many("read_end")' = Many("read_end") + net.reads
      /\ Many("read_error")' = Many("read_error")
      /\ Many("fire_read")' = Many("fire_read")
      /\ Many("close")' = Many("close")
      /\ Many("write_end")' = Many("write_end") + Len(net.writes)
      /\ net.reads \in Nat /\ Len(net.writes) \in Nat
  <2>1. /\ queue' \in ClientQueues /\ (Kind # "none" => Kind' = Kind)
        /\ \A op : Many(op)' = Many(op) + Ended(op)
    BY <1>e, <1>x, AbortedLeft
  <2>2. net.reads \in Nat /\ Len(net.writes) \in Nat
    BY Outstanding
  <2>3. /\ Ended("connected") = 0 /\ Ended("read_ok") = 0 /\ Ended("read_end") = net.reads
        /\ Ended("read_error") = 0 /\ Ended("fire_read") = 0 /\ Ended("close") = 0
        /\ Ended("write_end") = Len(net.writes)
    BY DEF Ended
  <2>4. /\ queue' \in ClientQueues /\ (Kind # "none" => Kind' = Kind)
        /\ Many("connected")' = Many("connected") + Ended("connected")
        /\ Many("read_ok")' = Many("read_ok") + Ended("read_ok")
        /\ Many("read_end")' = Many("read_end") + Ended("read_end")
        /\ Many("read_error")' = Many("read_error") + Ended("read_error")
        /\ Many("fire_read")' = Many("fire_read") + Ended("fire_read")
        /\ Many("close")' = Many("close") + Ended("close")
        /\ Many("write_end")' = Many("write_end") + Ended("write_end")
    BY <2>1
  <2> QED
    BY <1>e, <1>n, <2>2, <2>3, <2>4 DEF If
<1>f. /\ Place' = "countTest" /\ pc'["acc"] = pc["acc"]
      /\ s'.reading = s.reading
      /\ s'.close_flag = s.close_flag
      /\ s'.work_read_count = s.work_read_count
      /\ s'.rbuf = s.rbuf
      /\ s'.notify = s.notify
      /\ s'.high_water = s.high_water
      /\ s.rbuf \in Nat /\ net.reads \in Nat /\ s.work_read_count \in Int
      /\ s.high_water \in Nat /\ frame \in Nat
      /\ frame' = frame /\ turn' = turn
      /\ net'.reads = 0
      /\ env'.peer = env.peer
      /\ user_closed' = user_closed
  BY <1>e, <1>x DEF ClientTyped, ClientMembers, ClientSockets, Place
<1>g. /\ net.reads = 0 /\ Waits("read_ok") = 0 /\ Starter = 0
      /\ Many("read_end") = 0 /\ Many("read_error") = 0 /\ (~user_closed => ~Connecting)
  <2>1. CASE Place = "closeTest"
    <3>1. Handled = 1 /\ Waits("read_end") = Many("read_end")
      BY <1>e, <1>n, <2>1 DEF Handled, Waits, If
    <3> QED
      BY <1>n, <3>1, Handling
  <2>2. CASE Place = "readingTest"
    <3>1. /\ net.reads = 0 /\ Waits("read_ok") = 0 /\ Waits("read_end") = 0
          /\ Many("read_error") = 0
          /\ (~user_closed => ~Connecting)
      BY <1>e, <2>2 DEF FlagClear, NothingYet
    <3> QED
      BY <1>e, <1>n, <2>2, <3>1 DEF Waits, Starter, If
  <2> QED
    BY <1>e, <2>1, <2>2
<1>1. ClientTyped'
  <2>1. s' \in ClientMembers
    BY <1>x DEF ClientTyped
  <2>2. pc' \in [{"io", "acc"} -> Labels]
    BY <1>e, <1>x DEF ClientTyped, Labels
  <2>3. /\ net' \in ClientSockets /\ env' \in ClientOutside /\ life' \in ClientLives
        /\ queue' \in ClientQueues /\ in_handler' \in BOOLEAN
    <3>1. net \in ClientSockets /\ <<>> \in Seq(Int)
      BY DEF ClientTyped
    <3>2. net' \in ClientSockets
      BY <1>x, <3>1 DEF ClientSockets
    <3> QED
      BY <1>x, <1>q, <3>2 DEF ClientTyped
  <2> QED
    BY <1>x, <2>1, <2>2, <2>3 DEF ClientTyped
<1>2. ThreadPlaces' /\ UserPlaces'
  BY <1>e, <1>x, <1>n, <1>q, <1>f, SMTT(40)
  DEF ThreadPlaces, UserPlaces
<1>3. OneRight'
  <2>1. /\ Attempt' = Attempt
        /\ Starter' = 0
        /\ net'.reads = 0
        /\ Handled' = 0
        /\ Many("read_error")' = Many("read_error")
        /\ Notifier' = Notifier
    <3>1. CASE Place = "closeTest"
      BY <1>e, <1>q, <1>f, <1>g, <3>1
      DEF Starter, Handled, Resumed, Notifier, Attempt, If
    <3>2. CASE Place = "readingTest"
      BY <1>e, <1>q, <1>f, <1>g, <3>2
      DEF Starter, Handled, Resumed, Notifier, Attempt, If
    <3> QED
      BY <1>e, <3>1, <3>2
  <2>2. /\ Waits("connected")' = Waits("connected")
        /\ Waits("read_ok")' = Waits("read_ok")
        /\ Waits("read_end")' = 0
    <3>1. CASE Place = "closeTest"
      BY <1>e, <1>n, <1>q, <1>f, <1>g, <3>1
      DEF Waits, If
    <3>2. CASE Place = "readingTest"
      BY <1>e, <1>n, <1>q, <1>f, <1>g, <3>2
      DEF Waits, If
    <3> QED
      BY <1>e, <3>1, <3>2
  <2>3. OneRight
    BY DEF ClientInv
  <2> QED
    BY <2>1, <2>2, <2>3, Rights DEF OneRight
<1>4. FlagClear'
  <2>1. CASE Place = "closeTest"
    BY <1>e, <1>x, <1>n, <1>q, <1>f, <1>g, <2>1 DEF FlagClear, Waits, If
  <2>2. CASE Place = "readingTest"
    <3>1. Kind # "read_ok" /\ Kind # "read_end" /\ Many("read_ok") = 0
      BY <1>e, <1>g, <1>n, <2>2 DEF Waits, If
    <3>2. Waits("read_ok")' = 0 /\ Waits("read_end")' = 0 /\ Many("read_error")' = 0
      BY <1>g, <1>q, <3>1 DEF Waits, If
    <3> QED
      BY <1>f, <3>2 DEF FlagClear
  <2> QED
    BY <1>e, <2>1, <2>2
<1>5. CountTrue'
  BY <1>e, <1>x, <1>n, <1>q, <1>f
  DEF ThreadPlaces, CountTrue, Out, If
<1>6. NothingYet' /\ EndKnown'
  <2>1. Connecting' = Connecting
    BY <1>e, <1>n, <1>q, <1>f DEF Connecting, Waits, If
  <2>2. NothingYet'
    BY <1>e, <1>q, <1>f, <1>g, <2>1 DEF NothingYet
  <2>3. EndKnown'
    BY <1>e, <1>f DEF EndKnown
  <2> QED
    BY <2>2, <2>3
<1>7. Over'
  <2>1. Connecting' = Connecting
    BY <1>e, <1>n, <1>q, <1>f DEF Connecting, Waits, If
  <2>2. Starter' = 0 /\ Waits("read_ok")' = 0
    BY <1>e, <1>n, <1>q, <1>f, <1>g DEF Starter, Waits, If
  <2>3. ~user_closed => Silent'
    BY <1>q, <1>f, <1>g, <2>1, <2>2 DEF Silent
  <2>4. Many("close") > 0 \/ life.fired > 0 => s.work_read_count = 0 \/ user_closed
    BY DEF Over
  <2>5. Many("close")' = Many("close") /\ life' = life
    BY <1>x, <1>q
  <2> QED
    BY <1>f, <2>3, <2>4, <2>5 DEF Over
<1>8. ArmTrue' /\ ReadComing' /\ DecodeComing'
  BY <1>e, <1>x, <1>n, <1>q, <1>f
  DEF ThreadPlaces, ArmTrue, ReadComing, DecodeComing, Stays, FlagClear, EndKnown, Waits, If
<1> QED
  BY <1>1, <1>2, <1>3, <1>4, <1>5, <1>6, <1>7, <1>8

(* The posted close closes it, and tells the handlers.                     *)
LEMMA CloseLambdaCounts ==
    ASSUME ClientInv, Fixed, CloseLambda, ~Crash("throw")
    PROVE  ClientInv'
<1> USE ClientThreads DEF ClientInv
<1>e. /\ Place = "idle" /\ Kind = "close" /\ in_handler = FALSE
  BY DEF CloseLambda, Begins, Runs, Place, Kind, Line, ThreadPlaces, ClientTyped
<1>x. /\ queue' = Aborted(queue)
      /\ pc' = [pc EXCEPT !["io"] = "remove"] /\ in_handler' = in_handler
      /\ net' = [net EXCEPT !.sock = "closed", !.reads = 0, !.writes = <<>>]
      /\ life' = [life EXCEPT !.fired = @ + 1]
      /\ UNCHANGED <<s, env, frame, turn, user_closed>>
  BY DEF CloseLambda, CloseAndGo, SocketClose, FireClosed, Go, Fixed
<1>n. /\ Many("connected") \in Nat
      /\ Many("read_ok") \in Nat
      /\ Many("read_end") \in Nat
      /\ Many("read_error") \in Nat
      /\ Many("fire_read") \in Nat
      /\ Many("close") \in Nat
      /\ Many("write_end") \in Nat
      /\ Kind = "connected" => Many("connected") >= 1
      /\ Kind = "read_ok" => Many("read_ok") >= 1
      /\ Kind = "read_end" => Many("read_end") >= 1
      /\ Kind = "fire_read" => Many("fire_read") >= 1
      /\ Kind = "close" => Many("close") >= 1
      /\ Kind = "write_end" => Many("write_end") >= 1
  BY HeadCounted
<1>q. /\ queue' \in ClientQueues /\ Kind' = Kind
      /\ Many("connected")' = Many("connected")
      /\ Many("read_ok")' = Many("read_ok")
      /\ Many("read_end")' = Many("read_end") + net.reads
      /\ Many("read_error")' = Many("read_error")
      /\ Many("fire_read")' = Many("fire_read")
      /\ Many("close")' = Many("close")
      /\ Many("write_end")' = Many("write_end") + Len(net.writes)
      /\ net.reads \in Nat /\ Len(net.writes) \in Nat
  <2>1. /\ queue' \in ClientQueues /\ (Kind # "none" => Kind' = Kind)
        /\ \A op : Many(op)' = Many(op) + Ended(op)
    BY <1>e, <1>x, AbortedLeft
  <2>2. net.reads \in Nat /\ Len(net.writes) \in Nat
    BY Outstanding
  <2>3. /\ Ended("connected") = 0 /\ Ended("read_ok") = 0 /\ Ended("read_end") = net.reads
        /\ Ended("read_error") = 0 /\ Ended("fire_read") = 0 /\ Ended("close") = 0
        /\ Ended("write_end") = Len(net.writes)
    BY DEF Ended
  <2>4. /\ queue' \in ClientQueues /\ (Kind # "none" => Kind' = Kind)
        /\ Many("connected")' = Many("connected") + Ended("connected")
        /\ Many("read_ok")' = Many("read_ok") + Ended("read_ok")
        /\ Many("read_end")' = Many("read_end") + Ended("read_end")
        /\ Many("read_error")' = Many("read_error") + Ended("read_error")
        /\ Many("fire_read")' = Many("fire_read") + Ended("fire_read")
        /\ Many("close")' = Many("close") + Ended("close")
        /\ Many("write_end")' = Many("write_end") + Ended("write_end")
    BY <2>1
  <2> QED
    BY <1>e, <1>n, <2>2, <2>3, <2>4 DEF If
<1>f. /\ Place' = "remove" /\ pc'["acc"] = pc["acc"]
      /\ s'.reading = s.reading
      /\ s'.close_flag = s.close_flag
      /\ s'.work_read_count = s.work_read_count
      /\ s'.rbuf = s.rbuf
      /\ s'.notify = s.notify
      /\ s'.high_water = s.high_water
      /\ s.rbuf \in Nat /\ net.reads \in Nat /\ s.work_read_count \in Int
      /\ s.high_water \in Nat /\ frame \in Nat
      /\ frame' = frame /\ turn' = turn
      /\ net'.reads = 0
      /\ env'.peer = env.peer
      /\ user_closed' = user_closed
  BY <1>e, <1>x DEF ClientTyped, ClientMembers, ClientSockets, Place
<1>1. ClientTyped'
  <2>1. s' \in ClientMembers
    BY <1>x DEF ClientTyped
  <2>2. pc' \in [{"io", "acc"} -> Labels]
    BY <1>e, <1>x DEF ClientTyped, Labels
  <2>3. /\ net' \in ClientSockets /\ env' \in ClientOutside /\ life' \in ClientLives
        /\ queue' \in ClientQueues /\ in_handler' \in BOOLEAN
    <3>1. net \in ClientSockets /\ <<>> \in Seq(Int) /\ life \in ClientLives
      BY DEF ClientTyped
    <3>2. net' \in ClientSockets
      BY <1>x, <3>1 DEF ClientSockets
    <3>3. life' \in ClientLives
      BY <1>x, <3>1 DEF ClientLives
    <3> QED
      BY <1>x, <1>q, <3>2, <3>3 DEF ClientTyped
  <2> QED
    BY <1>x, <2>1, <2>2, <2>3 DEF ClientTyped
<1>2. ThreadPlaces' /\ UserPlaces'
  BY <1>e, <1>x, <1>n, <1>q, <1>f
  DEF ThreadPlaces, UserPlaces
<1>3. OneRight'
  <2>1. /\ Attempt' = Attempt
        /\ Starter' = 0
        /\ net'.reads = 0
        /\ Handled' = 0
        /\ Many("read_error")' = Many("read_error")
        /\ Notifier' = Notifier
    <3>1. Attempt' = Attempt
      BY <1>f DEF Attempt, If
    <3>2. Notifier' = Notifier
      BY <1>e, <1>q, <1>f
      DEF Resumed, Notifier, If
    <3>3. Starter' = 0 /\ Handled' = 0
      BY <1>f
      DEF Starter, Handled, If
    <3>4. Many("read_error")' = Many("read_error")
      BY <1>e, <1>n, <1>q DEF If
    <3> QED
      BY <1>f, <3>1, <3>2, <3>3, <3>4
  <2>2. /\ Waits("connected")' = Waits("connected")
        /\ Waits("read_ok")' = Waits("read_ok")
        /\ Waits("read_end")' = Waits("read_end") + net.reads
    BY <1>e, <1>n, <1>q, <1>f
    DEF Waits, If
  <2>3. OneRight
    BY DEF ClientInv
  <2> QED
    BY <2>1, <2>2, <2>3, Rights DEF OneRight
<1>4. FlagClear'
  BY <1>e, <1>x, <1>n, <1>q, <1>f
  DEF ThreadPlaces, FlagClear, Waits, If
<1>5. CountTrue'
  BY <1>e, <1>x, <1>n, <1>q, <1>f
  DEF ThreadPlaces, CountTrue, Out, If
<1>6. NothingYet' /\ EndKnown'
  <2>1. Connecting' = Connecting
    BY <1>e, <1>n, <1>q, <1>f DEF Connecting, Waits, If
  <2>2. s.close_flag
    BY <1>e, <1>n DEF EndKnown
  <2>3. NothingYet'
    BY <1>e, <1>q, <1>f, <2>1 DEF NothingYet
  <2>4. EndKnown'
    BY <1>f, <2>2 DEF EndKnown
  <2> QED
    BY <2>3, <2>4
<1>7. Over'
  <2>1. Connecting' = Connecting
    BY <1>e, <1>n, <1>q, <1>f DEF Connecting, Waits, If
  <2>2. ~user_closed => Silent /\ s.work_read_count = 0
    BY <1>e, <1>n DEF Over
  <2>3. Silent => Silent'
    BY <1>e, <1>n, <1>q, <1>f, <2>1 DEF Silent, Starter, Waits, If
  <2> QED
    BY <1>f, <2>2, <2>3 DEF Over
<1>8. ArmTrue' /\ ReadComing' /\ DecodeComing'
  BY <1>e, <1>x, <1>n, <1>q, <1>f
  DEF ThreadPlaces, ArmTrue, ReadComing, DecodeComing, Stays, FlagClear, EndKnown, Waits, If
<1> QED
  BY <1>1, <1>2, <1>3, <1>4, <1>5, <1>6, <1>7, <1>8

(* fire_closed is called when no handler runs or waits.                    *)
LEMMA CountTestCounts ==
    ASSUME ClientInv, Fixed, CountTest, HandlersDone, FireClosed
    PROVE  ClientInv'
<1> USE ClientThreads DEF ClientInv
<1>e. /\ Place = "countTest" /\ s.work_read_count = 0
  BY DEF CountTest, HandlersDone, Place
<1>x. /\ queue' = queue /\ pc' = [pc EXCEPT !["io"] = "remove"] /\ in_handler' = in_handler
      /\ life' = [life EXCEPT !.fired = @ + 1]
      /\ UNCHANGED <<s, net, env, frame, turn, user_closed>>
  BY DEF CountTest, HandlersDone, FireClosed, Goto, Go, Fixed, ClientTyped, ClientLives, Finish
<1>n. /\ Many("connected") \in Nat
      /\ Many("read_ok") \in Nat
      /\ Many("read_end") \in Nat
      /\ Many("read_error") \in Nat
      /\ Many("fire_read") \in Nat
      /\ Many("close") \in Nat
      /\ Many("write_end") \in Nat
      /\ Kind = "connected" => Many("connected") >= 1
      /\ Kind = "read_ok" => Many("read_ok") >= 1
      /\ Kind = "read_end" => Many("read_end") >= 1
      /\ Kind = "fire_read" => Many("fire_read") >= 1
      /\ Kind = "close" => Many("close") >= 1
      /\ Kind = "write_end" => Many("write_end") >= 1
  BY HeadCounted
<1>q. /\ queue' \in ClientQueues /\ Kind' = Kind
      /\ Many("connected")' = Many("connected")
      /\ Many("read_ok")' = Many("read_ok")
      /\ Many("read_end")' = Many("read_end")
      /\ Many("read_error")' = Many("read_error")
      /\ Many("fire_read")' = Many("fire_read")
      /\ Many("close")' = Many("close")
      /\ Many("write_end")' = Many("write_end")
  <2>1. Kind' = Kind /\ \A op : Many(op)' = Many(op)
    BY <1>x, QueueLeft
  <2> QED
    BY <1>x, <2>1 DEF ClientTyped
<1>f. /\ Place' = "remove" /\ pc'["acc"] = pc["acc"]
      /\ s'.reading = s.reading
      /\ s'.close_flag = s.close_flag
      /\ s'.work_read_count = s.work_read_count
      /\ s'.rbuf = s.rbuf
      /\ s'.notify = s.notify
      /\ s'.high_water = s.high_water
      /\ s.rbuf \in Nat /\ net.reads \in Nat /\ s.work_read_count \in Int
      /\ s.high_water \in Nat /\ frame \in Nat
      /\ frame' = frame /\ turn' = turn
      /\ env'.peer = env.peer
      /\ user_closed' = user_closed
  BY <1>e, <1>x DEF ClientTyped, ClientMembers, ClientSockets, Place
<1>1. ClientTyped'
  <2>1. s' \in ClientMembers
    BY <1>x DEF ClientTyped
  <2>2. pc' \in [{"io", "acc"} -> Labels]
    BY <1>e, <1>x DEF ClientTyped, Labels
  <2>3. /\ net' \in ClientSockets /\ env' \in ClientOutside /\ life' \in ClientLives
        /\ queue' \in ClientQueues /\ in_handler' \in BOOLEAN
    <3>1. life \in ClientLives
      BY DEF ClientTyped
    <3>2. life' \in ClientLives
      BY <1>x, <3>1 DEF ClientLives
    <3> QED
      BY <1>x, <1>q, <3>2 DEF ClientTyped
  <2> QED
    BY <1>x, <2>1, <2>2, <2>3 DEF ClientTyped
<1>2. ThreadPlaces' /\ UserPlaces'
  BY <1>e, <1>x, <1>n, <1>q, <1>f
  DEF ThreadPlaces, UserPlaces
<1>3. OneRight'
  BY <1>e, <1>x, <1>n, <1>q, <1>f
  DEF ThreadPlaces, OneRight, Waits, Handled, Starter, Resumed, Notifier, Attempt, If
<1>4. FlagClear'
  BY <1>e, <1>x, <1>n, <1>q, <1>f
  DEF ThreadPlaces, FlagClear, Waits, If
<1>5. CountTrue'
  BY <1>e, <1>x, <1>n, <1>q, <1>f
  DEF ThreadPlaces, CountTrue, Out, If
<1>6. NothingYet' /\ EndKnown'
  BY <1>e, <1>x, <1>n, <1>q, <1>f
  DEF ThreadPlaces, NothingYet, EndKnown, Connecting, Waits, If
<1>7. Over'
  BY <1>e, <1>x, <1>n, <1>q, <1>f
  DEF ThreadPlaces, Over, Silent, Connecting, CountTrue, Out, Waits, Starter, If
<1>8. ArmTrue' /\ ReadComing' /\ DecodeComing'
  BY <1>e, <1>x, <1>n, <1>q, <1>f
  DEF ThreadPlaces, ArmTrue, ReadComing, DecodeComing, Stays, FlagClear, EndKnown, Waits, If
<1> QED
  BY <1>1, <1>2, <1>3, <1>4, <1>5, <1>6, <1>7, <1>8

(* write() has something to write:                                         *)
LEMMA WriteMoves ==
    ASSUME ClientInv, Fixed, UNCHANGED <<s, net, env, life>>, Goto("io", "writeSet"),
           Place = "writeOn" \/ (Place = "idle" /\ Kind = "write")
    PROVE  ClientInv'
<1> USE ClientThreads DEF ClientInv
<1>e. /\ \/ Place = "writeOn" /\ Kind = "write_ok"
         \/ Place = "idle" /\ Kind = "write"
      /\ in_handler = FALSE
  BY DEF ThreadPlaces, ClientTyped
<1>x. /\ queue' = queue
      /\ pc' = [pc EXCEPT !["io"] = "writeSet"] /\ in_handler' = in_handler
      /\ UNCHANGED <<s, net, env, life, frame, turn, user_closed>>
  BY DEF Goto, Go, Fixed
<1>n. /\ Many("connected") \in Nat
      /\ Many("read_ok") \in Nat
      /\ Many("read_end") \in Nat
      /\ Many("read_error") \in Nat
      /\ Many("fire_read") \in Nat
      /\ Many("close") \in Nat
      /\ Many("write_end") \in Nat
      /\ Kind = "connected" => Many("connected") >= 1
      /\ Kind = "read_ok" => Many("read_ok") >= 1
      /\ Kind = "read_end" => Many("read_end") >= 1
      /\ Kind = "fire_read" => Many("fire_read") >= 1
      /\ Kind = "close" => Many("close") >= 1
      /\ Kind = "write_end" => Many("write_end") >= 1
  BY HeadCounted
<1>q. /\ queue' \in ClientQueues /\ Kind' = Kind
      /\ Many("connected")' = Many("connected")
      /\ Many("read_ok")' = Many("read_ok")
      /\ Many("read_end")' = Many("read_end")
      /\ Many("read_error")' = Many("read_error")
      /\ Many("fire_read")' = Many("fire_read")
      /\ Many("close")' = Many("close")
      /\ Many("write_end")' = Many("write_end")
  <2>1. Kind' = Kind /\ \A op : Many(op)' = Many(op)
    BY <1>x, QueueLeft
  <2> QED
    BY <1>x, <2>1 DEF ClientTyped
<1>f. /\ Place' = "writeSet" /\ pc'["acc"] = pc["acc"]
      /\ s'.reading = s.reading
      /\ s'.close_flag = s.close_flag
      /\ s'.work_read_count = s.work_read_count
      /\ s'.rbuf = s.rbuf
      /\ s'.notify = s.notify
      /\ s'.high_water = s.high_water
      /\ s.rbuf \in Nat /\ net.reads \in Nat /\ s.work_read_count \in Int
      /\ s.high_water \in Nat /\ frame \in Nat
      /\ frame' = frame /\ turn' = turn
      /\ env'.peer = env.peer
      /\ user_closed' = user_closed
  BY <1>e, <1>x DEF ClientTyped, ClientMembers, ClientSockets, Place
<1>1. ClientTyped'
  <2>1. s' \in ClientMembers
    BY <1>x DEF ClientTyped
  <2>2. pc' \in [{"io", "acc"} -> Labels]
    BY <1>e, <1>x DEF ClientTyped, Labels
  <2>3. /\ net' \in ClientSockets /\ env' \in ClientOutside /\ life' \in ClientLives
        /\ queue' \in ClientQueues /\ in_handler' \in BOOLEAN
    BY <1>x, <1>q DEF ClientTyped
  <2> QED
    BY <1>x, <2>1, <2>2, <2>3 DEF ClientTyped
<1>2. ThreadPlaces' /\ UserPlaces'
  BY <1>e, <1>x, <1>n, <1>q, <1>f
  DEF ThreadPlaces, UserPlaces
<1>3. OneRight'
  BY <1>e, <1>x, <1>n, <1>q, <1>f
  DEF ThreadPlaces, OneRight, Waits, Handled, Starter, Resumed, Notifier, Attempt, If
<1>4. FlagClear'
  BY <1>e, <1>x, <1>n, <1>q, <1>f
  DEF ThreadPlaces, FlagClear, Waits, If
<1>5. CountTrue'
  BY <1>e, <1>x, <1>n, <1>q, <1>f
  DEF ThreadPlaces, CountTrue, Out, If
<1>6. NothingYet' /\ EndKnown'
  BY <1>e, <1>x, <1>n, <1>q, <1>f
  DEF ThreadPlaces, NothingYet, EndKnown, Connecting, Waits, If
<1>7. Over'
  BY <1>e, <1>x, <1>n, <1>q, <1>f
  DEF ThreadPlaces, Over, Silent, Connecting, CountTrue, Out, Waits, Starter, If
<1>8. ArmTrue' /\ ReadComing' /\ DecodeComing'
  BY <1>e, <1>x, <1>n, <1>q, <1>f
  DEF ThreadPlaces, ArmTrue, ReadComing, DecodeComing, Stays, FlagClear, EndKnown, Waits, If
<1> QED
  BY <1>1, <1>2, <1>3, <1>4, <1>5, <1>6, <1>7, <1>8

(* it sets writing_,                                                       *)
LEMMA WriteSetCounts ==
    ASSUME ClientInv, Fixed, WriteSet
    PROVE  ClientInv'
<1> USE ClientThreads DEF ClientInv
<1>e. /\ Place = "writeSet"
  BY DEF WriteSet, Place
<1>x. /\ s' = [s EXCEPT !.writing = TRUE]
      /\ queue' = queue
      /\ pc' = [pc EXCEPT !["io"] = "writeStart"] /\ in_handler' = in_handler
      /\ UNCHANGED <<net, env, life, frame, turn, user_closed>>
  BY DEF WriteSet, Goto, Go, Fixed
<1>n. /\ Many("connected") \in Nat
      /\ Many("read_ok") \in Nat
      /\ Many("read_end") \in Nat
      /\ Many("read_error") \in Nat
      /\ Many("fire_read") \in Nat
      /\ Many("close") \in Nat
      /\ Many("write_end") \in Nat
      /\ Kind = "connected" => Many("connected") >= 1
      /\ Kind = "read_ok" => Many("read_ok") >= 1
      /\ Kind = "read_end" => Many("read_end") >= 1
      /\ Kind = "fire_read" => Many("fire_read") >= 1
      /\ Kind = "close" => Many("close") >= 1
      /\ Kind = "write_end" => Many("write_end") >= 1
  BY HeadCounted
<1>q. /\ queue' \in ClientQueues /\ Kind' = Kind
      /\ Many("connected")' = Many("connected")
      /\ Many("read_ok")' = Many("read_ok")
      /\ Many("read_end")' = Many("read_end")
      /\ Many("read_error")' = Many("read_error")
      /\ Many("fire_read")' = Many("fire_read")
      /\ Many("close")' = Many("close")
      /\ Many("write_end")' = Many("write_end")
  <2>1. Kind' = Kind /\ \A op : Many(op)' = Many(op)
    BY <1>x, QueueLeft
  <2> QED
    BY <1>x, <2>1 DEF ClientTyped
<1>f. /\ Place' = "writeStart" /\ pc'["acc"] = pc["acc"]
      /\ s'.reading = s.reading
      /\ s'.close_flag = s.close_flag
      /\ s'.work_read_count = s.work_read_count
      /\ s'.rbuf = s.rbuf
      /\ s'.notify = s.notify
      /\ s'.high_water = s.high_water
      /\ s.rbuf \in Nat /\ net.reads \in Nat /\ s.work_read_count \in Int
      /\ s.high_water \in Nat /\ frame \in Nat
      /\ frame' = frame /\ turn' = turn
      /\ env'.peer = env.peer
      /\ user_closed' = user_closed
  BY <1>e, <1>x DEF ClientTyped, ClientMembers, ClientSockets, Place
<1>1. ClientTyped'
  <2>1. s' \in ClientMembers
    <3>1. s \in ClientMembers
      BY DEF ClientTyped
    <3> QED
      BY <1>e, <1>x, <3>1 DEF ClientMembers
  <2>2. pc' \in [{"io", "acc"} -> Labels]
    BY <1>e, <1>x DEF ClientTyped, Labels
  <2>3. /\ net' \in ClientSockets /\ env' \in ClientOutside /\ life' \in ClientLives
        /\ queue' \in ClientQueues /\ in_handler' \in BOOLEAN
    BY <1>x, <1>q DEF ClientTyped
  <2> QED
    BY <1>x, <2>1, <2>2, <2>3 DEF ClientTyped
<1>2. ThreadPlaces' /\ UserPlaces'
  BY <1>e, <1>x, <1>n, <1>q, <1>f
  DEF ThreadPlaces, UserPlaces
<1>3. OneRight'
  BY <1>e, <1>x, <1>n, <1>q, <1>f
  DEF ThreadPlaces, OneRight, Waits, Handled, Starter, Resumed, Notifier, Attempt, If
<1>4. FlagClear'
  BY <1>e, <1>x, <1>n, <1>q, <1>f
  DEF ThreadPlaces, FlagClear, Waits, If
<1>5. CountTrue'
  BY <1>e, <1>x, <1>n, <1>q, <1>f
  DEF ThreadPlaces, CountTrue, Out, If
<1>6. NothingYet' /\ EndKnown'
  BY <1>e, <1>x, <1>n, <1>q, <1>f
  DEF ThreadPlaces, NothingYet, EndKnown, Connecting, Waits, If
<1>7. Over'
  BY <1>e, <1>x, <1>n, <1>q, <1>f
  DEF ThreadPlaces, Over, Silent, Connecting, CountTrue, Out, Waits, Starter, If
<1>8. ArmTrue' /\ ReadComing' /\ DecodeComing'
  BY <1>e, <1>x, <1>n, <1>q, <1>f
  DEF ThreadPlaces, ArmTrue, ReadComing, DecodeComing, Stays, FlagClear, EndKnown, Waits, If
<1> QED
  BY <1>1, <1>2, <1>3, <1>4, <1>5, <1>6, <1>7, <1>8

(* and begins a write,                                                     *)
LEMMA WriteBegins ==
    ASSUME ClientInv, Fixed, WriteStart, net.sock # "closed"
    PROVE  ClientInv'
<1> USE ClientThreads DEF ClientInv
<1>e. /\ Place = "writeStart" /\ Kind \in {"write", "write_ok"}
      /\ in_handler = FALSE
  BY DEF WriteStart, Place, ThreadPlaces, ClientTyped
<1>x. /\ s' = [s EXCEPT !.handle_count = @ + 1]
      /\ queue' = Pop(queue, "io") /\ net' = [net EXCEPT !.writes = Append(@, s.wbuf)]
      /\ pc' = [pc EXCEPT !["io"] = "idle"] /\ in_handler' = in_handler
      /\ UNCHANGED <<env, life, frame, turn, user_closed>>
  BY DEF WriteStart, WriteCounted, StartWrite, Go, Fixed
<1>n. /\ Many("connected") \in Nat
      /\ Many("read_ok") \in Nat
      /\ Many("read_end") \in Nat
      /\ Many("read_error") \in Nat
      /\ Many("fire_read") \in Nat
      /\ Many("close") \in Nat
      /\ Many("write_end") \in Nat
      /\ Kind = "connected" => Many("connected") >= 1
      /\ Kind = "read_ok" => Many("read_ok") >= 1
      /\ Kind = "read_end" => Many("read_end") >= 1
      /\ Kind = "fire_read" => Many("fire_read") >= 1
      /\ Kind = "close" => Many("close") >= 1
      /\ Kind = "write_end" => Many("write_end") >= 1
  BY HeadCounted
<1>q. /\ queue' \in ClientQueues
      /\ Many("connected")' = Many("connected") - If(Kind = "connected")
      /\ Many("read_ok")' = Many("read_ok") - If(Kind = "read_ok")
      /\ Many("read_end")' = Many("read_end") - If(Kind = "read_end")
      /\ Many("read_error")' = Many("read_error") - If(Kind = "read_error")
      /\ Many("fire_read")' = Many("fire_read") - If(Kind = "fire_read")
      /\ Many("close")' = Many("close") - If(Kind = "close")
      /\ Many("write_end")' = Many("write_end") - If(Kind = "write_end")
  <2>1. queue' \in ClientQueues /\ \A op : Many(op)' = Many(op) - If(Kind = op)
    BY <1>e, <1>x, Popped
  <2> QED
    BY <1>e, <1>n, <2>1 DEF If
<1>f. /\ Place' = "idle" /\ pc'["acc"] = pc["acc"]
      /\ s'.reading = s.reading
      /\ s'.close_flag = s.close_flag
      /\ s'.work_read_count = s.work_read_count
      /\ s'.rbuf = s.rbuf
      /\ s'.notify = s.notify
      /\ s'.high_water = s.high_water
      /\ s.rbuf \in Nat /\ net.reads \in Nat /\ s.work_read_count \in Int
      /\ s.high_water \in Nat /\ frame \in Nat
      /\ frame' = frame /\ turn' = turn
      /\ net'.reads = net.reads
      /\ env'.peer = env.peer
      /\ user_closed' = user_closed
  BY <1>e, <1>x DEF ClientTyped, ClientMembers, ClientSockets, Place
<1>1. ClientTyped'
  <2>1. s' \in ClientMembers
    <3>1. s \in ClientMembers
      BY DEF ClientTyped
    <3>2. PICK h \in Int : h = s.handle_count + 1
      BY <3>1 DEF ClientMembers
    <3>3. s' = [s EXCEPT !.handle_count = h]
      BY <1>x, <3>2
    <3> QED
      BY <3>1, <3>3 DEF ClientMembers
  <2>2. pc' \in [{"io", "acc"} -> Labels]
    BY <1>e, <1>x DEF ClientTyped, Labels
  <2>3. /\ net' \in ClientSockets /\ env' \in ClientOutside /\ life' \in ClientLives
        /\ queue' \in ClientQueues /\ in_handler' \in BOOLEAN
    <3>1. net \in ClientSockets /\ s.wbuf \in Int
      BY DEF ClientTyped, ClientMembers
    <3>2. PICK w \in Seq(Int) : w = Append(net.writes, s.wbuf)
      <4>1. net.writes \in Seq(Int)
        BY <3>1 DEF ClientSockets
      <4>2. Append(net.writes, s.wbuf) \in Seq(Int)
        BY <3>1, <4>1
      <4> QED
        BY <4>2
    <3>3. net' = [net EXCEPT !.writes = w]
      BY <1>x, <3>2
    <3>4. net' \in ClientSockets
      BY <3>1, <3>3 DEF ClientSockets
    <3> QED
      BY <1>x, <1>q, <3>4 DEF ClientTyped
  <2> QED
    BY <1>x, <2>1, <2>2, <2>3 DEF ClientTyped
<1>2. ThreadPlaces' /\ UserPlaces'
  BY <1>e, <1>x, <1>n, <1>q, <1>f
  DEF ThreadPlaces, UserPlaces
<1>3. OneRight'
  <2>1. /\ Attempt' = Attempt
        /\ Starter' = 0
        /\ net'.reads = net.reads
        /\ Handled' = 0
        /\ Many("read_error")' = Many("read_error")
        /\ Notifier' = Notifier
    <3>1. Attempt' = Attempt
      BY <1>f DEF Attempt, If
    <3>2. Notifier' = Notifier
      BY <1>e, <1>q, <1>f
      DEF Resumed, Notifier, If
    <3>3. Starter' = 0 /\ Handled' = 0
      BY <1>f
      DEF Starter, Handled, If
    <3>4. Many("read_error")' = Many("read_error")
      BY <1>e, <1>n, <1>q DEF If
    <3> QED
      BY <1>f, <3>1, <3>2, <3>3, <3>4
  <2>2. /\ Waits("connected")' = Waits("connected")
        /\ Waits("read_ok")' = Waits("read_ok")
        /\ Waits("read_end")' = Waits("read_end")
    BY <1>e, <1>n, <1>q, <1>f
    DEF Waits, If
  <2>3. OneRight
    BY DEF ClientInv
  <2> QED
    BY <2>1, <2>2, <2>3, Rights DEF OneRight
<1>4. FlagClear'
  BY <1>e, <1>x, <1>n, <1>q, <1>f
  DEF ThreadPlaces, FlagClear, Waits, If
<1>5. CountTrue'
  BY <1>e, <1>x, <1>n, <1>q, <1>f, SMTT(40)
  DEF ThreadPlaces, CountTrue, Out, If
<1>6. NothingYet' /\ EndKnown'
  <2>1. Connecting' = Connecting
    BY <1>e, <1>n, <1>q, <1>f DEF Connecting, Waits, If
  <2>2. Many("fire_read")' = Many("fire_read") /\ Many("write_end")' = Many("write_end")
        /\ Many("close")' = Many("close")
    BY <1>e, <1>n, <1>q DEF If
  <2>3. NothingYet'
    BY <1>f, <2>1, <2>2 DEF NothingYet
  <2>4. EndKnown'
    BY <1>f, <2>2 DEF EndKnown
  <2> QED
    BY <2>3, <2>4
<1>7. Over'
  <2>1. CASE Kind = "write_ok"
    BY <1>e, <1>x, <1>n, <1>q, <1>f, <2>1 DEF Over, Silent, Connecting, Waits, Starter, If
  <2>2. CASE Kind = "write"
    BY <1>e, <1>x, <1>n, <1>q, <1>f, <2>2 DEF Over, Silent, Connecting, Waits, Starter, If
  <2> QED
    BY <1>e, <2>1, <2>2
<1>8. ArmTrue' /\ ReadComing' /\ DecodeComing'
  BY <1>e, <1>x, <1>n, <1>q, <1>f, SMTT(40)
  DEF ThreadPlaces, ArmTrue, ReadComing, DecodeComing, Stays, FlagClear, EndKnown, Waits, If
<1> QED
  BY <1>1, <1>2, <1>3, <1>4, <1>5, <1>6, <1>7, <1>8

(* which fails on a closed socket.                                         *)
LEMMA WriteFails ==
    ASSUME ClientInv, Fixed, WriteStart, net.sock = "closed"
    PROVE  ClientInv'
<1> USE ClientThreads DEF ClientInv
<1>a. Task("write_error", 0) \in Tasks /\ Task("write_error", 0).op = "write_error"
  BY DEF Task, Tasks, Ops
<1>e. /\ Place = "writeStart" /\ Kind \in {"write", "write_ok"}
      /\ in_handler = FALSE
  BY DEF WriteStart, Place, ThreadPlaces, ClientTyped
<1>x. /\ s' = [s EXCEPT !.handle_count = @ + 1]
      /\ queue' = Post(Pop(queue, "io"), "io", Task("write_error", 0)) /\ net' = net
      /\ pc' = [pc EXCEPT !["io"] = "idle"] /\ in_handler' = in_handler
      /\ UNCHANGED <<env, life, frame, turn, user_closed>>
  BY DEF WriteStart, WriteCounted, StartWrite, Go, Fixed
<1>n. /\ Many("connected") \in Nat
      /\ Many("read_ok") \in Nat
      /\ Many("read_end") \in Nat
      /\ Many("read_error") \in Nat
      /\ Many("fire_read") \in Nat
      /\ Many("close") \in Nat
      /\ Many("write_end") \in Nat
      /\ Kind = "connected" => Many("connected") >= 1
      /\ Kind = "read_ok" => Many("read_ok") >= 1
      /\ Kind = "read_end" => Many("read_end") >= 1
      /\ Kind = "fire_read" => Many("fire_read") >= 1
      /\ Kind = "close" => Many("close") >= 1
      /\ Kind = "write_end" => Many("write_end") >= 1
  BY HeadCounted
<1>q. /\ queue' \in ClientQueues
      /\ Many("connected")' = Many("connected") - If(Kind = "connected")
      /\ Many("read_ok")' = Many("read_ok") - If(Kind = "read_ok")
      /\ Many("read_end")' = Many("read_end") - If(Kind = "read_end")
      /\ Many("read_error")' = Many("read_error") - If(Kind = "read_error")
      /\ Many("fire_read")' = Many("fire_read") - If(Kind = "fire_read")
      /\ Many("close")' = Many("close") - If(Kind = "close")
      /\ Many("write_end")' = Many("write_end") - If(Kind = "write_end")
  <2>1. /\ queue' \in ClientQueues
        /\ \A op : Many(op)' = Many(op) - If(Kind = op) + If(Task("write_error", 0).op = op)
    BY <1>e, <1>x, <1>a, PoppedThenPosted
  <2> QED
    BY <1>e, <1>n, <2>1, <1>a DEF If
<1>f. /\ Place' = "idle" /\ pc'["acc"] = pc["acc"]
      /\ s'.reading = s.reading
      /\ s'.close_flag = s.close_flag
      /\ s'.work_read_count = s.work_read_count
      /\ s'.rbuf = s.rbuf
      /\ s'.notify = s.notify
      /\ s'.high_water = s.high_water
      /\ s.rbuf \in Nat /\ net.reads \in Nat /\ s.work_read_count \in Int
      /\ s.high_water \in Nat /\ frame \in Nat
      /\ frame' = frame /\ turn' = turn
      /\ net'.reads = net.reads
      /\ env'.peer = env.peer
      /\ user_closed' = user_closed
  BY <1>e, <1>x DEF ClientTyped, ClientMembers, ClientSockets, Place
<1>1. ClientTyped'
  <2>1. s' \in ClientMembers
    <3>1. s \in ClientMembers
      BY DEF ClientTyped
    <3>2. PICK h \in Int : h = s.handle_count + 1
      BY <3>1 DEF ClientMembers
    <3>3. s' = [s EXCEPT !.handle_count = h]
      BY <1>x, <3>2
    <3> QED
      BY <3>1, <3>3 DEF ClientMembers
  <2>2. pc' \in [{"io", "acc"} -> Labels]
    BY <1>e, <1>x DEF ClientTyped, Labels
  <2>3. /\ net' \in ClientSockets /\ env' \in ClientOutside /\ life' \in ClientLives
        /\ queue' \in ClientQueues /\ in_handler' \in BOOLEAN
    BY <1>x, <1>q DEF ClientTyped
  <2> QED
    BY <1>x, <2>1, <2>2, <2>3 DEF ClientTyped
<1>2. ThreadPlaces' /\ UserPlaces'
  BY <1>e, <1>x, <1>n, <1>q, <1>f
  DEF ThreadPlaces, UserPlaces
<1>3. OneRight'
  <2>1. /\ Attempt' = Attempt
        /\ Starter' = 0
        /\ net'.reads = net.reads
        /\ Handled' = 0
        /\ Many("read_error")' = Many("read_error")
        /\ Notifier' = Notifier
    <3>1. Attempt' = Attempt
      BY <1>f DEF Attempt, If
    <3>2. Notifier' = Notifier
      BY <1>e, <1>q, <1>f
      DEF Resumed, Notifier, If
    <3>3. Starter' = 0 /\ Handled' = 0
      BY <1>f
      DEF Starter, Handled, If
    <3>4. Many("read_error")' = Many("read_error")
      BY <1>e, <1>n, <1>q DEF If
    <3> QED
      BY <1>f, <3>1, <3>2, <3>3, <3>4
  <2>2. /\ Waits("connected")' = Waits("connected")
        /\ Waits("read_ok")' = Waits("read_ok")
        /\ Waits("read_end")' = Waits("read_end")
    BY <1>e, <1>n, <1>q, <1>f
    DEF Waits, If
  <2>3. OneRight
    BY DEF ClientInv
  <2> QED
    BY <2>1, <2>2, <2>3, Rights DEF OneRight
<1>4. FlagClear'
  BY <1>e, <1>x, <1>n, <1>q, <1>f
  DEF ThreadPlaces, FlagClear, Waits, If
<1>5. CountTrue'
  BY <1>e, <1>x, <1>n, <1>q, <1>f
  DEF ThreadPlaces, CountTrue, Out, If
<1>6. NothingYet' /\ EndKnown'
  <2>1. Connecting' = Connecting
    BY <1>e, <1>n, <1>q, <1>f DEF Connecting, Waits, If
  <2>2. Many("fire_read")' = Many("fire_read") /\ Many("write_end")' = Many("write_end")
        /\ Many("close")' = Many("close")
    BY <1>e, <1>n, <1>q DEF If
  <2>3. NothingYet'
    BY <1>f, <2>1, <2>2 DEF NothingYet
  <2>4. EndKnown'
    BY <1>f, <2>2 DEF EndKnown
  <2> QED
    BY <2>3, <2>4
<1>7. Over'
  <2>1. CASE Kind = "write_ok"
    BY <1>e, <1>x, <1>n, <1>q, <1>f, <2>1 DEF Over, Silent, Connecting, Waits, Starter, If
  <2>2. CASE Kind = "write"
    BY <1>e, <1>x, <1>n, <1>q, <1>f, <2>2 DEF Over, Silent, Connecting, Waits, Starter, If
  <2> QED
    BY <1>e, <2>1, <2>2
<1>8. ArmTrue' /\ ReadComing' /\ DecodeComing'
  BY <1>e, <1>x, <1>n, <1>q, <1>f
  DEF ThreadPlaces, ArmTrue, ReadComing, DecodeComing, Stays, FlagClear, EndKnown, Waits, If
<1> QED
  BY <1>1, <1>2, <1>3, <1>4, <1>5, <1>6, <1>7, <1>8

(* close_after_last_write shuts the socket down.                           *)
LEMMA ShutCounts ==
    ASSUME ClientInv, Fixed, UNCHANGED <<s, env, life>>, Place = "flagTest", s.close_flag,
           net' = [net EXCEPT !.sock = "shut"], Goto("io", "readingTest")
    PROVE  ClientInv'
<1> USE ClientThreads DEF ClientInv
<1>e. /\ Place = "flagTest" /\ s.close_flag = TRUE
  BY DEF ClientTyped, ClientMembers
<1>x. /\ queue' = queue /\ pc' = [pc EXCEPT !["io"] = "readingTest"] /\ in_handler' = in_handler
      /\ net' = [net EXCEPT !.sock = "shut"]
      /\ UNCHANGED <<s, env, life, frame, turn, user_closed>>
  BY DEF Goto, Go, Fixed
<1>n. /\ Many("connected") \in Nat
      /\ Many("read_ok") \in Nat
      /\ Many("read_end") \in Nat
      /\ Many("read_error") \in Nat
      /\ Many("fire_read") \in Nat
      /\ Many("close") \in Nat
      /\ Many("write_end") \in Nat
      /\ Kind = "connected" => Many("connected") >= 1
      /\ Kind = "read_ok" => Many("read_ok") >= 1
      /\ Kind = "read_end" => Many("read_end") >= 1
      /\ Kind = "fire_read" => Many("fire_read") >= 1
      /\ Kind = "close" => Many("close") >= 1
      /\ Kind = "write_end" => Many("write_end") >= 1
  BY HeadCounted
<1>q. /\ queue' \in ClientQueues /\ Kind' = Kind
      /\ Many("connected")' = Many("connected")
      /\ Many("read_ok")' = Many("read_ok")
      /\ Many("read_end")' = Many("read_end")
      /\ Many("read_error")' = Many("read_error")
      /\ Many("fire_read")' = Many("fire_read")
      /\ Many("close")' = Many("close")
      /\ Many("write_end")' = Many("write_end")
  <2>1. Kind' = Kind /\ \A op : Many(op)' = Many(op)
    BY <1>x, QueueLeft
  <2> QED
    BY <1>x, <2>1 DEF ClientTyped
<1>f. /\ Place' = "readingTest" /\ pc'["acc"] = pc["acc"]
      /\ s'.reading = s.reading
      /\ s'.close_flag = s.close_flag
      /\ s'.work_read_count = s.work_read_count
      /\ s'.rbuf = s.rbuf
      /\ s'.notify = s.notify
      /\ s'.high_water = s.high_water
      /\ s.rbuf \in Nat /\ net.reads \in Nat /\ s.work_read_count \in Int
      /\ s.high_water \in Nat /\ frame \in Nat
      /\ frame' = frame /\ turn' = turn
      /\ net'.reads = net.reads
      /\ env'.peer = env.peer
      /\ user_closed' = user_closed
  BY <1>e, <1>x DEF ClientTyped, ClientMembers, ClientSockets, Place
<1>1. ClientTyped'
  <2>1. s' \in ClientMembers
    BY <1>x DEF ClientTyped
  <2>2. pc' \in [{"io", "acc"} -> Labels]
    BY <1>e, <1>x DEF ClientTyped, Labels
  <2>3. /\ net' \in ClientSockets /\ env' \in ClientOutside /\ life' \in ClientLives
        /\ queue' \in ClientQueues /\ in_handler' \in BOOLEAN
    <3>1. net \in ClientSockets
      BY DEF ClientTyped
    <3>2. net' \in ClientSockets
      BY <1>x, <3>1 DEF ClientSockets
    <3> QED
      BY <1>x, <1>q, <3>2 DEF ClientTyped
  <2> QED
    BY <1>x, <2>1, <2>2, <2>3 DEF ClientTyped
<1>2. ThreadPlaces' /\ UserPlaces'
  BY <1>e, <1>x, <1>n, <1>q, <1>f
  DEF ThreadPlaces, UserPlaces
<1>3. OneRight'
  BY <1>e, <1>x, <1>n, <1>q, <1>f
  DEF ThreadPlaces, OneRight, Waits, Handled, Starter, Resumed, Notifier, Attempt, If
<1>4. FlagClear'
  BY <1>e, <1>x, <1>n, <1>q, <1>f
  DEF ThreadPlaces, FlagClear, Waits, If
<1>5. CountTrue'
  BY <1>e, <1>x, <1>n, <1>q, <1>f
  DEF ThreadPlaces, CountTrue, Out, If
<1>6. NothingYet' /\ EndKnown'
  BY <1>e, <1>x, <1>n, <1>q, <1>f
  DEF ThreadPlaces, NothingYet, EndKnown, Connecting, Waits, If
<1>7. Over'
  BY <1>e, <1>x, <1>n, <1>q, <1>f
  DEF ThreadPlaces, Over, Silent, Connecting, CountTrue, Out, Waits, Starter, If
<1>8. ArmTrue' /\ ReadComing' /\ DecodeComing'
  BY <1>e, <1>x, <1>n, <1>q, <1>f
  DEF ThreadPlaces, ArmTrue, ReadComing, DecodeComing, Stays, FlagClear, EndKnown, Waits, If
<1> QED
  BY <1>1, <1>2, <1>3, <1>4, <1>5, <1>6, <1>7, <1>8

(* notify_write posts write(), in a handler                                *)
LEMMA PostWriteStays ==
    ASSUME ClientInv, Fixed, PostWrite, in_handler
    PROVE  ClientInv'
<1> USE ClientThreads DEF ClientInv
<1>a. Task("write", 0) \in Tasks /\ Task("write", 0).op = "write"
  BY DEF Task, Tasks, Ops
<1>e. /\ Place = "postWrite" /\ Kind = "fire_read"
  BY DEF PostWrite, Place, ThreadPlaces
<1>x. /\ queue' = Post(queue, "io", Task("write", 0))
      /\ pc' = [pc EXCEPT !["io"] = "user"] /\ in_handler' = in_handler
      /\ UNCHANGED <<s, net, env, life, frame, turn, user_closed>>
  BY DEF PostWrite, Return, Go, Fixed
<1>n. /\ Many("connected") \in Nat
      /\ Many("read_ok") \in Nat
      /\ Many("read_end") \in Nat
      /\ Many("read_error") \in Nat
      /\ Many("fire_read") \in Nat
      /\ Many("close") \in Nat
      /\ Many("write_end") \in Nat
      /\ Kind = "connected" => Many("connected") >= 1
      /\ Kind = "read_ok" => Many("read_ok") >= 1
      /\ Kind = "read_end" => Many("read_end") >= 1
      /\ Kind = "fire_read" => Many("fire_read") >= 1
      /\ Kind = "close" => Many("close") >= 1
      /\ Kind = "write_end" => Many("write_end") >= 1
  BY HeadCounted
<1>q. /\ queue' \in ClientQueues /\ Kind' = Kind
      /\ Many("connected")' = Many("connected")
      /\ Many("read_ok")' = Many("read_ok")
      /\ Many("read_end")' = Many("read_end")
      /\ Many("read_error")' = Many("read_error")
      /\ Many("fire_read")' = Many("fire_read")
      /\ Many("close")' = Many("close")
      /\ Many("write_end")' = Many("write_end")
  <2>1. /\ queue' \in ClientQueues /\ (Kind # "none" => Kind' = Kind)
        /\ \A op : Many(op)' = Many(op) + If(Task("write", 0).op = op)
    BY <1>e, <1>x, <1>a, Posted
  <2> QED
    BY <1>e, <1>n, <2>1, <1>a DEF If
<1>f. /\ Place' = "user" /\ pc'["acc"] = pc["acc"]
      /\ s'.reading = s.reading
      /\ s'.close_flag = s.close_flag
      /\ s'.work_read_count = s.work_read_count
      /\ s'.rbuf = s.rbuf
      /\ s'.notify = s.notify
      /\ s'.high_water = s.high_water
      /\ s.rbuf \in Nat /\ net.reads \in Nat /\ s.work_read_count \in Int
      /\ s.high_water \in Nat /\ frame \in Nat
      /\ frame' = frame /\ turn' = turn
      /\ env'.peer = env.peer
      /\ user_closed' = user_closed
  BY <1>e, <1>x DEF ClientTyped, ClientMembers, ClientSockets, Place
<1>1. ClientTyped'
  <2>1. s' \in ClientMembers
    BY <1>x DEF ClientTyped
  <2>2. pc' \in [{"io", "acc"} -> Labels]
    BY <1>e, <1>x DEF ClientTyped, Labels
  <2>3. /\ net' \in ClientSockets /\ env' \in ClientOutside /\ life' \in ClientLives
        /\ queue' \in ClientQueues /\ in_handler' \in BOOLEAN
    BY <1>x, <1>q DEF ClientTyped
  <2> QED
    BY <1>x, <2>1, <2>2, <2>3 DEF ClientTyped
<1>2. ThreadPlaces' /\ UserPlaces'
  BY <1>e, <1>x, <1>n, <1>q, <1>f
  DEF ThreadPlaces, UserPlaces
<1>3. OneRight'
  BY <1>e, <1>x, <1>n, <1>q, <1>f
  DEF ThreadPlaces, OneRight, Waits, Handled, Starter, Resumed, Notifier, Attempt, If
<1>4. FlagClear'
  BY <1>e, <1>x, <1>n, <1>q, <1>f
  DEF ThreadPlaces, FlagClear, Waits, If
<1>5. CountTrue'
  BY <1>e, <1>x, <1>n, <1>q, <1>f
  DEF ThreadPlaces, CountTrue, Out, If
<1>6. NothingYet' /\ EndKnown'
  BY <1>e, <1>x, <1>n, <1>q, <1>f
  DEF ThreadPlaces, NothingYet, EndKnown, Connecting, Waits, If
<1>7. Over'
  BY <1>e, <1>x, <1>n, <1>q, <1>f
  DEF ThreadPlaces, Over, Silent, Connecting, CountTrue, Out, Waits, Starter, If
<1>8. ArmTrue' /\ ReadComing' /\ DecodeComing'
  BY <1>e, <1>x, <1>n, <1>q, <1>f
  DEF ThreadPlaces, ArmTrue, ReadComing, DecodeComing, Stays, FlagClear, EndKnown, Waits, If
<1> QED
  BY <1>1, <1>2, <1>3, <1>4, <1>5, <1>6, <1>7, <1>8

(* or in the posted append.                                                *)
LEMMA PostWriteEnds ==
    ASSUME ClientInv, Fixed, PostWrite, ~in_handler
    PROVE  ClientInv'
<1> USE ClientThreads DEF ClientInv
<1>a. Task("write", 0) \in Tasks /\ Task("write", 0).op = "write"
  BY DEF Task, Tasks, Ops
<1>e. /\ Place = "postWrite" /\ Kind = "append" /\ in_handler = FALSE
  BY DEF PostWrite, Place, ThreadPlaces, ClientTyped
<1>x. /\ queue' = Pop(Post(queue, "io", Task("write", 0)), "io")
      /\ pc' = [pc EXCEPT !["io"] = "idle"] /\ in_handler' = in_handler
      /\ UNCHANGED <<s, net, env, life, frame, turn, user_closed>>
  BY DEF PostWrite, Return, Go, Fixed
<1>n. /\ Many("connected") \in Nat
      /\ Many("read_ok") \in Nat
      /\ Many("read_end") \in Nat
      /\ Many("read_error") \in Nat
      /\ Many("fire_read") \in Nat
      /\ Many("close") \in Nat
      /\ Many("write_end") \in Nat
      /\ Kind = "connected" => Many("connected") >= 1
      /\ Kind = "read_ok" => Many("read_ok") >= 1
      /\ Kind = "read_end" => Many("read_end") >= 1
      /\ Kind = "fire_read" => Many("fire_read") >= 1
      /\ Kind = "close" => Many("close") >= 1
      /\ Kind = "write_end" => Many("write_end") >= 1
  BY HeadCounted
<1>q. /\ queue' \in ClientQueues
      /\ Many("connected")' = Many("connected") - If(Kind = "connected")
      /\ Many("read_ok")' = Many("read_ok") - If(Kind = "read_ok")
      /\ Many("read_end")' = Many("read_end") - If(Kind = "read_end")
      /\ Many("read_error")' = Many("read_error") - If(Kind = "read_error")
      /\ Many("fire_read")' = Many("fire_read") - If(Kind = "fire_read")
      /\ Many("close")' = Many("close") - If(Kind = "close")
      /\ Many("write_end")' = Many("write_end") - If(Kind = "write_end")
  <2>1. /\ queue' \in ClientQueues
        /\ \A op : Many(op)' = Many(op) - If(Kind = op) + If(Task("write", 0).op = op)
    BY <1>e, <1>x, <1>a, PoppedPosted
  <2> QED
    BY <1>e, <1>n, <2>1, <1>a DEF If
<1>f. /\ Place' = "idle" /\ pc'["acc"] = pc["acc"]
      /\ s'.reading = s.reading
      /\ s'.close_flag = s.close_flag
      /\ s'.work_read_count = s.work_read_count
      /\ s'.rbuf = s.rbuf
      /\ s'.notify = s.notify
      /\ s'.high_water = s.high_water
      /\ s.rbuf \in Nat /\ net.reads \in Nat /\ s.work_read_count \in Int
      /\ s.high_water \in Nat /\ frame \in Nat
      /\ frame' = frame /\ turn' = turn
      /\ env'.peer = env.peer
      /\ user_closed' = user_closed
  BY <1>e, <1>x DEF ClientTyped, ClientMembers, ClientSockets, Place
<1>1. ClientTyped'
  <2>1. s' \in ClientMembers
    BY <1>x DEF ClientTyped
  <2>2. pc' \in [{"io", "acc"} -> Labels]
    BY <1>e, <1>x DEF ClientTyped, Labels
  <2>3. /\ net' \in ClientSockets /\ env' \in ClientOutside /\ life' \in ClientLives
        /\ queue' \in ClientQueues /\ in_handler' \in BOOLEAN
    BY <1>x, <1>q DEF ClientTyped
  <2> QED
    BY <1>x, <2>1, <2>2, <2>3 DEF ClientTyped
<1>2. ThreadPlaces' /\ UserPlaces'
  BY <1>e, <1>x, <1>n, <1>q, <1>f
  DEF ThreadPlaces, UserPlaces
<1>3. OneRight'
  BY <1>e, <1>x, <1>n, <1>q, <1>f
  DEF ThreadPlaces, OneRight, Waits, Handled, Starter, Resumed, Notifier, Attempt, If
<1>4. FlagClear'
  BY <1>e, <1>x, <1>n, <1>q, <1>f
  DEF ThreadPlaces, FlagClear, Waits, If
<1>5. CountTrue'
  BY <1>e, <1>x, <1>n, <1>q, <1>f
  DEF ThreadPlaces, CountTrue, Out, If
<1>6. NothingYet' /\ EndKnown'
  BY <1>e, <1>x, <1>n, <1>q, <1>f
  DEF ThreadPlaces, NothingYet, EndKnown, Connecting, Waits, If
<1>7. Over'
  BY <1>e, <1>x, <1>n, <1>q, <1>f
  DEF ThreadPlaces, Over, Silent, Connecting, CountTrue, Out, Waits, Starter, If
<1>8. ArmTrue' /\ ReadComing' /\ DecodeComing'
  BY <1>e, <1>x, <1>n, <1>q, <1>f
  DEF ThreadPlaces, ArmTrue, ReadComing, DecodeComing, Stays, FlagClear, EndKnown, Waits, If
<1> QED
  BY <1>1, <1>2, <1>3, <1>4, <1>5, <1>6, <1>7, <1>8

(* close_if_necessary posts the close when nothing is under way.           *)
LEMMA ClosePosted ==
    ASSUME ClientInv, Fixed, UNCHANGED <<s, net, env, life>>, Place = "cnReading", ~s.reading,
           Return("io", Post(queue, "io", Task("close", 0)))
    PROVE  ClientInv'
<1> USE ClientThreads DEF ClientInv
<1>o. Kind = "fire_read" /\ s.close_flag /\ s.work_read_count = 0 /\ in_handler = FALSE
  <2>1. Kind = "fire_read" /\ s.close_flag /\ s.work_read_count = 0
    BY DEF ThreadPlaces, EndKnown, CountTrue
  <2>2. Many("fire_read") \in Nat /\ Many("fire_read") >= 1
    BY <2>1, HeadCounted
  <2> QED
    BY <2>1, <2>2 DEF CountTrue, Out, If, ClientTyped
<1>a. Task("close", 0) \in Tasks /\ Task("close", 0).op = "close"
  BY DEF Task, Tasks, Ops
<1>e. /\ Place = "cnReading" /\ s.reading = FALSE
      /\ Kind = "fire_read" /\ s.close_flag /\ s.work_read_count = 0 /\ in_handler = FALSE
  BY <1>o DEF ClientTyped, ClientMembers
<1>x. /\ queue' = Pop(Post(queue, "io", Task("close", 0)), "io")
      /\ pc' = [pc EXCEPT !["io"] = "idle"] /\ in_handler' = in_handler
      /\ UNCHANGED <<s, net, env, life, frame, turn, user_closed>>
  BY <1>o DEF Return, Go, Fixed
<1>n. /\ Many("connected") \in Nat
      /\ Many("read_ok") \in Nat
      /\ Many("read_end") \in Nat
      /\ Many("read_error") \in Nat
      /\ Many("fire_read") \in Nat
      /\ Many("close") \in Nat
      /\ Many("write_end") \in Nat
      /\ Kind = "connected" => Many("connected") >= 1
      /\ Kind = "read_ok" => Many("read_ok") >= 1
      /\ Kind = "read_end" => Many("read_end") >= 1
      /\ Kind = "fire_read" => Many("fire_read") >= 1
      /\ Kind = "close" => Many("close") >= 1
      /\ Kind = "write_end" => Many("write_end") >= 1
  BY HeadCounted
<1>q. /\ queue' \in ClientQueues
      /\ Many("connected")' = Many("connected") - If(Kind = "connected")
      /\ Many("read_ok")' = Many("read_ok") - If(Kind = "read_ok")
      /\ Many("read_end")' = Many("read_end") - If(Kind = "read_end")
      /\ Many("read_error")' = Many("read_error") - If(Kind = "read_error")
      /\ Many("fire_read")' = Many("fire_read") - If(Kind = "fire_read")
      /\ Many("close")' = Many("close") - If(Kind = "close") + 1
      /\ Many("write_end")' = Many("write_end") - If(Kind = "write_end")
  <2>1. /\ queue' \in ClientQueues
        /\ \A op : Many(op)' = Many(op) - If(Kind = op) + If(Task("close", 0).op = op)
    BY <1>e, <1>x, <1>a, PoppedPosted
  <2> QED
    BY <1>e, <1>n, <2>1, <1>a DEF If
<1>f. /\ Place' = "idle" /\ pc'["acc"] = pc["acc"]
      /\ s'.reading = s.reading
      /\ s'.close_flag = s.close_flag
      /\ s'.work_read_count = s.work_read_count
      /\ s'.rbuf = s.rbuf
      /\ s'.notify = s.notify
      /\ s'.high_water = s.high_water
      /\ s.rbuf \in Nat /\ net.reads \in Nat /\ s.work_read_count \in Int
      /\ s.high_water \in Nat /\ frame \in Nat
      /\ frame' = frame /\ turn' = turn
      /\ env'.peer = env.peer
      /\ user_closed' = user_closed
  BY <1>e, <1>x DEF ClientTyped, ClientMembers, ClientSockets, Place
<1>1. ClientTyped'
  <2>1. s' \in ClientMembers
    BY <1>x DEF ClientTyped
  <2>2. pc' \in [{"io", "acc"} -> Labels]
    BY <1>e, <1>x DEF ClientTyped, Labels
  <2>3. /\ net' \in ClientSockets /\ env' \in ClientOutside /\ life' \in ClientLives
        /\ queue' \in ClientQueues /\ in_handler' \in BOOLEAN
    BY <1>x, <1>q DEF ClientTyped
  <2> QED
    BY <1>x, <2>1, <2>2, <2>3 DEF ClientTyped
<1>2. ThreadPlaces' /\ UserPlaces'
  BY <1>e, <1>x, <1>n, <1>q, <1>f
  DEF ThreadPlaces, UserPlaces
<1>3. OneRight'
  BY <1>e, <1>x, <1>n, <1>q, <1>f
  DEF ThreadPlaces, OneRight, Waits, Handled, Starter, Resumed, Notifier, Attempt, If
<1>4. FlagClear'
  BY <1>e, <1>x, <1>n, <1>q, <1>f
  DEF ThreadPlaces, FlagClear, Waits, If
<1>5. CountTrue'
  BY <1>e, <1>x, <1>n, <1>q, <1>f
  DEF ThreadPlaces, CountTrue, Out, If
<1>6. NothingYet' /\ EndKnown'
  BY <1>e, <1>x, <1>n, <1>q, <1>f
  DEF ThreadPlaces, NothingYet, EndKnown, Connecting, Waits, If
<1>7. Over'
  BY <1>e, <1>x, <1>n, <1>q, <1>f
  DEF ThreadPlaces, Over, Silent, Connecting, CountTrue, Out, Waits, Starter, If, NothingYet,
      EndKnown, OneRight, FlagClear, Handled, Resumed, Notifier, Attempt
<1>8. ArmTrue' /\ ReadComing' /\ DecodeComing'
  BY <1>e, <1>x, <1>n, <1>q, <1>f
  DEF ThreadPlaces, ArmTrue, ReadComing, DecodeComing, Stays, FlagClear, EndKnown, Waits, If
<1> QED
  BY <1>1, <1>2, <1>3, <1>4, <1>5, <1>6, <1>7, <1>8

(* Otherwise it cancels what is.                                           *)
LEMMA CancelCounts ==
    ASSUME ClientInv, Fixed, UNCHANGED <<s, env, life>>, Place = "cnCancel", CancelAll("io")
    PROVE  ClientInv'
<1> USE ClientThreads DEF ClientInv
<1>o. Kind = "fire_read" /\ s.close_flag /\ s.work_read_count = 0 /\ in_handler = FALSE
  <2>1. Kind = "fire_read" /\ s.close_flag /\ s.work_read_count = 0
    BY DEF ThreadPlaces, EndKnown, CountTrue
  <2>2. Many("fire_read") \in Nat /\ Many("fire_read") >= 1
    BY <2>1, HeadCounted
  <2> QED
    BY <2>1, <2>2 DEF CountTrue, Out, If, ClientTyped
<1>e. /\ Place = "cnCancel" /\ s.close_flag = TRUE
      /\ Kind = "fire_read" /\ s.work_read_count = 0 /\ in_handler = FALSE
  BY <1>o DEF ClientTyped, ClientMembers
<1>x. /\ queue' = Pop(Aborted(queue), "io")
      /\ pc' = [pc EXCEPT !["io"] = "idle"] /\ in_handler' = in_handler
      /\ net' = [net EXCEPT !.reads = 0, !.writes = <<>>]
      /\ UNCHANGED <<s, env, life, frame, turn, user_closed>>
  BY <1>o DEF CancelAll, Return, Go, Fixed
<1>n. /\ Many("connected") \in Nat
      /\ Many("read_ok") \in Nat
      /\ Many("read_end") \in Nat
      /\ Many("read_error") \in Nat
      /\ Many("fire_read") \in Nat
      /\ Many("close") \in Nat
      /\ Many("write_end") \in Nat
      /\ Kind = "connected" => Many("connected") >= 1
      /\ Kind = "read_ok" => Many("read_ok") >= 1
      /\ Kind = "read_end" => Many("read_end") >= 1
      /\ Kind = "fire_read" => Many("fire_read") >= 1
      /\ Kind = "close" => Many("close") >= 1
      /\ Kind = "write_end" => Many("write_end") >= 1
  BY HeadCounted
<1>q. /\ queue' \in ClientQueues
      /\ Many("connected")' = Many("connected") - If(Kind = "connected")
      /\ Many("read_ok")' = Many("read_ok") - If(Kind = "read_ok")
      /\ Many("read_end")' = Many("read_end") + net.reads - If(Kind = "read_end")
      /\ Many("read_error")' = Many("read_error") - If(Kind = "read_error")
      /\ Many("fire_read")' = Many("fire_read") - If(Kind = "fire_read")
      /\ Many("close")' = Many("close") - If(Kind = "close")
      /\ Many("write_end")' = Many("write_end") + Len(net.writes) - If(Kind = "write_end")
      /\ net.reads \in Nat /\ Len(net.writes) \in Nat
  <2>1. queue' \in ClientQueues /\ \A op : Many(op)' = Many(op) + Ended(op) - If(Kind = op)
    BY <1>e, <1>x, AbortedPopped
  <2>2. net.reads \in Nat /\ Len(net.writes) \in Nat
    BY Outstanding
  <2>3. /\ Ended("connected") = 0 /\ Ended("read_ok") = 0 /\ Ended("read_end") = net.reads
        /\ Ended("read_error") = 0 /\ Ended("fire_read") = 0 /\ Ended("close") = 0
        /\ Ended("write_end") = Len(net.writes)
    BY DEF Ended
  <2>4. /\ queue' \in ClientQueues
        /\ Many("connected")' = Many("connected") + Ended("connected") - If(Kind = "connected")
        /\ Many("read_ok")' = Many("read_ok") + Ended("read_ok") - If(Kind = "read_ok")
        /\ Many("read_end")' = Many("read_end") + Ended("read_end") - If(Kind = "read_end")
        /\ Many("read_error")' = Many("read_error") + Ended("read_error") - If(Kind = "read_error")
        /\ Many("fire_read")' = Many("fire_read") + Ended("fire_read") - If(Kind = "fire_read")
        /\ Many("close")' = Many("close") + Ended("close") - If(Kind = "close")
        /\ Many("write_end")' = Many("write_end") + Ended("write_end") - If(Kind = "write_end")
    BY <2>1
  <2> QED
    BY <1>e, <1>n, <2>2, <2>3, <2>4, SMTT(40) DEF If
<1>f. /\ Place' = "idle" /\ pc'["acc"] = pc["acc"]
      /\ s'.reading = s.reading
      /\ s'.close_flag = s.close_flag
      /\ s'.work_read_count = s.work_read_count
      /\ s'.rbuf = s.rbuf
      /\ s'.notify = s.notify
      /\ s'.high_water = s.high_water
      /\ s.rbuf \in Nat /\ net.reads \in Nat /\ s.work_read_count \in Int
      /\ s.high_water \in Nat /\ frame \in Nat
      /\ frame' = frame /\ turn' = turn
      /\ net'.reads = 0
      /\ env'.peer = env.peer
      /\ user_closed' = user_closed
  BY <1>e, <1>x DEF ClientTyped, ClientMembers, ClientSockets, Place
<1>1. ClientTyped'
  <2>1. s' \in ClientMembers
    BY <1>x DEF ClientTyped
  <2>2. pc' \in [{"io", "acc"} -> Labels]
    BY <1>e, <1>x DEF ClientTyped, Labels
  <2>3. /\ net' \in ClientSockets /\ env' \in ClientOutside /\ life' \in ClientLives
        /\ queue' \in ClientQueues /\ in_handler' \in BOOLEAN
    <3>1. net \in ClientSockets /\ <<>> \in Seq(Int)
      BY DEF ClientTyped
    <3>2. net' \in ClientSockets
      BY <1>x, <3>1 DEF ClientSockets
    <3> QED
      BY <1>x, <1>q, <3>2 DEF ClientTyped
  <2> QED
    BY <1>x, <2>1, <2>2, <2>3 DEF ClientTyped
<1>2. ThreadPlaces' /\ UserPlaces'
  BY <1>e, <1>x, <1>n, <1>q, <1>f
  DEF ThreadPlaces, UserPlaces
<1>3. OneRight'
  <2>1. /\ Attempt' = Attempt
        /\ Starter' = 0
        /\ net'.reads = 0
        /\ Handled' = 0
        /\ Many("read_error")' = Many("read_error")
        /\ Notifier' = Notifier
    <3>1. Attempt' = Attempt
      BY <1>f DEF Attempt, If
    <3>2. Notifier' = Notifier
      BY <1>e, <1>q, <1>f
      DEF Resumed, Notifier, If
    <3>3. Starter' = 0 /\ Handled' = 0
      BY <1>f
      DEF Starter, Handled, If
    <3>4. Many("read_error")' = Many("read_error")
      BY <1>e, <1>n, <1>q DEF If
    <3> QED
      BY <1>f, <3>1, <3>2, <3>3, <3>4
  <2>2. /\ Waits("connected")' = Waits("connected")
        /\ Waits("read_ok")' = Waits("read_ok")
        /\ Waits("read_end")' = Waits("read_end") + net.reads
    BY <1>e, <1>n, <1>q, <1>f
    DEF Waits, If
  <2>3. OneRight
    BY DEF ClientInv
  <2> QED
    BY <2>1, <2>2, <2>3, Rights DEF OneRight
<1>4. FlagClear'
  <2>1. /\ Waits("read_ok")' = Waits("read_ok")
        /\ Waits("read_end")' = Waits("read_end") + net.reads
        /\ Many("read_error")' = Many("read_error")
    BY <1>e, <1>n, <1>q, <1>f DEF Waits, If
  <2> QED
    BY <1>e, <1>f, <1>q, <2>1 DEF FlagClear
<1>5. CountTrue'
  BY <1>e, <1>x, <1>n, <1>q, <1>f
  DEF ThreadPlaces, CountTrue, Out, If
<1>6. NothingYet' /\ EndKnown'
  <2>1. NothingYet'
    BY <1>e, <1>n, <1>q, <1>f DEF NothingYet, Connecting, Waits, If
  <2>2. EndKnown'
    BY <1>e, <1>f DEF EndKnown
  <2> QED
    BY <2>1, <2>2
<1>7. Over'
  BY <1>e, <1>x, <1>n, <1>q, <1>f
  DEF Over, Silent, Connecting, Waits, Starter, If
<1>8. ArmTrue' /\ ReadComing' /\ DecodeComing'
  BY <1>e, <1>x, <1>n, <1>q, <1>f
  DEF ThreadPlaces, ArmTrue, ReadComing, DecodeComing, Stays, FlagClear, EndKnown, Waits, If
<1> QED
  BY <1>1, <1>2, <1>3, <1>4, <1>5, <1>6, <1>7, <1>8

(* read() begins a read,                                                   *)
LEMMA ReadBegins ==
    ASSUME ClientInv, Fixed, ReadStart("io"), net.sock # "closed"
    PROVE  ClientInv'
<1> USE ClientThreads DEF ClientInv
<1>p. AfterRead("io") = IF Kind = "fire_read" THEN "clear1"
                        ELSE IF Kind = "connected" THEN "started" ELSE "postRead"
  BY DEF AfterRead, Runs, Kind, Line
<1>e. /\ Place = "readStart" /\ Kind \in {"read_ok", "connected", "fire_read"}
      /\ s.reading = TRUE
      /\ Kind = "fire_read" => in_handler
  BY DEF ReadStart, Place, ThreadPlaces, FlagClear, ClientTyped, ClientMembers
<1>x. /\ queue' = queue /\ net' = [net EXCEPT !.reads = @ + 1]
      /\ pc' = [pc EXCEPT !["io"] = (IF Kind = "fire_read" THEN "clear1"
                                  ELSE IF Kind = "connected" THEN "started" ELSE "postRead")]
      /\ in_handler' = in_handler
      /\ UNCHANGED <<s, env, life, frame, turn, user_closed>>
  BY <1>p DEF ReadStart, StartRead, Go, Fixed
<1>n. /\ Many("connected") \in Nat
      /\ Many("read_ok") \in Nat
      /\ Many("read_end") \in Nat
      /\ Many("read_error") \in Nat
      /\ Many("fire_read") \in Nat
      /\ Many("close") \in Nat
      /\ Many("write_end") \in Nat
      /\ Kind = "connected" => Many("connected") >= 1
      /\ Kind = "read_ok" => Many("read_ok") >= 1
      /\ Kind = "read_end" => Many("read_end") >= 1
      /\ Kind = "fire_read" => Many("fire_read") >= 1
      /\ Kind = "close" => Many("close") >= 1
      /\ Kind = "write_end" => Many("write_end") >= 1
  BY HeadCounted
<1>q. /\ queue' \in ClientQueues /\ Kind' = Kind
      /\ Many("connected")' = Many("connected")
      /\ Many("read_ok")' = Many("read_ok")
      /\ Many("read_end")' = Many("read_end")
      /\ Many("read_error")' = Many("read_error")
      /\ Many("fire_read")' = Many("fire_read")
      /\ Many("close")' = Many("close")
      /\ Many("write_end")' = Many("write_end")
  <2>1. Kind' = Kind /\ \A op : Many(op)' = Many(op)
    BY <1>x, QueueLeft
  <2> QED
    BY <1>x, <2>1 DEF ClientTyped
<1>f. /\ Place' = (IF Kind = "fire_read" THEN "clear1"
                   ELSE IF Kind = "connected" THEN "started" ELSE "postRead")
      /\ pc'["acc"] = pc["acc"]
      /\ s'.reading = s.reading
      /\ s'.close_flag = s.close_flag
      /\ s'.work_read_count = s.work_read_count
      /\ s'.rbuf = s.rbuf
      /\ s'.notify = s.notify
      /\ s'.high_water = s.high_water
      /\ s.rbuf \in Nat /\ net.reads \in Nat /\ s.work_read_count \in Int
      /\ s.high_water \in Nat /\ frame \in Nat
      /\ frame' = frame /\ turn' = turn
      /\ net'.reads = net.reads + 1
      /\ env'.peer = env.peer
      /\ user_closed' = user_closed
  BY <1>e, <1>x DEF ClientTyped, ClientMembers, ClientSockets, Place
<1>1. ClientTyped'
  <2>1. s' \in ClientMembers
    BY <1>x DEF ClientTyped
  <2>2. pc' \in [{"io", "acc"} -> Labels]
    BY <1>e, <1>x DEF ClientTyped, Labels
  <2>3. /\ net' \in ClientSockets /\ env' \in ClientOutside /\ life' \in ClientLives
        /\ queue' \in ClientQueues /\ in_handler' \in BOOLEAN
    <3>1. net \in ClientSockets
      BY DEF ClientTyped
    <3>2. net' \in ClientSockets
      BY <1>x, <3>1, SMTT(40) DEF ClientSockets
    <3> QED
      BY <1>x, <1>q, <3>2 DEF ClientTyped
  <2> QED
    BY <1>x, <2>1, <2>2, <2>3 DEF ClientTyped
<1>2. ThreadPlaces' /\ UserPlaces'
  BY <1>e, <1>x, <1>n, <1>q, <1>f
  DEF ThreadPlaces, UserPlaces
<1>3. OneRight'
  BY <1>e, <1>x, <1>n, <1>q, <1>f
  DEF ThreadPlaces, OneRight, Waits, Handled, Starter, Resumed, Notifier, Attempt, If
<1>4. FlagClear'
  BY <1>e, <1>x, <1>n, <1>q, <1>f
  DEF ThreadPlaces, FlagClear, Waits, If
<1>5. CountTrue'
  BY <1>e, <1>x, <1>n, <1>q, <1>f
  DEF ThreadPlaces, CountTrue, Out, If
<1>6. NothingYet' /\ EndKnown'
  BY <1>e, <1>x, <1>n, <1>q, <1>f
  DEF ThreadPlaces, NothingYet, EndKnown, Connecting, Waits, If
<1>7. Over'
  BY <1>e, <1>x, <1>n, <1>q, <1>f
  DEF ThreadPlaces, Over, Silent, Connecting, CountTrue, Out, Waits, Starter, If
<1>8. ArmTrue' /\ ReadComing' /\ DecodeComing'
  BY <1>e, <1>x, <1>n, <1>q, <1>f
  DEF ThreadPlaces, ArmTrue, ReadComing, DecodeComing, Stays, FlagClear, EndKnown, Waits, If
<1> QED
  BY <1>1, <1>2, <1>3, <1>4, <1>5, <1>6, <1>7, <1>8

(* which fails on a closed socket.                                         *)
LEMMA ReadFails ==
    ASSUME ClientInv, Fixed, ReadStart("io"), net.sock = "closed"
    PROVE  ClientInv'
<1> USE ClientThreads DEF ClientInv
<1>a. Task("read_error", 0) \in Tasks /\ Task("read_error", 0).op = "read_error"
  BY DEF Task, Tasks, Ops
<1>p. AfterRead("io") = IF Kind = "fire_read" THEN "clear1"
                        ELSE IF Kind = "connected" THEN "started" ELSE "postRead"
  BY DEF AfterRead, Runs, Kind, Line
<1>e. /\ Place = "readStart" /\ Kind \in {"read_ok", "connected", "fire_read"}
      /\ s.reading = TRUE
      /\ Kind = "fire_read" => in_handler
  BY DEF ReadStart, Place, ThreadPlaces, FlagClear, ClientTyped, ClientMembers
<1>x. /\ queue' = Post(queue, "io", Task("read_error", 0)) /\ net' = net
      /\ pc' = [pc EXCEPT !["io"] = (IF Kind = "fire_read" THEN "clear1"
                                  ELSE IF Kind = "connected" THEN "started" ELSE "postRead")]
      /\ in_handler' = in_handler
      /\ UNCHANGED <<s, env, life, frame, turn, user_closed>>
  BY <1>p DEF ReadStart, StartRead, Go, Fixed
<1>n. /\ Many("connected") \in Nat
      /\ Many("read_ok") \in Nat
      /\ Many("read_end") \in Nat
      /\ Many("read_error") \in Nat
      /\ Many("fire_read") \in Nat
      /\ Many("close") \in Nat
      /\ Many("write_end") \in Nat
      /\ Kind = "connected" => Many("connected") >= 1
      /\ Kind = "read_ok" => Many("read_ok") >= 1
      /\ Kind = "read_end" => Many("read_end") >= 1
      /\ Kind = "fire_read" => Many("fire_read") >= 1
      /\ Kind = "close" => Many("close") >= 1
      /\ Kind = "write_end" => Many("write_end") >= 1
  BY HeadCounted
<1>q. /\ queue' \in ClientQueues /\ Kind' = Kind
      /\ Many("connected")' = Many("connected")
      /\ Many("read_ok")' = Many("read_ok")
      /\ Many("read_end")' = Many("read_end")
      /\ Many("read_error")' = Many("read_error") + 1
      /\ Many("fire_read")' = Many("fire_read")
      /\ Many("close")' = Many("close")
      /\ Many("write_end")' = Many("write_end")
  <2>1. /\ queue' \in ClientQueues /\ (Kind # "none" => Kind' = Kind)
        /\ \A op : Many(op)' = Many(op) + If(Task("read_error", 0).op = op)
    BY <1>e, <1>x, <1>a, Posted
  <2> QED
    BY <1>e, <1>n, <2>1, <1>a DEF If
<1>f. /\ Place' = (IF Kind = "fire_read" THEN "clear1"
                   ELSE IF Kind = "connected" THEN "started" ELSE "postRead")
      /\ pc'["acc"] = pc["acc"]
      /\ s'.reading = s.reading
      /\ s'.close_flag = s.close_flag
      /\ s'.work_read_count = s.work_read_count
      /\ s'.rbuf = s.rbuf
      /\ s'.notify = s.notify
      /\ s'.high_water = s.high_water
      /\ s.rbuf \in Nat /\ net.reads \in Nat /\ s.work_read_count \in Int
      /\ s.high_water \in Nat /\ frame \in Nat
      /\ frame' = frame /\ turn' = turn
      /\ net'.reads = net.reads
      /\ env'.peer = env.peer
      /\ user_closed' = user_closed
  BY <1>e, <1>x DEF ClientTyped, ClientMembers, ClientSockets, Place
<1>1. ClientTyped'
  <2>1. s' \in ClientMembers
    BY <1>x DEF ClientTyped
  <2>2. pc' \in [{"io", "acc"} -> Labels]
    BY <1>e, <1>x DEF ClientTyped, Labels
  <2>3. /\ net' \in ClientSockets /\ env' \in ClientOutside /\ life' \in ClientLives
        /\ queue' \in ClientQueues /\ in_handler' \in BOOLEAN
    BY <1>x, <1>q DEF ClientTyped
  <2> QED
    BY <1>x, <2>1, <2>2, <2>3 DEF ClientTyped
<1>2. ThreadPlaces' /\ UserPlaces'
  BY <1>e, <1>x, <1>n, <1>q, <1>f
  DEF ThreadPlaces, UserPlaces
<1>3. OneRight'
  BY <1>e, <1>x, <1>n, <1>q, <1>f
  DEF ThreadPlaces, OneRight, Waits, Handled, Starter, Resumed, Notifier, Attempt, If
<1>4. FlagClear'
  BY <1>e, <1>x, <1>n, <1>q, <1>f
  DEF ThreadPlaces, FlagClear, Waits, If
<1>5. CountTrue'
  BY <1>e, <1>x, <1>n, <1>q, <1>f
  DEF ThreadPlaces, CountTrue, Out, If
<1>6. NothingYet' /\ EndKnown'
  BY <1>e, <1>x, <1>n, <1>q, <1>f
  DEF ThreadPlaces, NothingYet, EndKnown, Connecting, Waits, If
<1>7. Over'
  BY <1>e, <1>x, <1>n, <1>q, <1>f
  DEF ThreadPlaces, Over, Silent, Connecting, CountTrue, Out, Waits, Starter, If
<1>8. ArmTrue' /\ ReadComing' /\ DecodeComing'
  BY <1>e, <1>x, <1>n, <1>q, <1>f
  DEF ThreadPlaces, ArmTrue, ReadComing, DecodeComing, Stays, FlagClear, EndKnown, Waits, If
<1> QED
  BY <1>1, <1>2, <1>3, <1>4, <1>5, <1>6, <1>7, <1>8

(* The thread of the user, on its way through close().                     *)
LEMMA UserMoves ==
    ASSUME ClientInv, Fixed,
           UNCHANGED <<s, net, env, life>>, NEW l, Goto("acc", l), pc["acc"] # "idle",
           \/ l = "idle"
           \/ l \in {"cnCount", "cnReading", "cnCancel"} /\ s.close_flag
    PROVE  ClientInv'
<1> USE ClientThreads DEF ClientInv
<1>e. /\ user_closed = TRUE
      /\ l \in Labels /\ l \in {"idle", "cnCount", "cnReading", "cnCancel"}
      /\ l # "idle" => s.close_flag
  BY DEF UserPlaces, ClientTyped, Labels
<1>x. /\ queue' = queue /\ pc' = [pc EXCEPT !["acc"] = l] /\ in_handler' = in_handler
      /\ UNCHANGED <<s, net, env, life, frame, turn, user_closed>>
  BY DEF Goto, Go, Fixed
<1>n. /\ Many("connected") \in Nat
      /\ Many("read_ok") \in Nat
      /\ Many("read_end") \in Nat
      /\ Many("read_error") \in Nat
      /\ Many("fire_read") \in Nat
      /\ Many("close") \in Nat
      /\ Many("write_end") \in Nat
      /\ Kind = "connected" => Many("connected") >= 1
      /\ Kind = "read_ok" => Many("read_ok") >= 1
      /\ Kind = "read_end" => Many("read_end") >= 1
      /\ Kind = "fire_read" => Many("fire_read") >= 1
      /\ Kind = "close" => Many("close") >= 1
      /\ Kind = "write_end" => Many("write_end") >= 1
  BY HeadCounted
<1>q. /\ queue' \in ClientQueues /\ Kind' = Kind
      /\ Many("connected")' = Many("connected")
      /\ Many("read_ok")' = Many("read_ok")
      /\ Many("read_end")' = Many("read_end")
      /\ Many("read_error")' = Many("read_error")
      /\ Many("fire_read")' = Many("fire_read")
      /\ Many("close")' = Many("close")
      /\ Many("write_end")' = Many("write_end")
  <2>1. Kind' = Kind /\ \A op : Many(op)' = Many(op)
    BY <1>x, QueueLeft
  <2> QED
    BY <1>x, <2>1 DEF ClientTyped
<1>f. /\ Place' = Place /\ pc'["acc"] = l
      /\ s'.reading = s.reading
      /\ s'.close_flag = s.close_flag
      /\ s'.work_read_count = s.work_read_count
      /\ s'.rbuf = s.rbuf
      /\ s'.notify = s.notify
      /\ s'.high_water = s.high_water
      /\ s.rbuf \in Nat /\ net.reads \in Nat /\ s.work_read_count \in Int
      /\ s.high_water \in Nat /\ frame \in Nat
      /\ frame' = frame /\ turn' = turn
      /\ env'.peer = env.peer
      /\ user_closed' = user_closed
  BY <1>e, <1>x DEF ClientTyped, ClientMembers, ClientSockets, Place
<1>1. ClientTyped'
  <2>1. s' \in ClientMembers
    BY <1>x DEF ClientTyped
  <2>2. pc' \in [{"io", "acc"} -> Labels]
    BY <1>e, <1>x DEF ClientTyped, Labels
  <2>3. /\ net' \in ClientSockets /\ env' \in ClientOutside /\ life' \in ClientLives
        /\ queue' \in ClientQueues /\ in_handler' \in BOOLEAN
    BY <1>x, <1>q DEF ClientTyped
  <2> QED
    BY <1>x, <2>1, <2>2, <2>3 DEF ClientTyped
<1>2. ThreadPlaces' /\ UserPlaces'
  BY <1>e, <1>x, <1>n, <1>q, <1>f
  DEF ThreadPlaces, UserPlaces
<1>3. OneRight'
  BY <1>e, <1>x, <1>n, <1>q, <1>f
  DEF ThreadPlaces, OneRight, Waits, Handled, Starter, Resumed, Notifier, Attempt, If
<1>4. FlagClear'
  BY <1>e, <1>x, <1>n, <1>q, <1>f
  DEF ThreadPlaces, FlagClear, Waits, If
<1>5. CountTrue'
  BY <1>e, <1>x, <1>n, <1>q, <1>f
  DEF ThreadPlaces, CountTrue, Out, If
<1>6. NothingYet' /\ EndKnown'
  BY <1>e, <1>x, <1>n, <1>q, <1>f
  DEF ThreadPlaces, NothingYet, EndKnown, Connecting, Waits, If
<1>7. Over'
  BY <1>e, <1>x, <1>n, <1>q, <1>f
  DEF ThreadPlaces, Over, Silent, Connecting, CountTrue, Out, Waits, Starter, If
<1>8. ArmTrue' /\ ReadComing' /\ DecodeComing'
  BY <1>e, <1>x, <1>n, <1>q, <1>f
  DEF ThreadPlaces, ArmTrue, ReadComing, DecodeComing, Stays, FlagClear, EndKnown, Waits, If
<1> QED
  BY <1>1, <1>2, <1>3, <1>4, <1>5, <1>6, <1>7, <1>8

(* It begins.                                                              *)
LEMMA UserClosesCounts ==
    ASSUME ClientInv, UserCloses, user_closed' = TRUE, UNCHANGED <<frame, turn>>
    PROVE  ClientInv'
<1> USE ClientThreads DEF ClientInv
<1>e. /\ pc["acc"] = "idle"
  BY DEF UserCloses
<1>x. /\ queue' = queue /\ pc' = [pc EXCEPT !["acc"] = "idleClose"] /\ in_handler' = in_handler
      /\ user_closed' = TRUE
      /\ UNCHANGED <<s, net, env, life, frame, turn>>
  BY DEF UserCloses, Goto, Go
<1>n. /\ Many("connected") \in Nat
      /\ Many("read_ok") \in Nat
      /\ Many("read_end") \in Nat
      /\ Many("read_error") \in Nat
      /\ Many("fire_read") \in Nat
      /\ Many("close") \in Nat
      /\ Many("write_end") \in Nat
      /\ Kind = "connected" => Many("connected") >= 1
      /\ Kind = "read_ok" => Many("read_ok") >= 1
      /\ Kind = "read_end" => Many("read_end") >= 1
      /\ Kind = "fire_read" => Many("fire_read") >= 1
      /\ Kind = "close" => Many("close") >= 1
      /\ Kind = "write_end" => Many("write_end") >= 1
  BY HeadCounted
<1>q. /\ queue' \in ClientQueues /\ Kind' = Kind
      /\ Many("connected")' = Many("connected")
      /\ Many("read_ok")' = Many("read_ok")
      /\ Many("read_end")' = Many("read_end")
      /\ Many("read_error")' = Many("read_error")
      /\ Many("fire_read")' = Many("fire_read")
      /\ Many("close")' = Many("close")
      /\ Many("write_end")' = Many("write_end")
  <2>1. Kind' = Kind /\ \A op : Many(op)' = Many(op)
    BY <1>x, QueueLeft
  <2> QED
    BY <1>x, <2>1 DEF ClientTyped
<1>f. /\ Place' = Place /\ pc'["acc"] = "idleClose"
      /\ s'.reading = s.reading
      /\ s'.close_flag = s.close_flag
      /\ s'.work_read_count = s.work_read_count
      /\ s'.rbuf = s.rbuf
      /\ s'.notify = s.notify
      /\ s'.high_water = s.high_water
      /\ s.rbuf \in Nat /\ net.reads \in Nat /\ s.work_read_count \in Int
      /\ s.high_water \in Nat /\ frame \in Nat
      /\ frame' = frame /\ turn' = turn
      /\ env'.peer = env.peer
  BY <1>e, <1>x DEF ClientTyped, ClientMembers, ClientSockets, Place
<1>1. ClientTyped'
  <2>1. s' \in ClientMembers
    BY <1>x DEF ClientTyped
  <2>2. pc' \in [{"io", "acc"} -> Labels]
    BY <1>e, <1>x DEF ClientTyped, Labels
  <2>3. /\ net' \in ClientSockets /\ env' \in ClientOutside /\ life' \in ClientLives
        /\ queue' \in ClientQueues /\ in_handler' \in BOOLEAN
    BY <1>x, <1>q DEF ClientTyped
  <2> QED
    BY <1>x, <2>1, <2>2, <2>3 DEF ClientTyped
<1>2. ThreadPlaces' /\ UserPlaces'
  BY <1>e, <1>x, <1>n, <1>q, <1>f
  DEF ThreadPlaces, UserPlaces
<1>3. OneRight'
  BY <1>e, <1>x, <1>n, <1>q, <1>f
  DEF ThreadPlaces, OneRight, Waits, Handled, Starter, Resumed, Notifier, Attempt, If
<1>4. FlagClear'
  BY <1>e, <1>x, <1>n, <1>q, <1>f
  DEF ThreadPlaces, FlagClear, Waits, If
<1>5. CountTrue'
  BY <1>e, <1>x, <1>n, <1>q, <1>f
  DEF ThreadPlaces, CountTrue, Out, If
<1>6. NothingYet' /\ EndKnown'
  BY <1>e, <1>x, <1>n, <1>q, <1>f
  DEF ThreadPlaces, NothingYet, EndKnown, Connecting, Waits, If
<1>7. Over'
  BY <1>e, <1>x, <1>n, <1>q, <1>f
  DEF ThreadPlaces, Over, Silent, Connecting, CountTrue, Out, Waits, Starter, If
<1>8. ArmTrue' /\ ReadComing' /\ DecodeComing'
  BY <1>e, <1>x, <1>n, <1>q, <1>f
  DEF ThreadPlaces, ArmTrue, ReadComing, DecodeComing, Stays, FlagClear, EndKnown, Waits, If
<1> QED
  BY <1>1, <1>2, <1>3, <1>4, <1>5, <1>6, <1>7, <1>8

(* close_flag_ is set,                                                     *)
LEMMA IdleCloseCounts ==
    ASSUME ClientInv, Fixed, IdleClose
    PROVE  ClientInv'
<1> USE ClientThreads DEF ClientInv
<1>e. /\ user_closed = TRUE
  BY DEF UserPlaces, ClientTyped, IdleClose
<1>x. /\ s' = [s EXCEPT !.close_flag = TRUE]
      /\ queue' = queue /\ pc' = [pc EXCEPT !["acc"] = "cnFlag"] /\ in_handler' = in_handler
      /\ UNCHANGED <<net, env, life, frame, turn, user_closed>>
  BY DEF IdleClose, Goto, Go, Fixed
<1>n. /\ Many("connected") \in Nat
      /\ Many("read_ok") \in Nat
      /\ Many("read_end") \in Nat
      /\ Many("read_error") \in Nat
      /\ Many("fire_read") \in Nat
      /\ Many("close") \in Nat
      /\ Many("write_end") \in Nat
      /\ Kind = "connected" => Many("connected") >= 1
      /\ Kind = "read_ok" => Many("read_ok") >= 1
      /\ Kind = "read_end" => Many("read_end") >= 1
      /\ Kind = "fire_read" => Many("fire_read") >= 1
      /\ Kind = "close" => Many("close") >= 1
      /\ Kind = "write_end" => Many("write_end") >= 1
  BY HeadCounted
<1>q. /\ queue' \in ClientQueues /\ Kind' = Kind
      /\ Many("connected")' = Many("connected")
      /\ Many("read_ok")' = Many("read_ok")
      /\ Many("read_end")' = Many("read_end")
      /\ Many("read_error")' = Many("read_error")
      /\ Many("fire_read")' = Many("fire_read")
      /\ Many("close")' = Many("close")
      /\ Many("write_end")' = Many("write_end")
  <2>1. Kind' = Kind /\ \A op : Many(op)' = Many(op)
    BY <1>x, QueueLeft
  <2> QED
    BY <1>x, <2>1 DEF ClientTyped
<1>f. /\ Place' = Place /\ pc'["acc"] = "cnFlag"
      /\ s'.reading = s.reading
      /\ s'.close_flag = TRUE
      /\ s'.work_read_count = s.work_read_count
      /\ s'.rbuf = s.rbuf
      /\ s'.notify = s.notify
      /\ s'.high_water = s.high_water
      /\ s.rbuf \in Nat /\ net.reads \in Nat /\ s.work_read_count \in Int
      /\ s.high_water \in Nat /\ frame \in Nat
      /\ frame' = frame /\ turn' = turn
      /\ env'.peer = env.peer
      /\ user_closed' = user_closed
  BY <1>e, <1>x DEF ClientTyped, ClientMembers, ClientSockets, Place
<1>1. ClientTyped'
  <2>1. s' \in ClientMembers
    <3>1. s \in ClientMembers
      BY DEF ClientTyped
    <3> QED
      BY <1>e, <1>x, <3>1 DEF ClientMembers
  <2>2. pc' \in [{"io", "acc"} -> Labels]
    BY <1>e, <1>x DEF ClientTyped, Labels
  <2>3. /\ net' \in ClientSockets /\ env' \in ClientOutside /\ life' \in ClientLives
        /\ queue' \in ClientQueues /\ in_handler' \in BOOLEAN
    BY <1>x, <1>q DEF ClientTyped
  <2> QED
    BY <1>x, <2>1, <2>2, <2>3 DEF ClientTyped
<1>2. ThreadPlaces' /\ UserPlaces'
  BY <1>e, <1>x, <1>n, <1>q, <1>f
  DEF ThreadPlaces, UserPlaces
<1>3. OneRight'
  BY <1>e, <1>x, <1>n, <1>q, <1>f
  DEF ThreadPlaces, OneRight, Waits, Handled, Starter, Resumed, Notifier, Attempt, If
<1>4. FlagClear'
  BY <1>e, <1>x, <1>n, <1>q, <1>f
  DEF ThreadPlaces, FlagClear, Waits, If
<1>5. CountTrue'
  BY <1>e, <1>x, <1>n, <1>q, <1>f
  DEF ThreadPlaces, CountTrue, Out, If
<1>6. NothingYet' /\ EndKnown'
  BY <1>e, <1>x, <1>n, <1>q, <1>f
  DEF ThreadPlaces, NothingYet, EndKnown, Connecting, Waits, If
<1>7. Over'
  BY <1>e, <1>x, <1>n, <1>q, <1>f
  DEF ThreadPlaces, Over, Silent, Connecting, CountTrue, Out, Waits, Starter, If
<1>8. ArmTrue' /\ ReadComing' /\ DecodeComing'
  BY <1>e, <1>x, <1>n, <1>q, <1>f
  DEF ThreadPlaces, ArmTrue, ReadComing, DecodeComing, Stays, FlagClear, EndKnown, Waits, If
<1> QED
  BY <1>1, <1>2, <1>3, <1>4, <1>5, <1>6, <1>7, <1>8

(* the close is posted                                                     *)
LEMMA UserPosts ==
    ASSUME ClientInv, Fixed, UNCHANGED <<s, net, env, life>>, pc["acc"] = "cnReading",
           Return("acc", Post(queue, "io", Task("close", 0)))
    PROVE  ClientInv'
<1> USE ClientThreads DEF ClientInv
<1>a. Task("close", 0) \in Tasks /\ Task("close", 0).op = "close"
  BY DEF Task, Tasks, Ops
<1>e. /\ user_closed = TRUE /\ s.close_flag = TRUE
  BY DEF UserPlaces, ClientTyped, ClientMembers
<1>x. /\ queue' = Post(queue, "io", Task("close", 0))
      /\ pc' = [pc EXCEPT !["acc"] = "idle"] /\ in_handler' = in_handler
      /\ UNCHANGED <<s, net, env, life, frame, turn, user_closed>>
  BY DEF Return, Go, Fixed
<1>n. /\ Many("connected") \in Nat
      /\ Many("read_ok") \in Nat
      /\ Many("read_end") \in Nat
      /\ Many("read_error") \in Nat
      /\ Many("fire_read") \in Nat
      /\ Many("close") \in Nat
      /\ Many("write_end") \in Nat
      /\ Kind = "connected" => Many("connected") >= 1
      /\ Kind = "read_ok" => Many("read_ok") >= 1
      /\ Kind = "read_end" => Many("read_end") >= 1
      /\ Kind = "fire_read" => Many("fire_read") >= 1
      /\ Kind = "close" => Many("close") >= 1
      /\ Kind = "write_end" => Many("write_end") >= 1
  BY HeadCounted
<1>q. /\ queue' \in ClientQueues /\ (Place # "idle" => Kind' = Kind)
      /\ Many("connected")' = Many("connected")
      /\ Many("read_ok")' = Many("read_ok")
      /\ Many("read_end")' = Many("read_end")
      /\ Many("read_error")' = Many("read_error")
      /\ Many("fire_read")' = Many("fire_read")
      /\ Many("close")' = Many("close") + 1
      /\ Many("write_end")' = Many("write_end")
  <2>1. /\ queue' \in ClientQueues /\ (Kind # "none" => Kind' = Kind)
        /\ \A op : Many(op)' = Many(op) + If(Task("close", 0).op = op)
    BY <1>e, <1>x, <1>a, Posted
  <2>2. Kind = "none" => Place = "idle"
    BY DEF ThreadPlaces
  <2> QED
    BY <2>2, <1>e, <1>n, <2>1, <1>a DEF If
<1>f. /\ Place' = Place /\ pc'["acc"] = "idle"
      /\ s'.reading = s.reading
      /\ s'.close_flag = s.close_flag
      /\ s'.work_read_count = s.work_read_count
      /\ s'.rbuf = s.rbuf
      /\ s'.notify = s.notify
      /\ s'.high_water = s.high_water
      /\ s.rbuf \in Nat /\ net.reads \in Nat /\ s.work_read_count \in Int
      /\ s.high_water \in Nat /\ frame \in Nat
      /\ frame' = frame /\ turn' = turn
      /\ env'.peer = env.peer
      /\ user_closed' = user_closed
  BY <1>e, <1>x DEF ClientTyped, ClientMembers, ClientSockets, Place
<1>1. ClientTyped'
  <2>1. s' \in ClientMembers
    BY <1>x DEF ClientTyped
  <2>2. pc' \in [{"io", "acc"} -> Labels]
    BY <1>e, <1>x DEF ClientTyped, Labels
  <2>3. /\ net' \in ClientSockets /\ env' \in ClientOutside /\ life' \in ClientLives
        /\ queue' \in ClientQueues /\ in_handler' \in BOOLEAN
    BY <1>x, <1>q DEF ClientTyped
  <2> QED
    BY <1>x, <2>1, <2>2, <2>3 DEF ClientTyped
<1>2. ThreadPlaces' /\ UserPlaces'
  BY <1>e, <1>x, <1>n, <1>q, <1>f
  DEF ThreadPlaces, UserPlaces
<1>3. OneRight'
  BY <1>e, <1>x, <1>n, <1>q, <1>f
  DEF ThreadPlaces, OneRight, Waits, Handled, Starter, Resumed, Notifier, Attempt, If
<1>4. FlagClear'
  BY <1>e, <1>x, <1>n, <1>q, <1>f
  DEF ThreadPlaces, FlagClear, Waits, If
<1>5. CountTrue'
  BY <1>e, <1>x, <1>n, <1>q, <1>f
  DEF ThreadPlaces, CountTrue, Out, If
<1>6. NothingYet' /\ EndKnown'
  BY <1>e, <1>x, <1>n, <1>q, <1>f
  DEF ThreadPlaces, NothingYet, EndKnown, Connecting, Waits, If
<1>7. Over'
  BY <1>e, <1>x, <1>n, <1>q, <1>f
  DEF ThreadPlaces, Over, Silent, Connecting, CountTrue, Out, Waits, Starter, If
<1>8. ArmTrue' /\ ReadComing' /\ DecodeComing'
  BY <1>e, <1>x, <1>n, <1>q, <1>f
  DEF ThreadPlaces, ArmTrue, ReadComing, DecodeComing, Stays, FlagClear, EndKnown, Waits, If
<1> QED
  BY <1>1, <1>2, <1>3, <1>4, <1>5, <1>6, <1>7, <1>8

(* or what is under way is cancelled.                                      *)
LEMMA UserCancels ==
    ASSUME ClientInv, Fixed, UNCHANGED <<s, env, life>>, pc["acc"] = "cnCancel", CancelAll("acc")
    PROVE  ClientInv'
<1> USE ClientThreads DEF ClientInv
<1>e. /\ user_closed = TRUE /\ s.close_flag = TRUE
  BY DEF UserPlaces, ClientTyped, ClientMembers
<1>x. /\ queue' = Aborted(queue)
      /\ pc' = [pc EXCEPT !["acc"] = "idle"] /\ in_handler' = in_handler
      /\ net' = [net EXCEPT !.reads = 0, !.writes = <<>>]
      /\ UNCHANGED <<s, env, life, frame, turn, user_closed>>
  BY DEF CancelAll, Return, Go, Fixed
<1>n. /\ Many("connected") \in Nat
      /\ Many("read_ok") \in Nat
      /\ Many("read_end") \in Nat
      /\ Many("read_error") \in Nat
      /\ Many("fire_read") \in Nat
      /\ Many("close") \in Nat
      /\ Many("write_end") \in Nat
      /\ Kind = "connected" => Many("connected") >= 1
      /\ Kind = "read_ok" => Many("read_ok") >= 1
      /\ Kind = "read_end" => Many("read_end") >= 1
      /\ Kind = "fire_read" => Many("fire_read") >= 1
      /\ Kind = "close" => Many("close") >= 1
      /\ Kind = "write_end" => Many("write_end") >= 1
  BY HeadCounted
<1>q. /\ queue' \in ClientQueues /\ (Place # "idle" => Kind' = Kind)
      /\ Many("connected")' = Many("connected")
      /\ Many("read_ok")' = Many("read_ok")
      /\ Many("read_end")' = Many("read_end") + net.reads
      /\ Many("read_error")' = Many("read_error")
      /\ Many("fire_read")' = Many("fire_read")
      /\ Many("close")' = Many("close")
      /\ Many("write_end")' = Many("write_end") + Len(net.writes)
      /\ net.reads \in Nat /\ Len(net.writes) \in Nat
  <2>1. /\ queue' \in ClientQueues /\ (Kind # "none" => Kind' = Kind)
        /\ \A op : Many(op)' = Many(op) + Ended(op)
    BY <1>e, <1>x, AbortedLeft
  <2>2. net.reads \in Nat /\ Len(net.writes) \in Nat
    BY Outstanding
  <2>3. /\ Ended("connected") = 0 /\ Ended("read_ok") = 0 /\ Ended("read_end") = net.reads
        /\ Ended("read_error") = 0 /\ Ended("fire_read") = 0 /\ Ended("close") = 0
        /\ Ended("write_end") = Len(net.writes)
    BY DEF Ended
  <2>4. /\ queue' \in ClientQueues /\ (Kind # "none" => Kind' = Kind)
        /\ Many("connected")' = Many("connected") + Ended("connected")
        /\ Many("read_ok")' = Many("read_ok") + Ended("read_ok")
        /\ Many("read_end")' = Many("read_end") + Ended("read_end")
        /\ Many("read_error")' = Many("read_error") + Ended("read_error")
        /\ Many("fire_read")' = Many("fire_read") + Ended("fire_read")
        /\ Many("close")' = Many("close") + Ended("close")
        /\ Many("write_end")' = Many("write_end") + Ended("write_end")
    BY <2>1
  <2>5. Kind = "none" => Place = "idle"
    BY DEF ThreadPlaces
  <2> QED
    BY <2>5, <1>e, <1>n, <2>2, <2>3, <2>4 DEF If
<1>f. /\ Place' = Place /\ pc'["acc"] = "idle"
      /\ s'.reading = s.reading
      /\ s'.close_flag = s.close_flag
      /\ s'.work_read_count = s.work_read_count
      /\ s'.rbuf = s.rbuf
      /\ s'.notify = s.notify
      /\ s'.high_water = s.high_water
      /\ s.rbuf \in Nat /\ net.reads \in Nat /\ s.work_read_count \in Int
      /\ s.high_water \in Nat /\ frame \in Nat
      /\ frame' = frame /\ turn' = turn
      /\ net'.reads = 0
      /\ env'.peer = env.peer
      /\ user_closed' = user_closed
  BY <1>e, <1>x DEF ClientTyped, ClientMembers, ClientSockets, Place
<1>1. ClientTyped'
  <2>1. s' \in ClientMembers
    BY <1>x DEF ClientTyped
  <2>2. pc' \in [{"io", "acc"} -> Labels]
    BY <1>e, <1>x DEF ClientTyped, Labels
  <2>3. /\ net' \in ClientSockets /\ env' \in ClientOutside /\ life' \in ClientLives
        /\ queue' \in ClientQueues /\ in_handler' \in BOOLEAN
    <3>1. net \in ClientSockets /\ <<>> \in Seq(Int)
      BY DEF ClientTyped
    <3>2. net' \in ClientSockets
      BY <1>x, <3>1 DEF ClientSockets
    <3> QED
      BY <1>x, <1>q, <3>2 DEF ClientTyped
  <2> QED
    BY <1>x, <2>1, <2>2, <2>3 DEF ClientTyped
<1>2. ThreadPlaces' /\ UserPlaces'
  BY <1>e, <1>x, <1>n, <1>q, <1>f, SMTT(40)
  DEF ThreadPlaces, UserPlaces
<1>3. OneRight'
  <2>1. /\ Attempt' = Attempt
        /\ Starter' = Starter
        /\ net'.reads = 0
        /\ Handled' = Handled
        /\ Many("read_error")' = Many("read_error")
        /\ Notifier' = Notifier
    <3>1. Attempt' = Attempt
      BY <1>f DEF Attempt, If
    <3>2. Notifier' = Notifier
      BY <1>e, <1>q, <1>f
      DEF Resumed, Notifier, If
    <3>3. Starter' = Starter /\ Handled' = Handled
      BY <1>e, <1>q, <1>f
      DEF Starter, Handled, If
    <3>4. Many("read_error")' = Many("read_error")
      BY <1>e, <1>n, <1>q DEF If
    <3> QED
      BY <1>f, <3>1, <3>2, <3>3, <3>4
  <2>2. /\ Waits("connected")' = Waits("connected")
        /\ Waits("read_ok")' = Waits("read_ok")
        /\ Waits("read_end")' = Waits("read_end") + net.reads
    BY <1>e, <1>n, <1>q, <1>f
    DEF Waits, If
  <2>3. OneRight
    BY DEF ClientInv
  <2> QED
    BY <2>1, <2>2, <2>3, Rights DEF OneRight
<1>4. FlagClear'
  BY <1>e, <1>x, <1>n, <1>q, <1>f
  DEF FlagClear, Waits, If
<1>5. CountTrue'
  BY <1>e, <1>x, <1>n, <1>q, <1>f
  DEF ThreadPlaces, CountTrue, Out, If
<1>6. NothingYet' /\ EndKnown'
  BY <1>e, <1>x, <1>n, <1>q, <1>f
  DEF ThreadPlaces, NothingYet, EndKnown, Connecting, Waits, If
<1>7. Over'
  BY <1>e, <1>x, <1>n, <1>q, <1>f
  DEF Over
<1>8. ArmTrue' /\ ReadComing' /\ DecodeComing'
  BY <1>e, <1>x, <1>n, <1>q, <1>f
  DEF ThreadPlaces, ArmTrue, ReadComing, DecodeComing, Stays, FlagClear, EndKnown, Waits, If
<1> QED
  BY <1>1, <1>2, <1>3, <1>4, <1>5, <1>6, <1>7, <1>8

(* Completions and tasks that no count is about are posted.                *)
LEMMA OtherArrives ==
    ASSUME ClientInv, Fixed,
           NEW t \in Tasks, t.op \in {"write_ok", "write_error", "append", "refused"},
           Completes(t), net' \in ClientSockets, net'.reads = net.reads,
           env' \in ClientOutside,
           \/ env'.peer = env.peer
           \/ env.peer = "none" /\ env'.peer = "refused" /\ t.op = "refused"
    PROVE  ClientInv'
<1> USE ClientThreads DEF ClientInv
<1>e. /\ t.op \in {"write_ok", "write_error", "append", "refused"} /\ t \in Tasks
      /\ net' \in ClientSockets /\ net'.reads = net.reads /\ env' \in ClientOutside
      /\ env'.peer = env.peer \/ (env.peer = "none" /\ env'.peer = "refused")
  OBVIOUS
<1>x. /\ queue' = Post(queue, "io", t)
      /\ pc' = [pc EXCEPT !["io"] = pc["io"]] /\ in_handler' = in_handler
      /\ UNCHANGED <<s, life, frame, turn, user_closed>>
  BY <1>e DEF Completes, Go, Fixed
<1>n. /\ Many("connected") \in Nat
      /\ Many("read_ok") \in Nat
      /\ Many("read_end") \in Nat
      /\ Many("read_error") \in Nat
      /\ Many("fire_read") \in Nat
      /\ Many("close") \in Nat
      /\ Many("write_end") \in Nat
      /\ Kind = "connected" => Many("connected") >= 1
      /\ Kind = "read_ok" => Many("read_ok") >= 1
      /\ Kind = "read_end" => Many("read_end") >= 1
      /\ Kind = "fire_read" => Many("fire_read") >= 1
      /\ Kind = "close" => Many("close") >= 1
      /\ Kind = "write_end" => Many("write_end") >= 1
  BY HeadCounted
<1>q. /\ queue' \in ClientQueues /\ (Place # "idle" => Kind' = Kind)
      /\ Many("connected")' = Many("connected")
      /\ Many("read_ok")' = Many("read_ok")
      /\ Many("read_end")' = Many("read_end")
      /\ Many("read_error")' = Many("read_error")
      /\ Many("fire_read")' = Many("fire_read")
      /\ Many("close")' = Many("close")
      /\ Many("write_end")' = Many("write_end")
  <2>1. /\ queue' \in ClientQueues /\ (Kind # "none" => Kind' = Kind)
        /\ \A op : Many(op)' = Many(op) + If(t.op = op)
    BY <1>e, <1>x, Posted
  <2>2. Kind = "none" => Place = "idle"
    BY DEF ThreadPlaces
  <2> QED
    BY <1>e, <1>n, <2>1, <2>2 DEF If
<1>f. /\ Place' = Place /\ pc'["acc"] = pc["acc"]
      /\ s'.reading = s.reading
      /\ s'.close_flag = s.close_flag
      /\ s'.work_read_count = s.work_read_count
      /\ s'.rbuf = s.rbuf
      /\ s'.notify = s.notify
      /\ s'.high_water = s.high_water
      /\ s.rbuf \in Nat /\ net.reads \in Nat /\ s.work_read_count \in Int
      /\ s.high_water \in Nat /\ frame \in Nat
      /\ frame' = frame /\ turn' = turn
      /\ env'.peer = env.peer \/ (env.peer = "none" /\ env'.peer = "refused")
      /\ user_closed' = user_closed
  BY <1>e, <1>x DEF ClientTyped, ClientMembers, ClientSockets, ClientOutside, Place
<1>1. ClientTyped'
  <2>1. s' \in ClientMembers
    BY <1>x DEF ClientTyped
  <2>2. pc' \in [{"io", "acc"} -> Labels]
    BY <1>e, <1>x DEF ClientTyped, Labels
  <2>3. /\ net' \in ClientSockets /\ env' \in ClientOutside /\ life' \in ClientLives
        /\ queue' \in ClientQueues /\ in_handler' \in BOOLEAN
    BY <1>e, <1>x, <1>q DEF ClientTyped
  <2> QED
    BY <1>x, <2>1, <2>2, <2>3 DEF ClientTyped
<1>2. ThreadPlaces' /\ UserPlaces'
  BY <1>e, <1>x, <1>n, <1>q, <1>f
  DEF ThreadPlaces, UserPlaces
<1>3. OneRight'
  <2>1. /\ Attempt' \in {0, 1} /\ Attempt' <= Attempt
        /\ Starter' = Starter
        /\ net'.reads = net.reads
        /\ Handled' = Handled
        /\ Many("read_error")' = Many("read_error")
        /\ Notifier' = Notifier
    BY <1>e, <1>q, <1>f
    DEF Starter, Handled, Resumed, Notifier, Attempt, If
  <2>2. /\ Waits("connected")' = Waits("connected")
        /\ Waits("read_ok")' = Waits("read_ok")
        /\ Waits("read_end")' = Waits("read_end")
    BY <1>e, <1>n, <1>q, <1>f
    DEF Waits, If
  <2>3. OneRight
    BY DEF ClientInv
  <2> QED
    BY <2>1, <2>2, <2>3, Rights DEF OneRight
<1>4. FlagClear'
  BY <1>e, <1>x, <1>n, <1>q, <1>f
  DEF ThreadPlaces, FlagClear, Waits, If
<1>5. CountTrue'
  BY <1>e, <1>x, <1>n, <1>q, <1>f
  DEF ThreadPlaces, CountTrue, Out, If
<1>6. NothingYet' /\ EndKnown'
  BY <1>e, <1>x, <1>n, <1>q, <1>f
  DEF ThreadPlaces, NothingYet, EndKnown, Connecting, Waits, If
<1>7. Over'
  BY <1>e, <1>x, <1>n, <1>q, <1>f
  DEF ThreadPlaces, Over, Silent, Connecting, CountTrue, Out, Waits, Starter, If
<1>8. ArmTrue' /\ ReadComing' /\ DecodeComing'
  BY <1>e, <1>x, <1>n, <1>q, <1>f
  DEF ThreadPlaces, ArmTrue, ReadComing, DecodeComing, Stays, FlagClear, EndKnown, Waits, If
<1> QED
  BY <1>1, <1>2, <1>3, <1>4, <1>5, <1>6, <1>7, <1>8

(* A read comes back,                                                      *)
LEMMA ReadArrives ==
    ASSUME ClientInv, Fixed,
           NEW t \in Tasks, t.op = "read_ok", Completes(t), net.reads > 0,
           net' = [net EXCEPT !.reads = @ - 1],
           env' \in ClientOutside, env'.peer = env.peer
    PROVE  ClientInv'
<1> USE ClientThreads DEF ClientInv
<1>e. /\ t.op = "read_ok" /\ t \in Tasks
      /\ net' = [net EXCEPT !.reads = @ - 1] /\ net.reads > 0
      /\ env' \in ClientOutside /\ env'.peer = env.peer
  OBVIOUS
<1>x. /\ queue' = Post(queue, "io", t)
      /\ pc' = [pc EXCEPT !["io"] = pc["io"]] /\ in_handler' = in_handler
      /\ UNCHANGED <<s, life, frame, turn, user_closed>>
  BY <1>e DEF Completes, Go, Fixed
<1>n. /\ Many("connected") \in Nat
      /\ Many("read_ok") \in Nat
      /\ Many("read_end") \in Nat
      /\ Many("read_error") \in Nat
      /\ Many("fire_read") \in Nat
      /\ Many("close") \in Nat
      /\ Many("write_end") \in Nat
      /\ Kind = "connected" => Many("connected") >= 1
      /\ Kind = "read_ok" => Many("read_ok") >= 1
      /\ Kind = "read_end" => Many("read_end") >= 1
      /\ Kind = "fire_read" => Many("fire_read") >= 1
      /\ Kind = "close" => Many("close") >= 1
      /\ Kind = "write_end" => Many("write_end") >= 1
  BY HeadCounted
<1>q. /\ queue' \in ClientQueues /\ (Place # "idle" => Kind' = Kind)
      /\ Many("connected")' = Many("connected")
      /\ Many("read_ok")' = Many("read_ok") + 1
      /\ Many("read_end")' = Many("read_end")
      /\ Many("read_error")' = Many("read_error")
      /\ Many("fire_read")' = Many("fire_read")
      /\ Many("close")' = Many("close")
      /\ Many("write_end")' = Many("write_end")
  <2>1. /\ queue' \in ClientQueues /\ (Kind # "none" => Kind' = Kind)
        /\ \A op : Many(op)' = Many(op) + If(t.op = op)
    BY <1>e, <1>x, Posted
  <2>2. Kind = "none" => Place = "idle"
    BY DEF ThreadPlaces
  <2> QED
    BY <1>e, <1>n, <2>1, <2>2 DEF If
<1>f. /\ Place' = Place /\ pc'["acc"] = pc["acc"]
      /\ s'.reading = s.reading
      /\ s'.close_flag = s.close_flag
      /\ s'.work_read_count = s.work_read_count
      /\ s'.rbuf = s.rbuf
      /\ s'.notify = s.notify
      /\ s'.high_water = s.high_water
      /\ s.rbuf \in Nat /\ net.reads \in Nat /\ s.work_read_count \in Int
      /\ s.high_water \in Nat /\ frame \in Nat
      /\ frame' = frame /\ turn' = turn
      /\ net'.reads = net.reads - 1
      /\ env'.peer = env.peer
      /\ user_closed' = user_closed
  BY <1>e, <1>x, SMTT(40) DEF ClientTyped, ClientMembers, ClientSockets, ClientOutside, Place
<1>1. ClientTyped'
  <2>1. s' \in ClientMembers
    BY <1>x DEF ClientTyped
  <2>2. pc' \in [{"io", "acc"} -> Labels]
    BY <1>e, <1>x DEF ClientTyped, Labels
  <2>3. /\ net' \in ClientSockets /\ env' \in ClientOutside /\ life' \in ClientLives
        /\ queue' \in ClientQueues /\ in_handler' \in BOOLEAN
    <3>1. net \in ClientSockets
      BY DEF ClientTyped
    <3>2. PICK m \in Nat : m = net.reads - 1
      BY <1>e, <3>1 DEF ClientSockets
    <3>3. net' = [net EXCEPT !.reads = m]
      BY <1>e, <3>2
    <3>4. net' \in ClientSockets
      BY <3>1, <3>3 DEF ClientSockets
    <3> QED
      BY <1>e, <1>x, <1>q, <3>4 DEF ClientTyped
  <2> QED
    BY <1>x, <2>1, <2>2, <2>3 DEF ClientTyped
<1>2. ThreadPlaces' /\ UserPlaces'
  BY <1>e, <1>x, <1>n, <1>q, <1>f
  DEF ThreadPlaces, UserPlaces
<1>3. OneRight'
  <2>1. /\ Attempt' = Attempt
        /\ Starter' = Starter
        /\ net'.reads = net.reads - 1
        /\ Handled' = Handled
        /\ Many("read_error")' = Many("read_error")
        /\ Notifier' = Notifier
    <3>1. Attempt' = Attempt
      BY <1>f DEF Attempt, If
    <3>2. Notifier' = Notifier
      BY <1>e, <1>q, <1>f
      DEF Resumed, Notifier, If
    <3>3. Starter' = Starter /\ Handled' = Handled
      BY <1>e, <1>q, <1>f
      DEF Starter, Handled, If
    <3>4. Many("read_error")' = Many("read_error")
      BY <1>e, <1>n, <1>q DEF If
    <3> QED
      BY <1>f, <3>1, <3>2, <3>3, <3>4
  <2>2. /\ Waits("connected")' = Waits("connected")
        /\ Waits("read_ok")' = Waits("read_ok") + 1
        /\ Waits("read_end")' = Waits("read_end")
    BY <1>e, <1>n, <1>q, <1>f
    DEF Waits, If
  <2>3. OneRight
    BY DEF ClientInv
  <2> QED
    BY <2>1, <2>2, <2>3, Rights DEF OneRight
<1>4. FlagClear'
  BY <1>e, <1>x, <1>n, <1>q, <1>f
  DEF ThreadPlaces, FlagClear, Waits, If
<1>5. CountTrue'
  BY <1>e, <1>x, <1>n, <1>q, <1>f
  DEF ThreadPlaces, CountTrue, Out, If
<1>6. NothingYet' /\ EndKnown'
  BY <1>e, <1>x, <1>n, <1>q, <1>f
  DEF ThreadPlaces, NothingYet, EndKnown, Connecting, Waits, If
<1>7. Over'
  BY <1>e, <1>x, <1>n, <1>q, <1>f
  DEF ThreadPlaces, Over, Silent, Connecting, CountTrue, Out, Waits, Starter, If
<1>8. ArmTrue' /\ ReadComing' /\ DecodeComing'
  BY <1>e, <1>x, <1>n, <1>q, <1>f
  DEF ThreadPlaces, ArmTrue, ReadComing, DecodeComing, Stays, FlagClear, EndKnown, Waits, If
<1> QED
  BY <1>1, <1>2, <1>3, <1>4, <1>5, <1>6, <1>7, <1>8

(* or ends,                                                                *)
LEMMA ReadEndArrives ==
    ASSUME ClientInv, Fixed,
           NEW t \in Tasks, t.op \in {"read_end", "read_error"}, Completes(t), net.reads > 0,
           net' = [net EXCEPT !.reads = @ - 1], env' = env
    PROVE  ClientInv'
<1> USE ClientThreads DEF ClientInv
<1>e. /\ t.op \in {"read_end", "read_error"} /\ t \in Tasks
      /\ net' = [net EXCEPT !.reads = @ - 1] /\ net.reads > 0
      /\ env' = env
  OBVIOUS
<1>x. /\ queue' = Post(queue, "io", t)
      /\ pc' = [pc EXCEPT !["io"] = pc["io"]] /\ in_handler' = in_handler
      /\ UNCHANGED <<s, life, frame, turn, user_closed>>
  BY <1>e DEF Completes, Go, Fixed
<1>n. /\ Many("connected") \in Nat
      /\ Many("read_ok") \in Nat
      /\ Many("read_end") \in Nat
      /\ Many("read_error") \in Nat
      /\ Many("fire_read") \in Nat
      /\ Many("close") \in Nat
      /\ Many("write_end") \in Nat
      /\ Kind = "connected" => Many("connected") >= 1
      /\ Kind = "read_ok" => Many("read_ok") >= 1
      /\ Kind = "read_end" => Many("read_end") >= 1
      /\ Kind = "fire_read" => Many("fire_read") >= 1
      /\ Kind = "close" => Many("close") >= 1
      /\ Kind = "write_end" => Many("write_end") >= 1
  BY HeadCounted
<1>q. /\ queue' \in ClientQueues /\ (Place # "idle" => Kind' = Kind)
      /\ Many("connected")' = Many("connected")
      /\ Many("read_ok")' = Many("read_ok")
      /\ Many("read_end")' = Many("read_end") + If(t.op = "read_end")
      /\ Many("read_error")' = Many("read_error") + If(t.op = "read_error")
      /\ Many("fire_read")' = Many("fire_read")
      /\ Many("close")' = Many("close")
      /\ Many("write_end")' = Many("write_end")
  <2>1. /\ queue' \in ClientQueues /\ (Kind # "none" => Kind' = Kind)
        /\ \A op : Many(op)' = Many(op) + If(t.op = op)
    BY <1>e, <1>x, Posted
  <2>2. Kind = "none" => Place = "idle"
    BY DEF ThreadPlaces
  <2> QED
    BY <1>e, <1>n, <2>1, <2>2 DEF If
<1>f. /\ Place' = Place /\ pc'["acc"] = pc["acc"]
      /\ s'.reading = s.reading
      /\ s'.close_flag = s.close_flag
      /\ s'.work_read_count = s.work_read_count
      /\ s'.rbuf = s.rbuf
      /\ s'.notify = s.notify
      /\ s'.high_water = s.high_water
      /\ s.rbuf \in Nat /\ net.reads \in Nat /\ s.work_read_count \in Int
      /\ s.high_water \in Nat /\ frame \in Nat
      /\ frame' = frame /\ turn' = turn
      /\ net'.reads = net.reads - 1
      /\ env'.peer = env.peer
      /\ user_closed' = user_closed
  BY <1>e, <1>x DEF ClientTyped, ClientMembers, ClientSockets, ClientOutside, Place
<1>1. ClientTyped'
  <2>1. s' \in ClientMembers
    BY <1>x DEF ClientTyped
  <2>2. pc' \in [{"io", "acc"} -> Labels]
    BY <1>e, <1>x DEF ClientTyped, Labels
  <2>3. /\ net' \in ClientSockets /\ env' \in ClientOutside /\ life' \in ClientLives
        /\ queue' \in ClientQueues /\ in_handler' \in BOOLEAN
    <3>1. net \in ClientSockets
      BY DEF ClientTyped
    <3>2. PICK m \in Nat : m = net.reads - 1
      BY <1>e, <3>1 DEF ClientSockets
    <3>3. net' = [net EXCEPT !.reads = m]
      BY <1>e, <3>2
    <3>4. net' \in ClientSockets
      BY <3>1, <3>3 DEF ClientSockets
    <3> QED
      BY <1>e, <1>x, <1>q, <3>4 DEF ClientTyped
  <2> QED
    BY <1>x, <2>1, <2>2, <2>3 DEF ClientTyped
<1>2. ThreadPlaces' /\ UserPlaces'
  BY <1>e, <1>x, <1>n, <1>q, <1>f
  DEF ThreadPlaces, UserPlaces
<1>3. OneRight'
  <2>1. /\ Attempt' = Attempt
        /\ Starter' = Starter
        /\ net'.reads = net.reads - 1
        /\ Handled' = Handled
        /\ Many("read_error")' = Many("read_error") + If(t.op = "read_error")
        /\ Notifier' = Notifier
    <3>1. Attempt' = Attempt
      BY <1>f DEF Attempt, If
    <3>2. Notifier' = Notifier
      BY <1>e, <1>q, <1>f
      DEF Resumed, Notifier, If
    <3>3. Starter' = Starter /\ Handled' = Handled
      BY <1>e, <1>q, <1>f
      DEF Starter, Handled, If
    <3>4. Many("read_error")' = Many("read_error") + If(t.op = "read_error")
      BY <1>e, <1>n, <1>q DEF If
    <3> QED
      BY <1>f, <3>1, <3>2, <3>3, <3>4
  <2>2. /\ Waits("connected")' = Waits("connected")
        /\ Waits("read_ok")' = Waits("read_ok")
        /\ Waits("read_end")' = Waits("read_end") + If(t.op = "read_end")
    BY <1>e, <1>n, <1>q, <1>f
    DEF Waits, If
  <2>3. OneRight
    BY DEF ClientInv
  <2> QED
    BY <1>e, <2>1, <2>2, <2>3, Rights DEF OneRight, If
<1>4. FlagClear'
  BY <1>e, <1>x, <1>n, <1>q, <1>f
  DEF ThreadPlaces, FlagClear, Waits, If
<1>5. CountTrue'
  BY <1>e, <1>x, <1>n, <1>q, <1>f
  DEF ThreadPlaces, CountTrue, Out, If
<1>6. NothingYet' /\ EndKnown'
  BY <1>e, <1>x, <1>n, <1>q, <1>f
  DEF ThreadPlaces, NothingYet, EndKnown, Connecting, Waits, If
<1>7. Over'
  BY <1>e, <1>x, <1>n, <1>q, <1>f
  DEF ThreadPlaces, Over, Silent, Connecting, CountTrue, Out, Waits, Starter, If
<1>8. ArmTrue' /\ ReadComing' /\ DecodeComing'
  BY <1>e, <1>x, <1>n, <1>q, <1>f
  DEF ThreadPlaces, ArmTrue, ReadComing, DecodeComing, Stays, FlagClear, EndKnown, Waits, If
<1> QED
  BY <1>1, <1>2, <1>3, <1>4, <1>5, <1>6, <1>7, <1>8

(* The connect comes back.                                                 *)
LEMMA ConnectArrives ==
    ASSUME ClientInv, Fixed,
           NEW t \in Tasks, t.op = "connected", Completes(t), env.peer = "none",
           net' = net,
           env' = [env EXCEPT !.peer = "open"]
    PROVE  ClientInv'
<1> USE ClientThreads DEF ClientInv
<1>e. /\ t.op = "connected" /\ t \in Tasks
      /\ net' = net /\ env.peer = "none" /\ env' = [env EXCEPT !.peer = "open"]
  OBVIOUS
<1>x. /\ queue' = Post(queue, "io", t)
      /\ pc' = [pc EXCEPT !["io"] = pc["io"]] /\ in_handler' = in_handler
      /\ UNCHANGED <<s, life, frame, turn, user_closed>>
  BY <1>e DEF Completes, Go, Fixed
<1>n. /\ Many("connected") \in Nat
      /\ Many("read_ok") \in Nat
      /\ Many("read_end") \in Nat
      /\ Many("read_error") \in Nat
      /\ Many("fire_read") \in Nat
      /\ Many("close") \in Nat
      /\ Many("write_end") \in Nat
      /\ Kind = "connected" => Many("connected") >= 1
      /\ Kind = "read_ok" => Many("read_ok") >= 1
      /\ Kind = "read_end" => Many("read_end") >= 1
      /\ Kind = "fire_read" => Many("fire_read") >= 1
      /\ Kind = "close" => Many("close") >= 1
      /\ Kind = "write_end" => Many("write_end") >= 1
  BY HeadCounted
<1>q. /\ queue' \in ClientQueues /\ (Place # "idle" => Kind' = Kind)
      /\ Many("connected")' = Many("connected") + 1
      /\ Many("read_ok")' = Many("read_ok")
      /\ Many("read_end")' = Many("read_end")
      /\ Many("read_error")' = Many("read_error")
      /\ Many("fire_read")' = Many("fire_read")
      /\ Many("close")' = Many("close")
      /\ Many("write_end")' = Many("write_end")
  <2>1. /\ queue' \in ClientQueues /\ (Kind # "none" => Kind' = Kind)
        /\ \A op : Many(op)' = Many(op) + If(t.op = op)
    BY <1>e, <1>x, Posted
  <2>2. Kind = "none" => Place = "idle"
    BY DEF ThreadPlaces
  <2> QED
    BY <1>e, <1>n, <2>1, <2>2 DEF If
<1>f. /\ Place' = Place /\ pc'["acc"] = pc["acc"]
      /\ s'.reading = s.reading
      /\ s'.close_flag = s.close_flag
      /\ s'.work_read_count = s.work_read_count
      /\ s'.rbuf = s.rbuf
      /\ s'.notify = s.notify
      /\ s'.high_water = s.high_water
      /\ s.rbuf \in Nat /\ net.reads \in Nat /\ s.work_read_count \in Int
      /\ s.high_water \in Nat /\ frame \in Nat
      /\ frame' = frame /\ turn' = turn
      /\ env'.peer = "open"
      /\ user_closed' = user_closed
  BY <1>e, <1>x DEF ClientTyped, ClientMembers, ClientSockets, ClientOutside, Place
<1>1. ClientTyped'
  <2>1. s' \in ClientMembers
    BY <1>x DEF ClientTyped
  <2>2. pc' \in [{"io", "acc"} -> Labels]
    BY <1>e, <1>x DEF ClientTyped, Labels
  <2>3. /\ net' \in ClientSockets /\ env' \in ClientOutside /\ life' \in ClientLives
        /\ queue' \in ClientQueues /\ in_handler' \in BOOLEAN
    <3>1. env \in ClientOutside
      BY DEF ClientTyped
    <3>2. env' \in ClientOutside
      BY <1>e, <1>x, <3>1 DEF ClientOutside
    <3> QED
      BY <1>e, <1>x, <1>q, <3>2 DEF ClientTyped
  <2> QED
    BY <1>x, <2>1, <2>2, <2>3 DEF ClientTyped
<1>2. ThreadPlaces' /\ UserPlaces'
  BY <1>e, <1>x, <1>n, <1>q, <1>f
  DEF ThreadPlaces, UserPlaces
<1>3. OneRight'
  <2>1. /\ Attempt = 1 /\ Attempt' = 0
        /\ Starter' = Starter
        /\ net'.reads = net.reads
        /\ Handled' = Handled
        /\ Many("read_error")' = Many("read_error")
        /\ Notifier' = Notifier
    BY <1>e, <1>q, <1>f
    DEF Starter, Handled, Resumed, Notifier, Attempt, If
  <2>2. /\ Waits("connected")' = Waits("connected") + 1
        /\ Waits("read_ok")' = Waits("read_ok")
        /\ Waits("read_end")' = Waits("read_end")
    BY <1>e, <1>n, <1>q, <1>f
    DEF Waits, If
  <2>3. OneRight
    BY DEF ClientInv
  <2> QED
    BY <2>1, <2>2, <2>3, Rights DEF OneRight
<1>4. FlagClear'
  BY <1>e, <1>x, <1>n, <1>q, <1>f
  DEF ThreadPlaces, FlagClear, Waits, If
<1>5. CountTrue'
  BY <1>e, <1>x, <1>n, <1>q, <1>f
  DEF ThreadPlaces, CountTrue, Out, If
<1>6. NothingYet' /\ EndKnown'
  BY <1>e, <1>x, <1>n, <1>q, <1>f
  DEF ThreadPlaces, NothingYet, EndKnown, Connecting, Waits, If
<1>7. Over'
  BY <1>e, <1>x, <1>n, <1>q, <1>f
  DEF ThreadPlaces, Over, Silent, Connecting, CountTrue, Out, Waits, Starter, If
<1>8. ArmTrue' /\ ReadComing' /\ DecodeComing'
  BY <1>e, <1>x, <1>n, <1>q, <1>f
  DEF ThreadPlaces, ArmTrue, ReadComing, DecodeComing, Stays, FlagClear, EndKnown, Waits, If
<1> QED
  BY <1>1, <1>2, <1>3, <1>4, <1>5, <1>6, <1>7, <1>8

(* The peer closes.                                                        *)
LEMMA PeerClosesCounts ==
    ASSUME ClientInv, Fixed, PeerCloses
    PROVE  ClientInv'
<1> USE ClientThreads DEF ClientInv
<1>e. /\ env.peer \in {"open", "fin"}
  BY DEF PeerCloses
<1>x. /\ queue' = queue /\ pc' = pc /\ in_handler' = in_handler
      /\ env' = [env EXCEPT !.peer = "fin"] \/ env' = [env EXCEPT !.peer = "reset"]
      /\ UNCHANGED <<s, net, life, frame, turn, user_closed>>
  BY DEF PeerCloses, Fixed
<1>n. /\ Many("connected") \in Nat
      /\ Many("read_ok") \in Nat
      /\ Many("read_end") \in Nat
      /\ Many("read_error") \in Nat
      /\ Many("fire_read") \in Nat
      /\ Many("close") \in Nat
      /\ Many("write_end") \in Nat
      /\ Kind = "connected" => Many("connected") >= 1
      /\ Kind = "read_ok" => Many("read_ok") >= 1
      /\ Kind = "read_end" => Many("read_end") >= 1
      /\ Kind = "fire_read" => Many("fire_read") >= 1
      /\ Kind = "close" => Many("close") >= 1
      /\ Kind = "write_end" => Many("write_end") >= 1
  BY HeadCounted
<1>q. /\ queue' \in ClientQueues /\ Kind' = Kind
      /\ Many("connected")' = Many("connected")
      /\ Many("read_ok")' = Many("read_ok")
      /\ Many("read_end")' = Many("read_end")
      /\ Many("read_error")' = Many("read_error")
      /\ Many("fire_read")' = Many("fire_read")
      /\ Many("close")' = Many("close")
      /\ Many("write_end")' = Many("write_end")
  <2>1. Kind' = Kind /\ \A op : Many(op)' = Many(op)
    BY <1>x, QueueLeft
  <2> QED
    BY <1>x, <2>1 DEF ClientTyped
<1>f. /\ Place' = Place /\ pc'["acc"] = pc["acc"]
      /\ s'.reading = s.reading
      /\ s'.close_flag = s.close_flag
      /\ s'.work_read_count = s.work_read_count
      /\ s'.rbuf = s.rbuf
      /\ s'.notify = s.notify
      /\ s'.high_water = s.high_water
      /\ s.rbuf \in Nat /\ net.reads \in Nat /\ s.work_read_count \in Int
      /\ s.high_water \in Nat /\ frame \in Nat
      /\ frame' = frame /\ turn' = turn
      /\ env'.peer \in {"fin", "reset"}
      /\ user_closed' = user_closed
  BY <1>e, <1>x DEF ClientTyped, ClientMembers, ClientSockets, ClientOutside, Place
<1>1. ClientTyped'
  <2>1. s' \in ClientMembers
    BY <1>x DEF ClientTyped
  <2>2. pc' \in [{"io", "acc"} -> Labels]
    BY <1>e, <1>x DEF ClientTyped, Labels
  <2>3. /\ net' \in ClientSockets /\ env' \in ClientOutside /\ life' \in ClientLives
        /\ queue' \in ClientQueues /\ in_handler' \in BOOLEAN
    <3>1. env \in ClientOutside
      BY DEF ClientTyped
    <3>2. env' \in ClientOutside
      BY <1>e, <1>x, <3>1 DEF ClientOutside
    <3> QED
      BY <1>x, <1>q, <3>2 DEF ClientTyped
  <2> QED
    BY <1>x, <2>1, <2>2, <2>3 DEF ClientTyped
<1>2. ThreadPlaces' /\ UserPlaces'
  BY <1>e, <1>x, <1>n, <1>q, <1>f
  DEF ThreadPlaces, UserPlaces
<1>3. OneRight'
  BY <1>e, <1>x, <1>n, <1>q, <1>f
  DEF ThreadPlaces, OneRight, Waits, Handled, Starter, Resumed, Notifier, Attempt, If
<1>4. FlagClear'
  BY <1>e, <1>x, <1>n, <1>q, <1>f
  DEF ThreadPlaces, FlagClear, Waits, If
<1>5. CountTrue'
  BY <1>e, <1>x, <1>n, <1>q, <1>f
  DEF ThreadPlaces, CountTrue, Out, If
<1>6. NothingYet' /\ EndKnown'
  BY <1>e, <1>x, <1>n, <1>q, <1>f
  DEF ThreadPlaces, NothingYet, EndKnown, Connecting, Waits, If
<1>7. Over'
  BY <1>e, <1>x, <1>n, <1>q, <1>f
  DEF ThreadPlaces, Over, Silent, Connecting, CountTrue, Out, Waits, Starter, If
<1>8. ArmTrue' /\ ReadComing' /\ DecodeComing'
  BY <1>e, <1>x, <1>n, <1>q, <1>f
  DEF ThreadPlaces, ArmTrue, ReadComing, DecodeComing, Stays, FlagClear, EndKnown, Waits, If
<1> QED
  BY <1>1, <1>2, <1>3, <1>4, <1>5, <1>6, <1>7, <1>8

(* The right to read goes from the connect to the thread.                  *)
LEMMA StartMoves ==
    ASSUME ClientInv, Attempt' = Attempt, Waits("connected")' = Waits("connected") - 1,
           Starter' = 1,
           Starter = 0, Handled = 0,
           net'.reads = net.reads, Waits("read_ok")' = Waits("read_ok"), Handled' = 0,
           Waits("read_end")' = Waits("read_end"), Many("read_error")' = Many("read_error"),
           Notifier' = Notifier
    PROVE  OneRight'
<1>1. OneRight
  BY DEF ClientInv
<1> QED
  BY <1>1, Rights DEF OneRight

(* handle_connect starts the session, which may write.                     *)
LEMMA HandleConnectedCounts ==
    ASSUME ClientInv, Fixed, Begins("io", "connected"), NEW g \in {0, 1}, s' = Greeted(s, g),
           env' = [env EXCEPT !.written = @ + g], UNCHANGED <<net, life>>,
           Go([queue EXCEPT !["io"] = @ \o Repeat(Task("write", 0), g)], "io", HandleConnect)
    PROVE  ClientInv'
<1> USE ClientThreads DEF ClientInv
<1>e. /\ Place = "idle" /\ Kind = "connected" /\ g \in Nat
  BY DEF Begins, Runs, Place, Kind, Line
<1>x. /\ s' = [s EXCEPT !.pending = @ + g, !.wbuf = @ + g]
      /\ env' = [env EXCEPT !.written = @ + g]
      /\ queue' = [queue EXCEPT !["io"] = @ \o Repeat(Task("write", 0), g)]
      /\ pc' = [pc EXCEPT !["io"] = "readSet"] /\ in_handler' = in_handler
      /\ UNCHANGED <<net, life, frame, turn, user_closed>>
  BY DEF Greeted, Go, HandleConnect, Fixed
<1>n. /\ Many("connected") \in Nat
      /\ Many("read_ok") \in Nat
      /\ Many("read_end") \in Nat
      /\ Many("read_error") \in Nat
      /\ Many("fire_read") \in Nat
      /\ Many("close") \in Nat
      /\ Many("write_end") \in Nat
      /\ Kind = "connected" => Many("connected") >= 1
      /\ Kind = "read_ok" => Many("read_ok") >= 1
      /\ Kind = "read_end" => Many("read_end") >= 1
      /\ Kind = "fire_read" => Many("fire_read") >= 1
      /\ Kind = "close" => Many("close") >= 1
      /\ Kind = "write_end" => Many("write_end") >= 1
  BY HeadCounted
<1>q. /\ queue' \in ClientQueues /\ Kind' = Kind
      /\ Many("connected")' = Many("connected")
      /\ Many("read_ok")' = Many("read_ok")
      /\ Many("read_end")' = Many("read_end")
      /\ Many("read_error")' = Many("read_error")
      /\ Many("fire_read")' = Many("fire_read")
      /\ Many("close")' = Many("close")
      /\ Many("write_end")' = Many("write_end")
  <2>1. /\ Line \in Seq(Tasks) /\ Line # <<>> /\ Task("write", 0) \in Tasks
        /\ Task("write", 0).op = "write"
    BY <1>e, Counted DEF Task, Tasks, Ops
  <2>2. PICK r \in Seq(Tasks) :
            /\ r = Line \o Repeat(Task("write", 0), g) /\ r # <<>> /\ Head(r) = Head(Line)
            /\ \A op : Num(r, op) = Num(Line, op) + (IF "write" = op THEN g ELSE 0)
    <3>1. PICK t \in Tasks, n \in Nat : t = Task("write", 0) /\ t.op = "write" /\ n = g
      BY <1>e, <2>1
    <3>2. /\ Line \o Repeat(t, n) \in Seq(Tasks) /\ Line \o Repeat(t, n) # <<>>
          /\ Head(Line \o Repeat(t, n)) = Head(Line)
          /\ \A op : Num(Line \o Repeat(t, n), op) = Num(Line, op) + (IF t.op = op THEN n ELSE 0)
      BY <2>1, PostedTimes
    <3> QED
      BY <3>1, <3>2
  <2>3. queue' \in ClientQueues /\ Line' = r
    <3>1. queue' = [queue EXCEPT !["io"] = r]
      BY <1>x, <2>2 DEF ClientTyped, ClientQueues, Line
    <3> QED
      BY <3>1, Queued
  <2>4. Kind' = Kind
    BY <2>1, <2>2, <2>3 DEF Kind
  <2>5. \A op : Many(op)' = Many(op) + (IF "write" = op THEN g ELSE 0)
    BY <2>2, <2>3 DEF Many
  <2> QED
    BY <1>n, <2>3, <2>4, <2>5
<1>f. /\ Place' = "readSet" /\ pc'["acc"] = pc["acc"]
      /\ s'.reading = s.reading
      /\ s'.close_flag = s.close_flag
      /\ s'.work_read_count = s.work_read_count
      /\ s'.rbuf = s.rbuf
      /\ s'.notify = s.notify
      /\ s'.high_water = s.high_water
      /\ s.rbuf \in Nat /\ net.reads \in Nat /\ s.work_read_count \in Int
      /\ s.high_water \in Nat /\ frame \in Nat
      /\ frame' = frame /\ turn' = turn
      /\ env'.peer = env.peer
      /\ user_closed' = user_closed
  BY <1>e, <1>x, SMTT(40) DEF ClientTyped, ClientMembers, ClientSockets, ClientOutside, Place
<1>1. ClientTyped'
  <2>1. s' \in ClientMembers
    <3>1. s \in ClientMembers
      BY DEF ClientTyped
    <3>2. PICK a \in Int, b \in Int : a = s.pending + g /\ b = s.wbuf + g
      BY <1>e, <3>1 DEF ClientMembers
    <3>3. s' = [s EXCEPT !.pending = a, !.wbuf = b]
      BY <1>x, <3>2
    <3> QED
      BY <3>1, <3>3 DEF ClientMembers
  <2>2. pc' \in [{"io", "acc"} -> Labels]
    BY <1>e, <1>x DEF ClientTyped, Labels
  <2>3. /\ net' \in ClientSockets /\ env' \in ClientOutside /\ life' \in ClientLives
        /\ queue' \in ClientQueues /\ in_handler' \in BOOLEAN
    <3>1. env \in ClientOutside
      BY DEF ClientTyped
    <3>2. PICK w \in Int : w = env.written + g
      BY <1>e, <3>1 DEF ClientOutside
    <3>3. env' = [env EXCEPT !.written = w]
      BY <1>x, <3>2
    <3>4. env' \in ClientOutside
      BY <3>1, <3>3 DEF ClientOutside
    <3> QED
      BY <1>x, <1>q, <3>4 DEF ClientTyped
  <2> QED
    BY <1>x, <2>1, <2>2, <2>3 DEF ClientTyped
<1>2. ThreadPlaces' /\ UserPlaces'
  BY <1>e, <1>x, <1>n, <1>q, <1>f
  DEF ThreadPlaces, UserPlaces
<1>3. OneRight'
  <2>1. /\ Attempt' = Attempt
        /\ Starter' = 1
        /\ net'.reads = net.reads
        /\ Handled' = 0
        /\ Many("read_error")' = Many("read_error")
        /\ Notifier' = Notifier
    <3>1. Attempt' = Attempt
      BY <1>f DEF Attempt, If
    <3>2. Notifier' = Notifier
      BY <1>e, <1>q, <1>f
      DEF Resumed, Notifier, If
    <3>3. Starter' = 1 /\ Handled' = 0
      BY <1>e, <1>q, <1>f
      DEF Starter, Handled, If
    <3>4. Many("read_error")' = Many("read_error")
      BY <1>e, <1>n, <1>q DEF If
    <3> QED
      BY <1>f, <3>1, <3>2, <3>3, <3>4
  <2>2. /\ Waits("connected")' = Waits("connected") - 1
        /\ Waits("read_ok")' = Waits("read_ok")
        /\ Waits("read_end")' = Waits("read_end")
    BY <1>e, <1>n, <1>q, <1>f
    DEF Waits, If
  <2>3. Starter = 0 /\ Handled = 0
    BY <1>e DEF Starter, Handled, If
  <2> QED
    BY <2>1, <2>2, <2>3, StartMoves
<1>4. FlagClear'
  BY <1>e, <1>x, <1>n, <1>q, <1>f
  DEF ThreadPlaces, FlagClear, Waits, If
<1>5. CountTrue'
  BY <1>e, <1>x, <1>n, <1>q, <1>f
  DEF ThreadPlaces, CountTrue, Out, If
<1>6. NothingYet' /\ EndKnown'
  BY <1>e, <1>x, <1>n, <1>q, <1>f, SMTT(40)
  DEF ThreadPlaces, NothingYet, EndKnown, Connecting, Waits, If
<1>7. Over'
  BY <1>e, <1>x, <1>n, <1>q, <1>f
  DEF ThreadPlaces, Over, Silent, Connecting, CountTrue, Out, Waits, Starter, If
<1>8. ArmTrue' /\ ReadComing' /\ DecodeComing'
  BY <1>e, <1>x, <1>n, <1>q, <1>f
  DEF ThreadPlaces, ArmTrue, ReadComing, DecodeComing, Stays, FlagClear, EndKnown, Waits, If
<1> QED
  BY <1>1, <1>2, <1>3, <1>4, <1>5, <1>6, <1>7, <1>8

-----------------------------------------------------------------------------
(* The steps of the program, one by one.                                   *)
(* Handlers run inside fire_read only.                                     *)
LEMMA IdleIsOutside ==
    ASSUME ClientInv, Place = "idle" \/ Kind # "fire_read"
    PROVE  in_handler = FALSE
BY DEF ClientInv, ClientTyped, ThreadPlaces

(* close_after_last_read: the test, the close, and shutdown throwing.      *)
LEMMA CloseAfterLastReadCounts ==
    ASSUME ClientInv, Fixed, CloseAfterLastRead
    PROVE  ClientInv'
<1>1. Place = "closeTest"
  BY DEF CloseAfterLastRead, Test, Place
<1>2. CASE Test("io", "closeTest", FALSE, "", "maskTest")
  <2>1. Goto("io", "maskTest") /\ UNCHANGED <<s, net, env, life>>
    BY <1>2 DEF Test
  <2> QED
    BY <1>1, <2>1, MoveCounts
<1>3. CASE s.close_flag /\ ShutdownMayThrow /\ Crash("throw")
  BY <1>3, CrashCounts
<1>4. CASE s.close_flag /\ CloseAndGo("countTest") /\ UNCHANGED <<s, env, life>>
  BY <1>1, <1>4, ClosesCounts
<1> QED
  BY <1>2, <1>3, <1>4 DEF CloseAfterLastRead

(* handle_read at the mask: read on, or arm the notification.              *)
LEMMA MaskTestCounts ==
    ASSUME ClientInv, Fixed, MaskTest
    PROVE  ClientInv'
<1>1. Place = "maskTest" /\ UNCHANGED <<s, net, env, life>>
  BY DEF MaskTest, Test, Place
<1>2. CASE BelowMask
  <2>1. Goto("io", "readSet")
    BY <1>2 DEF MaskTest, Test
  <2> QED
    BY <1>1, <2>1, MoveCounts
<1>3. CASE ~BelowMask
  <2>1. Goto("io", "arm1")
    BY <1>3 DEF MaskTest, Test
  <2>2. s.rbuf >= Mask
    BY <1>3, ClientThreads DEF BelowMask, ClientInv, ClientTyped, ClientMembers
  <2> QED
    BY <1>1, <2>1, <2>2, MoveCounts
<1> QED
  BY <1>2, <1>3

(* write(), as the last call of a task, begins or does nothing.            *)
LEMMA WriteCounts ==
    ASSUME ClientInv, Fixed, Write
    PROVE  ClientInv'
<1>1. /\ UNCHANGED <<s, net, env>> /\ in_handler = FALSE
      /\ Place = "writeOn" \/ (Place = "idle" /\ Kind = "write")
  <2>1. UNCHANGED <<s, net, env>> /\ (Place = "writeOn" \/ (Place = "idle" /\ Kind = "write"))
    BY DEF Write, Begins, Runs, Place, Kind, Line
  <2>2. Place = "idle" \/ Kind # "fire_read"
    BY <2>1 DEF ClientInv, ThreadPlaces
  <2> QED
    BY <2>1, <2>2, IdleIsOutside
<1>2. CASE Goto("io", "writeSet") /\ UNCHANGED life
  BY <1>1, <1>2, WriteMoves
<1>3. CASE Finish("io") /\ life' = [life EXCEPT !.passed = @ \/ Passes]
  <2>1. life \in ClientLives
    BY DEF ClientInv, ClientTyped
  <2>2. PICK b \in BOOLEAN : b = (life.passed \/ Passes)
    OBVIOUS
  <2>3. life' = [life EXCEPT !.passed = b]
    BY <1>3, <2>2
  <2>4. life' \in ClientLives /\ life'.fired = life.fired
    BY <2>1, <2>3 DEF ClientLives
  <2>5. \/ Place = "idle" /\ Kind \in {"write", "refused"}
        \/ Place = "writeOn"
    BY <1>1
  <2> QED
    BY <1>1, <1>3, <2>4, <2>5, FinishPasses
<1> QED
  BY <1>2, <1>3 DEF Write

(* handle_write looks whether there is more to write,                      *)
LEMMA PendingTestCounts ==
    ASSUME ClientInv, Fixed, PendingTest
    PROVE  ClientInv'
<1>1. /\ Place = "pendingTest" /\ UNCHANGED <<s, net, env, life>>
      /\ Goto("io", "writeOn") \/ Goto("io", "flagTest")
  BY DEF PendingTest, Test, Place
<1>2. CASE Goto("io", "writeOn")
  BY <1>1, <1>2, MoveCounts
<1>3. CASE Goto("io", "flagTest")
  BY <1>1, <1>3, MoveCounts
<1> QED
  BY <1>1, <1>2, <1>3

(* whether the session is closing,                                         *)
LEMMA FlagTestCounts ==
    ASSUME ClientInv, Fixed, FlagTest
    PROVE  ClientInv'
<1>1. Place = "flagTest" /\ in_handler = FALSE
  <2>1. Place = "flagTest"
    BY DEF FlagTest, Place
  <2> QED
    BY <2>1, IdleIsOutside DEF ClientInv, ThreadPlaces
<1>2. CASE Crash("throw")
  BY <1>2, CrashCounts
<1>3. CASE /\ s.close_flag /\ net' = [net EXCEPT !.sock = "shut"]
           /\ Goto("io", "readingTest") /\ UNCHANGED <<s, env, life>>
  BY <1>1, <1>3, ShutCounts
<1>4. CASE Finish("io") /\ UNCHANGED <<s, net, env, life>>
  BY <1>1, <1>4, FinishCounts
<1> QED
  BY <1>2, <1>3, <1>4 DEF FlagTest, ClosesAfterWrite

(* and whether a read is under way.                                        *)
LEMMA ReadingTestCounts ==
    ASSUME ClientInv, Fixed, ReadingTest
    PROVE  ClientInv'
<1>1. Place = "readingTest" /\ in_handler = FALSE /\ s.close_flag
  <2>1. Place = "readingTest"
    BY DEF ReadingTest, Place
  <2> QED
    BY <2>1, IdleIsOutside DEF ClientInv, ThreadPlaces, EndKnown
<1>2. CASE Finish("io") /\ UNCHANGED <<s, net, env, life>>
  BY <1>1, <1>2, FinishCounts
<1>3. CASE ~s.reading /\ CloseAndGo("countTest") /\ UNCHANGED <<s, env, life>>
  BY <1>1, <1>3, ClosesCounts
<1> QED
  BY <1>2, <1>3 DEF ReadingTest

(* work_read_count_ decides who calls fire_closed.                         *)
LEMMA CountTestKeeps ==
    ASSUME ClientInv, Fixed, CountTest
    PROVE  ClientInv'
<1>1. Place = "countTest" /\ in_handler = FALSE
  <2>1. Place = "countTest"
    BY DEF CountTest, Place
  <2> QED
    BY <2>1, IdleIsOutside DEF ClientInv, ThreadPlaces
<1>2. CASE HandlersDone /\ FireClosed
  BY <1>2, CountTestCounts
<1>3. CASE Finish("io") /\ UNCHANGED <<s, net, env, life>>
  BY <1>1, <1>3, FinishCounts
<1> QED
  BY <1>2, <1>3 DEF CountTest

(* The posted close.                                                       *)
LEMMA CloseLambdaKeeps ==
    ASSUME ClientInv, Fixed, CloseLambda
    PROVE  ClientInv'
<1>1. CASE Crash("throw")
  BY <1>1, CrashCounts
<1>2. CASE ~Crash("throw")
  BY <1>2, CloseLambdaCounts
<1> QED
  BY <1>1, <1>2

(* A client has no close handler.                                          *)
LEMMA CloseHandlerCounts ==
    ASSUME ClientInv, Fixed, CloseHandler
    PROVE  ClientInv'
<1>1. Place = "remove" /\ in_handler = FALSE
  <2>1. Place = "remove"
    BY DEF CloseHandler, Place
  <2> QED
    BY <2>1, IdleIsOutside DEF ClientInv, ThreadPlaces
<1>2. Finish("io") /\ UNCHANGED <<s, net, env, life>>
  BY ClientThreads DEF CloseHandler
<1> QED
  BY <1>1, <1>2, FinishCounts

(* The decoder resumes reading when it has taken enough.                   *)
LEMMA NotifyTestCounts ==
    ASSUME ClientInv, Fixed, NotifyTest
    PROVE  ClientInv'
<1>1. Place = "notifyTest" /\ UNCHANGED <<s, net, env, life>>
  BY ClientThreads DEF NotifyTest, Test, Place
<1>2. CASE MustNotify
  <2>1. Goto("io", "readSet")
    BY <1>2, ClientThreads DEF NotifyTest, Test
  <2> QED
    BY <1>1, <1>2, <2>1, MoveCounts DEF MustNotify
<1>3. CASE ~MustNotify
  <2>1. Goto("io", "user")
    BY <1>3, ClientThreads DEF NotifyTest, Test
  <2> QED
    BY <1>1, <1>3, <2>1, MoveCounts DEF MustNotify
<1> QED
  BY <1>2, <1>3

(* Where close_if_necessary and cancel return to.                          *)
LEMMA ReturnCounts ==
    ASSUME ClientInv, Fixed, UNCHANGED <<s, net, env, life>>, Return("io", queue),
           Place \in {"cnFlag", "cnCount"}
    PROVE  ClientInv'
<1>1. CASE in_handler
  <2>1. Goto("io", "user")
    BY <1>1 DEF Return, Goto
  <2> QED
    BY <1>1, <2>1, MoveCounts
<1>2. CASE ~in_handler
  <2>1. Finish("io") /\ in_handler = FALSE
    BY <1>2 DEF Return, Finish, ClientInv, ClientTyped
  <2>2. Place \in {"started", "writeOn", "flagTest", "readingTest", "countTest", "remove",
                   "cnFlag", "cnCount", "cnReading", "cnCancel"}
    OBVIOUS
  <2> QED
    BY <2>1, <2>2, FinishCounts
<1> QED
  BY <1>1, <1>2

(* close_if_necessary, on the thread of the tasks.                         *)
LEMMA CloseIfNecessaryCounts ==
    ASSUME ClientInv, Fixed, CloseIfNecessary("io")
    PROVE  ClientInv'
<1>0. UNCHANGED <<s, net, env, life>>
  BY DEF CloseIfNecessary
<1>1. CASE Place = "cnFlag" /\ s.close_flag /\ ~s.writing
  <2>1. Goto("io", "cnCount")
    BY <1>1 DEF CloseIfNecessary, Place
  <2> QED
    BY <1>0, <1>1, <2>1, MoveCounts
<1>2. CASE Place = "cnFlag" /\ ~(s.close_flag /\ ~s.writing)
  <2>1. Return("io", queue)
    BY <1>2 DEF CloseIfNecessary, Place
  <2> QED
    BY <1>0, <1>2, <2>1, ReturnCounts
<1>3. CASE Place = "cnCount" /\ HandlersDone
  <2>1. Goto("io", "cnReading")
    BY <1>3 DEF CloseIfNecessary, Place
  <2> QED
    BY <1>0, <1>3, <2>1, MoveCounts DEF HandlersDone
<1>4. CASE Place = "cnCount" /\ ~HandlersDone
  <2>1. Return("io", queue)
    BY <1>4 DEF CloseIfNecessary, Place
  <2> QED
    BY <1>0, <1>4, <2>1, ReturnCounts
<1>5. CASE Place = "cnReading" /\ s.reading
  <2>1. Goto("io", "cnCancel")
    BY <1>5 DEF CloseIfNecessary, Place
  <2> QED
    BY <1>0, <1>5, <2>1, MoveCounts
<1>6. CASE Place = "cnReading" /\ ~s.reading
  <2>1. Return("io", Post(queue, "io", Task("close", 0)))
    BY <1>6 DEF CloseIfNecessary, Place
  <2> QED
    BY <1>0, <1>6, <2>1, ClosePosted
<1> QED
  BY <1>1, <1>2, <1>3, <1>4, <1>5, <1>6 DEF CloseIfNecessary, Place

(* read(), close_if_necessary and cancel, on the thread of the tasks       *)
LEMMA AnyStepCounts ==
    ASSUME ClientInv, Fixed, AnyStep("io")
    PROVE  ClientInv'
<1>1. CASE ReadSet("io")
  BY <1>1, ReadSetCounts
<1>2. CASE ReadStart("io")
  BY <1>2, ReadBegins, ReadFails
<1>3. CASE CloseIfNecessary("io")
  BY <1>3, CloseIfNecessaryCounts
<1>4. CASE Cancel("io")
  <2>1. Place = "cnCancel"
    BY <1>4 DEF Cancel, Place
  <2>2. CASE Crash("throw")
    BY <2>2, CrashCounts
  <2>3. CASE CancelAll("io") /\ UNCHANGED <<s, env, life>>
    BY <2>1, <2>3, CancelCounts
  <2> QED
    BY <1>4, <2>2, <2>3 DEF Cancel
<1> QED
  BY <1>1, <1>2, <1>3, <1>4 DEF AnyStep

(* and on the user's.                                                      *)
LEMMA UserStepCounts ==
    ASSUME ClientInv, Fixed, AnyStep("acc")
    PROVE  ClientInv'
<1>0. pc["acc"] \in {"idle", "idleClose", "cnFlag", "cnCount", "cnReading", "cnCancel"}
  BY DEF ClientInv, UserPlaces
<1>1. CASE ReadSet("acc") \/ ReadStart("acc")
  BY <1>0, <1>1 DEF ReadSet, ReadStart
<1>2. CASE CloseIfNecessary("acc")
  <2>0. UNCHANGED <<s, net, env, life>> /\ pc["acc"] # "idle"
    BY <1>2 DEF CloseIfNecessary
  <2>1. CASE pc["acc"] \in {"cnFlag", "cnCount"} /\ Return("acc", queue)
    <3>1. Goto("acc", "idle")
      BY <2>1, ClientThreads DEF Return, Goto
    <3> QED
      BY <2>0, <3>1, UserMoves
  <2>2. CASE pc["acc"] = "cnFlag" /\ s.close_flag /\ Goto("acc", "cnCount")
    BY <2>0, <2>2, UserMoves
  <2>3. CASE pc["acc"] = "cnCount" /\ Goto("acc", "cnReading")
    <3>1. s.close_flag
      BY <2>3 DEF ClientInv, UserPlaces
    <3> QED
      BY <2>0, <2>3, <3>1, UserMoves
  <2>4. CASE pc["acc"] = "cnReading" /\ Goto("acc", "cnCancel")
    <3>1. s.close_flag
      BY <2>4 DEF ClientInv, UserPlaces
    <3> QED
      BY <2>0, <2>4, <3>1, UserMoves
  <2>5. CASE pc["acc"] = "cnReading" /\ Return("acc", Post(queue, "io", Task("close", 0)))
    BY <2>0, <2>5, UserPosts
  <2> QED
    BY <1>2, <2>1, <2>2, <2>3, <2>4, <2>5 DEF CloseIfNecessary
<1>3. CASE Cancel("acc")
  <2>1. pc["acc"] = "cnCancel"
    BY <1>3 DEF Cancel
  <2>2. CASE Crash("throw")
    BY <2>2, CrashCounts
  <2>3. CASE CancelAll("acc") /\ UNCHANGED <<s, env, life>>
    BY <2>1, <2>3, UserCancels
  <2> QED
    BY <1>3, <2>2, <2>3 DEF Cancel
<1> QED
  BY <1>1, <1>2, <1>3 DEF AnyStep

(* The steps of the I/O role,                                              *)
LEMMA IoStepCounts ==
    ASSUME ClientInv, Fixed, IoStep
    PROVE  ClientInv'
<1>1. CASE HandleRead
  BY <1>1, HandleReadCounts
<1>2. CASE HandleReadEnd
  BY <1>2, HandleReadEndWaits, HandleReadEndCloses
<1>3. CASE HandleReadEndThrows
  <2>1. Crash("throw")
    BY <1>3 DEF HandleReadEndThrows
  <2> QED
    BY <2>1, CrashCounts
<1>4. CASE HandleError
  <2>1. Crash("fatal")
    BY <1>4 DEF HandleError
  <2> QED
    BY <2>1, CrashCounts
<1>5. CASE CloseAfterLastRead
  BY <1>5, CloseAfterLastReadCounts
<1>6. CASE MaskTest
  BY <1>6, MaskTestCounts
<1>7. CASE Arm
  <2>1. Place \in {"arm1", "arm2"}
    BY <1>7 DEF Arm, Place
  <2> QED
    BY <1>7, <2>1, ArmCounts1, ArmCounts2
<1>8. CASE PostFireRead
  BY <1>8, PostFireReadCounts
<1>9. CASE Write
  BY <1>9, WriteCounts
<1>10. CASE HandleWrite
  BY <1>10, HandleWriteCounts
<1>11. CASE Wrote
  BY <1>11, WroteCounts
<1>12. CASE WroteEnd
  BY <1>12, WroteEndCounts
<1>13. CASE PendingTest
  BY <1>13, PendingTestCounts
<1>14. CASE FlagTest
  BY <1>14, FlagTestCounts
<1>15. CASE ReadingTest
  BY <1>15, ReadingTestCounts
<1>16. CASE CountTest
  BY <1>16, CountTestKeeps
<1>17. CASE CloseLambda
  BY <1>17, CloseLambdaKeeps
<1>18. CASE CloseHandler
  BY <1>18, CloseHandlerCounts
<1>19. CASE WriteSet
  BY <1>19, WriteSetCounts
<1>20. CASE WriteStart
  BY <1>20, WriteBegins, WriteFails
<1> QED
  BY <1>1, <1>2, <1>3, <1>4, <1>5, <1>6, <1>7, <1>8, <1>9, <1>10, <1>11, <1>12, <1>13, <1>14,
     <1>15, <1>16, <1>17, <1>18, <1>19, <1>20
  DEF IoStep

(* A turn of decode takes a frame in one call of retrieve or two.          *)
LEMMA FrameTaken ==
    ASSUME ClientInv, user_closed' = user_closed, DropFrame \/ StripFrame \/ ReadFrame
    PROVE  ClientInv'
<1>1. /\ frame \in Int /\ Header \in Int /\ Strip \in Int /\ frame \in Claims
      /\ frame - Strip \in Int
  BY ClientThreads DEF ClientInv, ClientTyped
<1>2. CASE DropFrame
  <2>1. PICK k \in Int : Retrieve(k) /\ frame' \in Claims
    BY <1>1, <1>2 DEF DropFrame, FrameEnds
  <2> QED
    BY <2>1, RetrieveCounts
<1>3. CASE StripFrame
  <2>1. Retrieve(Strip) /\ frame' \in Claims
    BY <1>1, <1>3 DEF StripFrame
  <2> QED
    BY <1>1, <2>1, RetrieveCounts
<1>4. CASE ReadFrame
  <2>1. Retrieve(frame - Strip) /\ frame' \in Claims
    BY <1>4 DEF ReadFrame, FrameEnds
  <2> QED
    BY <1>1, <2>1, RetrieveCounts
<1> QED
  BY <1>2, <1>3, <1>4

(* of the decoder and the handler behind it,                               *)
LEMMA DecodeWorkCounts ==
    ASSUME ClientInv, user_closed' = user_closed, DecodeWork
    PROVE  ClientInv'
<1>1. CASE FireRead /\ UNCHANGED frame
  BY <1>1, FireReadCounts
<1>2. CASE DropFrame \/ StripFrame \/ ReadFrame
  BY <1>2, FrameTaken
<1>3. CASE UNCHANGED <<frame, turn>> /\ ~FireRead /\ ~DropFrame /\ ~StripFrame /\ ~ReadFrame
  <2>0. Fixed
    BY <1>3 DEF Fixed
  <2>1. CASE AppendBytes
    BY <2>0, <2>1, AppendBytesCounts
  <2>2. CASE Close
    BY <2>0, <2>2, CloseCounts
  <2>3. CASE NotifyTest
    BY <2>0, <2>3, NotifyTestCounts
  <2>4. CASE Disarm
    <3>1. Place \in {"clear1", "clear2"}
      BY <2>4, ClientThreads DEF Disarm, Place
    <3> QED
      BY <2>0, <2>4, <3>1, DisarmCounts1, DisarmCounts2
  <2>5. CASE Pend
    BY <2>0, <2>5, PendCounts
  <2>6. CASE PostWrite
    BY <2>0, <2>6, PostWriteStays, PostWriteEnds
  <2>7. CASE Returns /\ FireReadReturns
    BY <2>0, <2>7, FireReadReturnsCounts
  <2>8. CASE EndTask
    <3>1. Place \in {"endHandle", "endCount"}
      BY <2>8, ClientThreads DEF EndTask, Place
    <3> QED
      BY <2>0, <2>8, <3>1, EndTaskCounts1, EndTaskCounts2
  <2> QED
    BY <1>3, <2>1, <2>2, <2>3, <2>4, <2>5, <2>6, <2>7, <2>8 DEF DecodeWork
<1> QED
  BY <1>1, <1>2, <1>3 DEF DecodeWork

(* of handle_connect,                                                      *)
LEMMA HandleConnectKeeps ==
    ASSUME ClientInv, Fixed, HandleConnected \/ HandleConnectEnds
    PROVE  ClientInv'
<1>1. CASE HandleConnected
  <2>1. PICK g \in {0, 1} \cap 0..(MaxOut - env.written) :
            /\ s' = Greeted(s, g) /\ env' = [env EXCEPT !.written = @ + g]
            /\ Go([queue EXCEPT !["io"] = @ \o Repeat(Task("write", 0), g)], "io", HandleConnect)
    BY <1>1 DEF HandleConnected
  <2>2. Begins("io", "connected") /\ UNCHANGED <<net, life>> /\ g \in {0, 1}
    BY <1>1, <2>1 DEF HandleConnected
  <2> QED
    BY <2>1, <2>2, HandleConnectedCounts
<1>2. CASE HandleConnectEnds
  <2>1. /\ Finish("io") /\ UNCHANGED <<s, net, env, life>>
        /\ \/ Place = "idle" /\ Kind \in {"write", "refused"}
           \/ Place = "started" /\ Kind = "connected"
    BY <1>2 DEF HandleConnectEnds, Begins, Runs, Place, Kind, Line, ClientInv, ThreadPlaces
  <2>2. in_handler = FALSE
    BY <2>1, IdleIsOutside
  <2> QED
    BY <2>1, <2>2, FinishCounts
<1> QED
  BY <1>1, <1>2

(* of the connection attempt,                                              *)
LEMMA ConnectEndsCounts ==
    ASSUME ClientInv, Fixed, ConnectEnds
    PROVE  ClientInv'
<1>0. /\ Task("connected", 0) \in Tasks /\ Task("connected", 0).op = "connected"
      /\ Task("refused", 0) \in Tasks /\ Task("refused", 0).op = "refused"
  BY DEF Task, Tasks, Ops
<1>1. env.peer = "none" /\ net' = net /\ net \in ClientSockets /\ env \in ClientOutside
  BY DEF ConnectEnds, ClientInv, ClientTyped
<1>2. CASE env' = [env EXCEPT !.peer = "open"] /\ Completes(Task("connected", 0))
  BY <1>0, <1>1, <1>2, ConnectArrives
<1>3. CASE env' = [env EXCEPT !.peer = "refused"] /\ Completes(Task("refused", 0))
  <2>1. /\ env' \in ClientOutside /\ env'.peer = "refused" /\ net' \in ClientSockets
        /\ net'.reads = net.reads
    BY <1>1, <1>3 DEF ClientOutside
  <2> QED
    BY <1>0, <1>1, <1>3, <2>1, OtherArrives
<1> QED
  BY <1>2, <1>3 DEF ConnectEnds

(* A write comes back, with or without an error.                           *)
LEMMA WriteEndsCounts ==
    ASSUME ClientInv, Fixed, WriteEnds
    PROVE  ClientInv'
<1>1. PICK t \in Tasks : t.op \in {"write_ok", "write_error"} /\ Completes(t)
  <2>0. \A n \in Nat : Task("write_ok", n) \in Tasks /\ Task("write_ok", n).op = "write_ok"
    BY DEF Task, Tasks, Ops
  <2>1. Task("write_error", 0) \in Tasks /\ Task("write_error", 0).op = "write_error"
    BY DEF Task, Tasks, Ops
  <2>2. CASE \E n \in (IF Head(net.writes) = 0 THEN {0} ELSE 1..Head(net.writes)) :
                Completes(Task("write_ok", n))
    <3>1. PICK n \in Nat : Completes(Task("write_ok", n))
      BY <2>2
    <3> QED
      BY <2>0, <3>1
  <2>3. CASE Completes(Task("write_error", 0))
    BY <2>1, <2>3
  <2> QED
    BY <2>2, <2>3 DEF WriteEnds
<1>2. net' \in ClientSockets /\ net'.reads = net.reads
  <2>1. net \in ClientSockets /\ net.writes \in Seq(Int) /\ net.writes # <<>>
    BY DEF WriteEnds, ClientInv, ClientTyped, ClientSockets
  <2>2. PICK w \in Seq(Int) : w = Tail(net.writes)
    <3>1. Tail(net.writes) \in Seq(Int)
      BY <2>1
    <3> QED
      BY <3>1
  <2>3. net' = [net EXCEPT !.writes = w]
    BY <2>2 DEF WriteEnds
  <2> QED
    BY <2>1, <2>3 DEF ClientSockets
<1>3. env' = env /\ env' \in ClientOutside
  BY DEF WriteEnds, ClientInv, ClientTyped
<1>4. t.op \in {"write_ok", "write_error", "append", "refused"}
  BY <1>1
<1> QED
  BY <1>1, <1>2, <1>3, <1>4, OtherArrives

(* The user writes.                                                        *)
LEMMA WritePostsCounts ==
    ASSUME ClientInv, Fixed, WritePosts
    PROVE  ClientInv'
<1>1. Task("append", 1) \in Tasks /\ Task("append", 1).op = "append"
  BY DEF Task, Tasks, Ops
<1>2. Completes(Task("append", 1)) /\ net' = net
  BY ClientThreads DEF WritePosts, Completes
<1>3. /\ env' \in ClientOutside /\ env'.peer = env.peer /\ net' \in ClientSockets
      /\ net'.reads = net.reads
  <2>1. env \in ClientOutside /\ net \in ClientSockets
    BY DEF ClientInv, ClientTyped
  <2>2. PICK w \in Int : w = env.written + 1
    BY <2>1 DEF ClientOutside
  <2>3. env' = [env EXCEPT !.written = w]
    BY <2>2 DEF WritePosts
  <2> QED
    BY <1>2, <2>1, <2>3 DEF ClientOutside
<1> QED
  BY <1>1, <1>2, <1>3, OtherArrives

(* and of the kernel, the peer and the user.                               *)
LEMMA EnvStepCounts ==
    ASSUME ClientInv, Fixed, EnvStep
    PROVE  ClientInv'
<1>1. CASE \E n \in 1..MaxIn : ReadCompletes(n)
  <2>1. PICK n \in 1..MaxIn : ReadCompletes(n)
    BY <1>1
  <2>2. PICK t \in Tasks : t = Task("read_ok", n) /\ t.op = "read_ok"
    <3>1. n \in Nat
      OBVIOUS
    <3>2. Task("read_ok", n) \in Tasks /\ Task("read_ok", n).op = "read_ok"
      BY <3>1 DEF Task, Tasks, Ops
    <3> QED
      BY <3>2
  <2>3. Completes(t) /\ net.reads > 0 /\ net' = [net EXCEPT !.reads = @ - 1]
    BY <2>1, <2>2 DEF ReadCompletes
  <2>4. env' \in ClientOutside /\ env'.peer = env.peer
    <3>1. env \in ClientOutside
      BY DEF ClientInv, ClientTyped
    <3>2. PICK m \in Int : m = env.received + n
      BY <3>1 DEF ClientOutside
    <3>3. env' = [env EXCEPT !.received = m]
      BY <2>1, <3>2 DEF ReadCompletes
    <3> QED
      BY <3>1, <3>3 DEF ClientOutside
  <2> QED
    BY <2>2, <2>3, <2>4, ReadArrives
<1>2. CASE ReadEnds
  <2>1. PICK t \in Tasks : t.op \in {"read_end", "read_error"} /\ Completes(t)
    <3>1. /\ Task("read_end", 0) \in Tasks /\ Task("read_end", 0).op = "read_end"
          /\ Task("read_error", 0) \in Tasks /\ Task("read_error", 0).op = "read_error"
      BY DEF Task, Tasks, Ops
    <3>2. Completes(Task("read_end", 0)) \/ Completes(Task("read_error", 0))
      BY <1>2 DEF ReadEnds
    <3> QED
      BY <3>1, <3>2
  <2>2. net.reads > 0 /\ net' = [net EXCEPT !.reads = @ - 1] /\ env' = env
    BY <1>2 DEF ReadEnds
  <2> QED
    BY <2>1, <2>2, ReadEndArrives
<1>3. CASE WriteEnds
  BY <1>3, WriteEndsCounts
<1>4. CASE PeerCloses
  BY <1>4, PeerClosesCounts
<1>5. CASE WritePosts
  BY <1>5, WritePostsCounts
<1> QED
  BY <1>1, <1>2, <1>3, <1>4, <1>5 DEF EnvStep

(* Every step of the client keeps the invariant,                           *)
LEMMA ClientNextCounts ==
    ASSUME ClientInv, ClientNext
    PROVE  ClientInv'
<1>1. CASE DecodeWork /\ UNCHANGED user_closed
  BY <1>1, DecodeWorkCounts
<1>2. CASE UNCHANGED <<frame, turn, user_closed>> /\ (IoStep \/ AnyStep("io"))
  <2>1. Fixed
    BY <1>2 DEF Fixed
  <2> QED
    BY <1>2, <2>1, IoStepCounts, AnyStepCounts
<1>3. CASE UNCHANGED <<frame, turn, user_closed>> /\ (HandleConnected \/ HandleConnectEnds)
  <2>1. Fixed
    BY <1>3 DEF Fixed
  <2> QED
    BY <1>3, <2>1, HandleConnectKeeps
<1>4. CASE UNCHANGED <<frame, turn, user_closed>> /\ (ConnectEnds \/ EnvStep)
  <2>1. Fixed
    BY <1>4 DEF Fixed
  <2> QED
    BY <1>4, <2>1, ConnectEndsCounts, EnvStepCounts
<1>5. CASE UNCHANGED <<frame, turn, user_closed>> /\ (IdleClose \/ AnyStep("acc"))
  <2>1. Fixed
    BY <1>5 DEF Fixed
  <2> QED
    BY <1>5, <2>1, IdleCloseCounts, UserStepCounts
<1>6. CASE UserCloses /\ user_closed' = TRUE /\ UNCHANGED <<frame, turn>>
  BY <1>6, UserClosesCounts
<1> QED
  BY <1>1, <1>2, <1>3, <1>4, <1>5, <1>6 DEF ClientNext, ClientRuns

(* as does a step of somebody else,                                        *)
LEMMA ClientStutter ==
    ASSUME ClientInv, UNCHANGED clientVars
    PROVE  ClientInv'
<1>x. UNCHANGED <<s, net, env, queue, pc, in_handler, life, frame, turn, user_closed>>
  BY DEF clientVars, vars
<1>q. Kind' = Kind /\ Place' = Place /\ \A op : Many(op)' = Many(op)
  BY <1>x, QueueLeft DEF Place
<1>1. ClientTyped'
  BY <1>x DEF ClientInv, ClientTyped
<1>2. /\ ThreadPlaces' /\ UserPlaces' /\ OneRight' /\ FlagClear' /\ CountTrue' /\ NothingYet'
      /\ EndKnown'
  BY <1>x, <1>q
  DEF ClientInv, ThreadPlaces, UserPlaces, OneRight, FlagClear, CountTrue, NothingYet, EndKnown,
      Waits, Handled, Starter, Resumed, Notifier, Attempt, Out, Connecting, If
<1>3. Over' /\ ArmTrue' /\ ReadComing' /\ DecodeComing'
  BY <1>x, <1>q
  DEF ClientInv, Over, Silent, Connecting, Starter, Waits, ArmTrue, ReadComing, DecodeComing,
      Stays, If
<1> QED
  BY <1>1, <1>2, <1>3 DEF ClientInv

(* and the client starts with it.                                          *)
LEMMA ClientStarts ==
    ASSUME ClientInit
    PROVE  ClientInv
<1> USE ClientThreads
<1>1. /\ s = NewSession /\ net.reads = 0 /\ env.peer \in {"none", "refused"}
      /\ net \in ClientSockets /\ env \in ClientOutside
  <2>1. PICK w \in Seq(Int) : w = <<>>
    <3>1. <<>> \in Seq(Int)
      OBVIOUS
    <3> QED
      BY <3>1
  <2>2. s = NewSession
    BY DEF ClientInit
  <2>3. CASE /\ net = [sock |-> "open", reads |-> 0, writes |-> <<>>]
             /\ env = [peer |-> "none", received |-> 0, written |-> 0]
    BY <2>1, <2>2, <2>3 DEF ClientSockets, ClientOutside
  <2>4. CASE /\ net = [sock |-> "closed", reads |-> 0, writes |-> <<>>]
             /\ env = [peer |-> "refused", received |-> 0, written |-> 0]
    BY <2>1, <2>2, <2>4 DEF ClientSockets, ClientOutside
  <2> QED
    BY <2>3, <2>4 DEF ClientInit
<1>2. /\ pc = [th \in {"io", "acc"} |-> "idle"] /\ in_handler = FALSE
      /\ life = [where |-> "client", fired |-> 0, passed |-> FALSE, crashed |-> "no"]
      /\ frame \in Claims /\ user_closed = FALSE
  BY DEF ClientInit
<1>3. queue \in ClientQueues /\ Line = <<>>
  <2>1. <<>> \in Seq(Tasks)
    OBVIOUS
  <2>2. queue = [th \in {"io"} |-> <<>>]
    BY DEF ClientInit
  <2> QED
    BY <2>1, <2>2 DEF ClientQueues, Line
<1>4. Kind = "none" /\ Place = "idle" /\ \A op : Many(op) = 0
  <2>1. \A op : Num(<<>>, op) = 0
    <3>1. ASSUME NEW op PROVE {i \in DOMAIN <<>> : <<>>[i].op = op} = {}
      OBVIOUS
    <3> QED
      BY <3>1, FS_EmptySet DEF Num
  <2> QED
    BY <1>2, <1>3, <2>1 DEF Kind, Place, Many
<1>5. ClientTyped
  <2>1. s \in ClientMembers
    BY <1>1 DEF NewSession, ClientMembers
  <2>2. life \in ClientLives
    BY <1>2 DEF ClientLives
  <2>3. pc \in [{"io", "acc"} -> Labels]
    BY <1>2 DEF Labels
  <2> QED
    BY <1>1, <1>2, <1>3, <2>1, <2>2, <2>3 DEF ClientTyped
<1>6. ThreadPlaces /\ UserPlaces /\ OneRight /\ FlagClear /\ CountTrue /\ NothingYet /\ EndKnown
  BY <1>1, <1>2, <1>4
  DEF NewSession, ThreadPlaces, UserPlaces, OneRight, FlagClear, CountTrue, NothingYet, EndKnown,
      Waits, Handled, Starter, Resumed, Notifier, Attempt, Out, Connecting, If
<1>7. Over /\ ArmTrue /\ ReadComing /\ DecodeComing
  BY <1>1, <1>2, <1>4
  DEF NewSession, Over, Silent, Connecting, Starter, Waits, ArmTrue, ReadComing, DecodeComing,
      Stays, If
<1> QED
  BY <1>5, <1>6, <1>7 DEF ClientInv

-----------------------------------------------------------------------------
(* The invariant holds of every client, whatever its mask, the length of   *)
(* the frames and the bounds on what is sent and written.                  *)
THEOREM ClientInvariant == ClientSpec => []ClientInv
<1>1. ClientInit => ClientInv
  BY ClientStarts
<1>2. ClientInv /\ [ClientNext]_clientVars => ClientInv'
  BY ClientNextCounts, ClientStutter
<1> QED
  BY <1>1, <1>2, PTL DEF ClientSpec

(* A client's reading stops for good in four ways only: when nothing is    *)
(* left to run, an open connection is being read, or the buffer is at the  *)
(* mask and decode takes nothing of it (no more than a header, a frame     *)
(* that is too long, or a part of one) or has returned behind a frame that *)
(* it dropped.                                                             *)
THEOREM ClientReadsOn == ClientSpec => []ReadsOnUnlessHeldUp
<1>1. ClientInv => ReadsOnUnlessHeldUp
  <2> SUFFICES ASSUME ClientInv, Running, Quiet, env.peer \in {"open", "fin"}, ~s.close_flag,
                      ~s.reading
               PROVE  s.notify /\ s.rbuf >= Mask /\ (Stays \/ turn = "dropped")
    BY DEF ReadsOnUnlessHeldUp, Stays
  <2>1. Place = "idle" /\ Line = <<>>
    BY ClientThreads DEF Quiet, Place, Line
  <2>2. \A op : Many(op) = 0
    <3>1. ASSUME NEW op PROVE {i \in DOMAIN <<>> : <<>>[i].op = op} = {}
      OBVIOUS
    <3> QED
      BY <2>1, <3>1, FS_EmptySet DEF Many, Num
  <2>3. Kind = "none"
    BY <2>1 DEF Kind
  <2>4. s.notify /\ s.high_water = Mask /\ s.rbuf >= Mask
    BY <2>1, <2>2, <2>3 DEF ClientInv, ReadComing, Waits, If
  <2>5. Stays \/ turn = "dropped"
    BY <2>1, <2>2, <2>3 DEF ClientInv, DecodeComing, If
  <2> QED
    BY <2>4, <2>5
<1> QED
  BY <1>1, ClientInvariant, PTL

(* No handler of a client runs after fire_closed, and none is queued to,   *)
(* unless its user's thread closed.                                        *)
THEOREM ClientNothingAfterClosed == ClientSpec => []NothingAfterClosed
<1>1. ClientInv => NothingAfterClosed
  BY DEF ClientInv, NothingAfterClosed, Over
<1> QED
  BY <1>1, ClientInvariant, PTL
=============================================================================
