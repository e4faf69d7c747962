--------------------------- MODULE SessionProofs ---------------------------
(***************************************************************************)
(* Theorems about a server's session (~Shared: an I/O and a work thread of *)
(* their own, and the accept thread), for any mask, any number of bytes    *)
(* read and written and any width of pending_write_len_: the properties of *)
(* Session that its flags, counters and buffers keep, and that it          *)
(* implements SessionLife.  First the lemmas about the queues it counts    *)
(* on, then the inductive invariant, the steps of each thread, which keep  *)
(* it, and the theorems.                                                   *)
(*                                                                         *)
(* A lemma about a step has the same steps wherever they apply: e, what    *)
(* was so before it; x, what it does; p, the task it counts on; q and n,   *)
(* the queues and their counts; f, the members after it; r and v, values   *)
(* that are within their types; k, the terms it leaves alone; b, the terms *)
(* it changes; then one step for each part of the invariant.               *)
(***************************************************************************)
EXTENDS Session, SequenceTheorems, FiniteSetTheorems, TLAPS

(* Which places of a queue hold a task of a kind: Num counts them.         *)
OfKind(q, op) == {i \in DOMAIN q : q[i].op = op}

(* The tasks of a kind in a queue are finitely many.                       *)
LEMMA NumType ==
    ASSUME NEW q \in Seq(Tasks), NEW op
    PROVE  /\ IsFiniteSet(OfKind(q, op)) /\ Num(q, op) = Cardinality(OfKind(q, op))
           /\ Num(q, op) \in Nat
<1>1. DOMAIN q = 1..Len(q) /\ Len(q) \in Nat
  OBVIOUS
<1>2. IsFiniteSet(1..Len(q))
  BY <1>1, FS_Interval
<1>3. OfKind(q, op) \in SUBSET (1..Len(q))
  BY <1>1 DEF OfKind
<1>4. IsFiniteSet(OfKind(q, op))
  BY <1>2, <1>3, FS_Subset
<1> QED
  BY <1>4, FS_CardinalityType DEF Num, OfKind

(* There are none in an empty queue,                                       *)
LEMMA NumEmpty == ASSUME NEW op PROVE Num(<<>>, op) = 0
<1>1. {i \in DOMAIN <<>> : <<>>[i].op = op} = {}
  OBVIOUS
<1> QED
  BY <1>1, FS_EmptySet DEF Num

(* one more when one is posted,                                            *)
LEMMA NumAppend ==
    ASSUME NEW q \in Seq(Tasks), NEW t \in Tasks, NEW op
    PROVE  Num(Append(q, t), op) = Num(q, op) + If(t.op = op)
<1>1. /\ Append(q, t) \in Seq(Tasks) /\ Len(q) \in Nat
      /\ DOMAIN q = 1..Len(q) /\ DOMAIN Append(q, t) = 1..Len(q) + 1
      /\ \A i \in 1..Len(q) : Append(q, t)[i] = q[i]
      /\ Append(q, t)[Len(q) + 1] = t
  OBVIOUS
<1>2. IsFiniteSet(OfKind(q, op)) /\ Num(q, op) = Cardinality(OfKind(q, op)) /\ Num(q, op) \in Nat
      /\ Num(Append(q, t), op) = Cardinality(OfKind(Append(q, t), op))
  BY <1>1, NumType
<1>3. CASE t.op = op
  <2>1. OfKind(Append(q, t), op) = OfKind(q, op) \cup {Len(q) + 1}
    BY <1>1, <1>3 DEF OfKind
  <2>2. Len(q) + 1 \notin OfKind(q, op)
    BY <1>1 DEF OfKind
  <2> QED
    BY <1>2, <1>3, <2>1, <2>2, FS_AddElement DEF If
<1>4. CASE t.op # op
  <2>1. OfKind(Append(q, t), op) = OfKind(q, op)
    BY <1>1, <1>4 DEF OfKind
  <2> QED
    BY <1>2, <1>4, <2>1 DEF If
<1> QED
  BY <1>3, <1>4

(* one less when one is done,                                              *)
LEMMA NumTail ==
    ASSUME NEW q \in Seq(Tasks), q # <<>>, NEW op
    PROVE  Num(Tail(q), op) = Num(q, op) - If(Head(q).op = op)
<1>1. /\ Tail(q) \in Seq(Tasks) /\ Len(q) \in Nat \ {0}
      /\ DOMAIN q = 1..Len(q) /\ DOMAIN Tail(q) = 1..Len(q) - 1
      /\ \A i \in 1..Len(q) - 1 : Tail(q)[i] = q[i + 1]
      /\ Head(q) = q[1]
  OBVIOUS
<1> DEFINE A == OfKind(Tail(q), op)
           B == OfKind(q, op) \ {1}
           f == [i \in A |-> i + 1]
<1>2. IsFiniteSet(A) /\ Num(Tail(q), op) = Cardinality(A)
      /\ IsFiniteSet(OfKind(q, op)) /\ Num(q, op) = Cardinality(OfKind(q, op)) /\ Num(q, op) \in Nat
  BY <1>1, NumType
<1>3. f \in [A -> B]
  BY <1>1 DEF OfKind
<1>4. \A a, c \in A : f[a] = f[c] => a = c
  BY <1>1 DEF OfKind
<1>5. \A c \in B : \E a \in A : f[a] = c
  <2> SUFFICES ASSUME NEW c \in B PROVE \E a \in A : f[a] = c
    OBVIOUS
  <2>1. c - 1 \in A
    BY <1>1 DEF OfKind
  <2>2. f[c - 1] = c
    BY <1>1, <2>1 DEF OfKind
  <2> QED
    BY <2>1, <2>2
<1>6. ExistsBijection(A, B)
  <2>1. f \in Bijection(A, B)
    BY <1>3, <1>4, <1>5 DEF Bijection, Injection, Surjection, IsInjective
  <2> QED
    BY <2>1 DEF ExistsBijection
<1>7. Cardinality(B) = Cardinality(A)
  BY <1>2, <1>6, FS_Bijection
<1>8. Cardinality(B) = IF 1 \in OfKind(q, op) THEN Num(q, op) - 1 ELSE Num(q, op)
  BY <1>2, FS_RemoveElement
<1>9. 1 \in OfKind(q, op) <=> Head(q).op = op
  BY <1>1 DEF OfKind
<1> QED
  BY <1>2, <1>7, <1>8, <1>9 DEF If

(* and n more of the kind that is posted n times.                          *)
LEMMA NumRepeat ==
    ASSUME NEW q \in Seq(Tasks), NEW t \in Tasks, NEW n \in Nat, NEW op
    PROVE  /\ q \o Repeat(t, n) \in Seq(Tasks)
           /\ Num(q \o Repeat(t, n), op) = Num(q, op) + (IF t.op = op THEN n ELSE 0)
<1> DEFINE r == Repeat(t, n)
           c == q \o r
           L == Len(q)
<1>1. r \in Seq(Tasks) /\ Len(r) = n /\ \A i \in 1..n : r[i] = t
  BY DEF Repeat
<1>2. /\ c \in Seq(Tasks) /\ L \in Nat
      /\ DOMAIN q = 1..L /\ DOMAIN c = 1..L + n
      /\ \A i \in 1..L : c[i] = q[i]
      /\ \A i \in L + 1..L + n : c[i] = t
  <2> HIDE DEF r
  <2>1. L \in Nat /\ DOMAIN q = 1..L
    OBVIOUS
  <2>2. /\ c \in Seq(Tasks) /\ Len(c) = L + n
        /\ \A i \in 1..L + n : c[i] = IF i <= L THEN q[i] ELSE r[i - L]
    BY <1>1, ConcatProperties
  <2>3. DOMAIN c = 1..L + n
    BY <2>2
  <2> QED
    BY <1>1, <2>1, <2>2, <2>3
<1>3. /\ IsFiniteSet(OfKind(q, op)) /\ Num(q, op) = Cardinality(OfKind(q, op)) /\ Num(q, op) \in Nat
      /\ Num(c, op) = Cardinality(OfKind(c, op))
  BY <1>2, NumType
<1> HIDE DEF c, r
<1>4. CASE t.op = op
  <2> DEFINE I == L + 1..L + n
  <2>1. OfKind(c, op) = OfKind(q, op) \cup I /\ OfKind(q, op) \cap I = {}
    BY <1>2, <1>4 DEF OfKind
  <2>2. IsFiniteSet(I) /\ Cardinality(I) = n
    BY <1>2, FS_Interval
  <2> HIDE DEF I
  <2>3. Cardinality(OfKind(q, op) \cup I)
            = Cardinality(OfKind(q, op)) + Cardinality(I) - Cardinality(OfKind(q, op) \cap I)
    BY <1>3, <2>2, FS_Union
  <2>4. /\ Cardinality(OfKind(q, op) \cap I) = 0
        /\ Cardinality(OfKind(c, op)) = Cardinality(OfKind(q, op) \cup I)
    BY <2>1, FS_EmptySet, Zenon
  <2>5. Num(c, op) = Num(q, op) + n
    BY <1>3, <2>2, <2>3, <2>4
  <2> QED
    BY <1>2, <1>4, <2>5 DEF c, r
<1>5. CASE t.op # op
  <2>1. OfKind(c, op) = OfKind(q, op)
    BY <1>2, <1>5 DEF OfKind
  <2> QED
    BY <1>2, <1>3, <1>5, <2>1 DEF c, r
<1> QED
  BY <1>4, <1>5

(* When none is counted, none is there.                                    *)
LEMMA NumZero ==
    ASSUME NEW q \in Seq(Tasks), NEW op
    PROVE  Num(q, op) = 0 <=> \A i \in 1..Len(q) : q[i].op # op
<1>1. IsFiniteSet(OfKind(q, op)) /\ Num(q, op) = Cardinality(OfKind(q, op))
  BY NumType
<1>2. Num(q, op) = 0 <=> OfKind(q, op) = {}
  BY <1>1, FS_EmptySet
<1> QED
  BY <1>2 DEF OfKind

-----------------------------------------------------------------------------
(* A server's session has three threads, two of which run tasks.           *)
LEMMA ServerThreads ==
    ~Shared => /\ Work = "work" /\ Runners = {"io", "work"} /\ Threads = {"io", "work", "acc"}
BY DEF Work, Runners, Threads

Queues == [Runners -> Seq(Tasks)]

(* Where each thread can be, and the task it runs there.                   *)
IoPlaces ==
    /\ pc["io"] \in {"idle", "closeTest", "maskTest", "arm1", "arm2", "readSet", "readStart",
                     "postRead", "writeOn", "writeSet", "writeStart", "wrote", "wroteEnd",
                     "pendingTest", "flagTest", "readingTest", "countTest", "remove"}
    /\ pc["io"] # "idle" => queue["io"] # <<>>
    /\ pc["io"] \in {"closeTest", "maskTest", "arm1", "arm2", "readSet", "readStart",
                     "postRead"} => Head(queue["io"]).op = "read_ok"
    /\ pc["io"] \in {"wrote", "pendingTest", "writeOn"} => Head(queue["io"]).op = "write_ok"
    /\ pc["io"] \in {"writeSet", "writeStart"} => Head(queue["io"]).op \in {"write", "write_ok"}
    /\ pc["io"] = "writeSet" => ~s.writing
    /\ pc["io"] = "wroteEnd" => Head(queue["io"]).op = "write_end"
    /\ pc["io"] \in {"flagTest", "readingTest"}
           => Head(queue["io"]).op \in {"write_ok", "write_end"}
    /\ pc["io"] = "countTest"
           => Head(queue["io"]).op \in {"read_ok", "read_end", "write_ok", "write_end"}
    /\ pc["io"] = "remove"
           => Head(queue["io"]).op \in {"read_ok", "read_end", "write_ok", "write_end", "close"}

WorkPlaces ==
    /\ pc["work"] \in {"idle", "user", "notifyTest", "readSet", "readStart", "clear1",
                       "clear2", "pend", "postWrite", "endHandle", "endCount", "cnFlag",
                       "cnCount", "cnReading", "cnCancel"}
    /\ pc["work"] # "idle" => queue["work"] # <<>>
    /\ in_handler => pc["work"] \notin {"idle", "endHandle", "endCount"}
                     /\ Head(queue["work"]).op = "fire_read"
    /\ pc["work"] \in {"user", "notifyTest", "readSet", "readStart", "clear1", "clear2"}
           => in_handler
    /\ pc["work"] \in {"endHandle", "endCount", "cnFlag", "cnCount", "cnReading",
                       "cnCancel"} => Head(queue["work"]).op = "fire_read"
    /\ pc["work"] \in {"pend", "postWrite"} => in_handler \/ Head(queue["work"]).op = "append"

AccPlaces ==
    /\ pc["acc"] \in {"readSet", "readStart", "idle", "idleClose", "cnFlag", "cnCount",
                      "cnReading", "cnCancel", "erase"}
    /\ pc["acc"] \in {"idleClose", "cnFlag", "cnCount", "cnReading", "cnCancel", "erase"}
           => life.where = "session_map"

(* The terms of the counts: tasks on a queue, operations outstanding, the  *)
(* counters, and bits that tell of a flag or of the running task.          *)
OnIo(op) == Num(queue["io"], op)
OnWork(op) == Num(queue["work"], op)
ReadsOut  == net.reads
WritesOut == Len(net.writes)
Handles   == s.handle_count
Handlers  == s.work_read_count
Buffered  == s.wbuf
Written   == env.written

(* The consumer between its test of the notification and the end of it;    *)
(* handle_read before it has reached the restart of reading.               *)
Resuming == pc["work"] \in {"readSet", "readStart", "clear1", "clear2"}
HandlesRead == pc["io"] \in {"closeTest", "maskTest", "arm1", "arm2"}

(* Reading: a thread is about to start a read (Starting) or will set       *)
(* reading_ and start one; the I/O thread has taken its completion, and    *)
(* has passed the right to read on; the notification is armed.             *)
ReadFlag   == If(s.reading)
Starts(th) == If(pc[th] = "readStart")
Reads(th)  == If(pc[th] \in {"readSet", "readStart"})
Starting   == Starts("io") + Starts("work") + Starts("acc")
Reading    == Reads("io") + Reads("work") + Reads("acc")
Taken(op)  == If(InTask("io", op))
ReadPassed == If(InTask("io", "read_ok") /\ ~HandlesRead)
Armed      == If(s.high_water # 0 /\ ~Resuming)

(* Writing: the I/O thread has set writing_ for the write it will start,   *)
(* or has given it back for the completed write that it handles.           *)
WriteFlag  == If(s.writing)
WriteNext  == If(pc["io"] = "writeStart")
WroteOk    == If(InTask("io", "write_ok") /\ pc["io"] # "wrote")
WroteEnded == If(InTask("io", "write_end") /\ pc["io"] # "wroteEnd")

(* Handlers and handles: a fire_read that runs has left work_read_count_,  *)
(* or handle_count_; a write under way has not given its handle back.      *)
CloseFlag   == If(s.close_flag)
HandlerOut  == If(Returned)
HandlerPast == If(Returned \/ pc["work"] = "endCount")
WriteHeld   == If(s.writing /\ pc["io"] \notin {"writeStart", "wrote", "wroteEnd"})
Appends     == If(InTask("work", "append"))

(* reading_ counts the reads that are being started, outstanding, or       *)
(* completed and not handled (FlagsTruthful).                              *)
ReadsTrue ==
    ReadFlag = Starting + ReadsOut + OnIo("read_ok") - Taken("read_ok")
               + OnIo("read_end") - Taken("read_end") + OnIo("read_error")

(* There is one right to read: it is with a thread about to read, with     *)
(* the read under way, with handle_read until it reads again or arms the   *)
(* notification, or with the armed notification. This is why reading_ is   *)
(* never set twice, and what the counts alone would not keep.              *)
OneReader ==
    Reading + ReadsOut
        + OnIo("read_ok") - ReadPassed + OnIo("read_end") - Taken("read_end")
        + OnIo("read_error") + Armed <= 1

(* writing_ counts the writes about to be started, outstanding, or         *)
(* completed and not handled;                                              *)
(* the two counters count what is posted, runs or waits.                   *)
WritesTrue ==
    WriteFlag = WritesOut + WriteNext + OnIo("write_ok") - WroteOk
                + OnIo("write_end") - WroteEnded + OnIo("write_error")

HandlersTrue == Handlers = OnWork("fire_read") - HandlerOut

HandlesTrue ==
    /\ Handles >= OnWork("fire_read") - HandlerPast + WriteHeld + Taken("read_ok")
    /\ CloseFlag = 0 => Handles = OnWork("fire_read") - HandlerPast + WriteHeld + Taken("read_ok")

(* Nothing is in the write buffer that was not written, nor is a write     *)
(* longer than the buffer, outstanding or completed.                       *)
OutBounded == Buffered + OnWork("append") - Appends <= Written /\ Written <= MaxOut

OutFits == \A i \in 1..Len(net.writes) : net.writes[i] <= s.wbuf

DoneFits ==
    \A i \in 1..Len(queue["io"]) :
        queue["io"][i].op = "write_ok" =>
            queue["io"][i].n <= s.wbuf \/ (i = 1 /\ pc["io"] \notin {"idle", "wrote"})

(* pending_write_len_ is the length of the write buffer, or one short of   *)
(* it between an append and its notify_write; then it may be below zero.   *)
PendingShort ==
    IF pc["work"] # "pend" THEN s.pending = s.wbuf
    ELSE s.pending = IF s.wbuf = 0 THEN SizeMod - 1 ELSE s.wbuf - 1

(* Somebody is writing what is in the buffer of an open session, or is     *)
(* about to look at it.                                                    *)
WriteComing ==
    s.wbuf > 0 /\ ~s.close_flag =>
        \/ s.writing \/ OnIo("write") > 0
        \/ pc["work"] \in {"pend", "postWrite"}
        \/ pc["io"] \in {"pendingTest", "writeOn", "writeSet"}

(* Whoever is on the way to the end has found close_flag_ set.             *)
ClosingKnown ==
    \/ pc["io"] \in {"readingTest", "countTest", "remove"} \/ InTask("io", "read_end")
    \/ net.sock # "open" \/ life.fired > 0 \/ OnIo("close") > 0
    \/ pc["work"] \in {"cnCount", "cnReading", "cnCancel"}
    \/ pc["acc"] \in {"cnFlag", "cnCount", "cnReading", "cnCancel", "erase"}
    => s.close_flag

(* The socket, fire_closed and the maps of the server follow each other.   *)
LifeInOrder ==
    /\ life.fired \in {0, 1}
    /\ pc["io"] = "readingTest" => net.sock = "shut"
    /\ pc["io"] = "countTest" => net.sock = "closed" /\ life.fired = 0
    /\ pc["io"] = "remove" => life.fired = 1
    /\ life.fired = 1 => net.sock = "closed" /\ (pc["io"] = "remove" \/ life.where = "none")
    /\ life.where = "none" => life.fired = 1
    /\ life.where \in {"session_map", "wait_remove", "none"}

(* A session whose closing was left to a write() that did nothing keeps    *)
(* nothing in its write buffer that no later write() will find.            *)
Left ==
    /\ life.passed
    /\ s.wbuf = 0 \/ OnIo("write") > 0 \/ pc["work"] \in {"pend", "postWrite"}

(* Any other session that is closing is on its way: a read or a write will *)
(* come back, a handler will return, or a thread is about to look at it.   *)
ClosesOn ==
    \/ s.reading \/ s.writing \/ s.work_read_count # 0
    \/ pc["acc"] \in {"readSet", "cnFlag", "cnCount", "cnReading"}
    \/ pc["work"] \in {"cnFlag", "cnCount", "cnReading"}
    \/ pc["io"] # "idle" \/ OnIo("close") > 0
    \/ life.where = "none"

WillClose == s.close_flag /\ life.crashed = "no" => ClosesOn \/ Left

(* The inductive invariant.                                                *)
IInv ==
    /\ TypeOK /\ IoPlaces /\ WorkPlaces /\ AccPlaces
    /\ ReadsTrue /\ OneReader /\ WritesTrue /\ HandlersTrue /\ HandlesTrue /\ OutBounded
    /\ OutFits /\ DoneFits /\ PendingShort /\ WriteComing
    /\ ClosingKnown /\ LifeInOrder /\ WillClose

(* What each of the counts is made of.                                     *)
readTerms == <<ReadFlag, Starting, Reading, ReadsOut,
               OnIo("read_ok"), OnIo("read_end"), OnIo("read_error"),
               Taken("read_ok"), Taken("read_end"), ReadPassed, Armed>>
writeTerms == <<WriteFlag, WriteNext, WritesOut,
                OnIo("write_ok"), OnIo("write_end"), OnIo("write_error"),
                WroteOk, WroteEnded>>
handlerTerms == <<Handlers, OnWork("fire_read"), HandlerOut>>
handleTerms == <<Handles, OnWork("fire_read"), HandlerPast, WriteHeld, Taken("read_ok"), CloseFlag>>
outTerms == <<Buffered, OnWork("append"), Appends, Written>>

-----------------------------------------------------------------------------
(* The terms of the counts are numbers, and a task at the head is          *)
(* counted.                                                                *)
LEMMA TermTypes ==
    ASSUME ~Shared, TypeOK
    PROVE  /\ ReadsOut \in Nat /\ WritesOut \in Nat /\ Handles \in Nat /\ Handlers \in Nat
           /\ Buffered \in Nat /\ Written \in Nat
           /\ \A op \in Ops : OnIo(op) \in Nat /\ OnWork(op) \in Nat
           /\ \A op \in Ops : queue["io"] # <<>> /\ Head(queue["io"]).op = op => OnIo(op) > 0
           /\ \A op \in Ops : queue["work"] # <<>> /\ Head(queue["work"]).op = op => OnWork(op) > 0
<1>1. queue["io"] \in Seq(Tasks) /\ queue["work"] \in Seq(Tasks)
  BY ServerThreads DEF TypeOK
<1>2. ReadsOut \in Nat /\ Handles \in Nat /\ Handlers \in Nat /\ Buffered \in Nat /\ Written \in Nat
  BY DEF TypeOK, Members, Sockets, Outside, ReadsOut, Handles, Handlers, Buffered, Written
<1>3. WritesOut \in Nat
  BY DEF WritesOut
<1>4. \A op \in Ops : OnIo(op) \in Nat /\ OnWork(op) \in Nat
  BY <1>1, NumType DEF OnIo, OnWork
<1>5. ASSUME NEW op \in Ops, NEW q \in Seq(Tasks), q # <<>>, Head(q).op = op
      PROVE  Num(q, op) > 0
  <2>1. Tail(q) \in Seq(Tasks) /\ Num(Tail(q), op) = Num(q, op) - 1
    BY <1>5, NumTail DEF If
  <2>2. Num(Tail(q), op) \in Nat /\ Num(q, op) \in Nat
    BY <2>1, NumType
  <2> QED
    BY <2>1, <2>2
<1> QED
  BY <1>1, <1>2, <1>3, <1>4, <1>5 DEF OnIo, OnWork

(* The same, one kind at a time: the provers count with these facts.       *)
LEMMA Terms ==
    ASSUME ~Shared, TypeOK
    PROVE  /\ ReadsOut \in Nat /\ WritesOut \in Nat /\ Handles \in Nat /\ Handlers \in Nat
           /\ Buffered \in Nat /\ Written \in Nat
           /\ OnIo("read_ok") \in Nat /\ OnIo("read_end") \in Nat /\ OnIo("read_error") \in Nat
           /\ OnIo("write_ok") \in Nat /\ OnIo("write_end") \in Nat /\ OnIo("write_error") \in Nat
           /\ OnIo("write") \in Nat /\ OnIo("close") \in Nat
           /\ OnWork("fire_read") \in Nat /\ OnWork("append") \in Nat
BY TermTypes DEF Ops

(* What is told of a flag, or of the place of a thread, is 0 or 1.         *)
LEMMA Bits ==
    /\ ReadFlag \in {0, 1}
    /\ Starting \in 0..3 /\ Reading \in 0..3
    /\ Taken("read_ok") \in {0, 1} /\ Taken("read_end") \in {0, 1}
    /\ ReadPassed \in {0, 1} /\ Armed \in {0, 1}
    /\ WriteFlag \in {0, 1} /\ WriteNext \in {0, 1} /\ WroteOk \in {0, 1} /\ WroteEnded \in {0, 1}
    /\ CloseFlag \in {0, 1} /\ HandlerOut \in {0, 1} /\ HandlerPast \in {0, 1}
    /\ WriteHeld \in {0, 1} /\ Appends \in {0, 1}
BY DEF If, ReadFlag, Starts, Reads, Taken, ReadPassed, Armed, WriteFlag, WriteNext, WroteOk,
    WroteEnded, CloseFlag, HandlerOut, HandlerPast, WriteHeld, Appends, Starting, Reading

(* The task a thread runs is one of those that are counted.                *)
LEMMA Heads ==
    ASSUME ~Shared, TypeOK
    PROVE  /\ queue["io"] # <<>> /\ Head(queue["io"]).op = "read_ok" => OnIo("read_ok") > 0
           /\ queue["io"] # <<>> /\ Head(queue["io"]).op = "read_end" => OnIo("read_end") > 0
           /\ queue["io"] # <<>> /\ Head(queue["io"]).op = "read_error" => OnIo("read_error") > 0
           /\ queue["io"] # <<>> /\ Head(queue["io"]).op = "write_ok" => OnIo("write_ok") > 0
           /\ queue["io"] # <<>> /\ Head(queue["io"]).op = "write_end" => OnIo("write_end") > 0
           /\ queue["io"] # <<>> /\ Head(queue["io"]).op = "write_error" => OnIo("write_error") > 0
           /\ queue["io"] # <<>> /\ Head(queue["io"]).op = "write" => OnIo("write") > 0
           /\ queue["io"] # <<>> /\ Head(queue["io"]).op = "close" => OnIo("close") > 0
           /\ queue["work"] # <<>> /\ Head(queue["work"]).op = "fire_read"
                  => OnWork("fire_read") > 0
           /\ queue["work"] # <<>> /\ Head(queue["work"]).op = "append" => OnWork("append") > 0
BY TermTypes DEF Ops

(* So what is told of the running task is part of a count,                 *)
LEMMA BitsBelow ==
    ASSUME ~Shared, TypeOK
    PROVE  /\ Starting <= Reading
           /\ ReadPassed <= Taken("read_ok")
           /\ Taken("read_ok") <= OnIo("read_ok") /\ Taken("read_end") <= OnIo("read_end")
           /\ WroteOk <= OnIo("write_ok") /\ WroteEnded <= OnIo("write_end")
<1>1. Starting <= Reading /\ ReadPassed <= Taken("read_ok")
  BY DEF Starting, Reading, Starts, Reads, ReadPassed, Taken, If
<1>2. Taken("read_ok") <= OnIo("read_ok")
  <2>1. CASE InTask("io", "read_ok")
    <3>1. OnIo("read_ok") > 0 /\ OnIo("read_ok") \in Nat
      BY <2>1, Heads, Terms DEF InTask, Runs
    <3> QED
      BY <3>1, Bits
  <2>2. CASE ~InTask("io", "read_ok")
    <3>1. Taken("read_ok") = 0
      BY <2>2 DEF Taken, If
    <3> QED
      BY <3>1, Terms
  <2> QED
    BY <2>1, <2>2
<1>3. Taken("read_end") <= OnIo("read_end")
  <2>1. CASE InTask("io", "read_end")
    <3>1. OnIo("read_end") > 0 /\ OnIo("read_end") \in Nat
      BY <2>1, Heads, Terms DEF InTask, Runs
    <3> QED
      BY <3>1, Bits
  <2>2. CASE ~InTask("io", "read_end")
    <3>1. Taken("read_end") = 0
      BY <2>2 DEF Taken, If
    <3> QED
      BY <3>1, Terms
  <2> QED
    BY <2>1, <2>2
<1>4. WroteOk <= OnIo("write_ok")
  <2>1. CASE InTask("io", "write_ok")
    <3>1. OnIo("write_ok") > 0 /\ OnIo("write_ok") \in Nat
      BY <2>1, Heads, Terms DEF InTask, Runs
    <3> QED
      BY <3>1, Bits
  <2>2. CASE ~InTask("io", "write_ok")
    <3>1. WroteOk = 0
      BY <2>2 DEF WroteOk, If
    <3> QED
      BY <3>1, Terms
  <2> QED
    BY <2>1, <2>2
<1>5. WroteEnded <= OnIo("write_end")
  <2>1. CASE InTask("io", "write_end")
    <3>1. OnIo("write_end") > 0 /\ OnIo("write_end") \in Nat
      BY <2>1, Heads, Terms DEF InTask, Runs
    <3> QED
      BY <3>1, Bits
  <2>2. CASE ~InTask("io", "write_end")
    <3>1. WroteEnded = 0
      BY <2>2 DEF WroteEnded, If
    <3> QED
      BY <3>1, Terms
  <2> QED
    BY <2>1, <2>2
<1> QED
  BY <1>1, <1>2, <1>3, <1>4, <1>5

(* and so it is for a posted fire_read.                                    *)
LEMMA PastBelow ==
    ASSUME ~Shared, TypeOK, WorkPlaces
    PROVE  HandlerPast <= OnWork("fire_read") /\ HandlerOut <= HandlerPast
<1>1. HandlerOut <= HandlerPast
  BY DEF HandlerOut, HandlerPast, If
<1>2. CASE queue["work"] # <<>> /\ Head(queue["work"]).op = "fire_read"
  <2>1. OnWork("fire_read") > 0 /\ OnWork("fire_read") \in Nat
    BY <1>2, Heads, Terms
  <2> QED
    BY <1>1, <2>1, Bits
<1>3. CASE ~(queue["work"] # <<>> /\ Head(queue["work"]).op = "fire_read")
  <2>1. HandlerPast = 0
    BY <1>3, ServerThreads DEF HandlerPast, If, Returned, WorkPlaces
  <2> QED
    BY <1>1, <2>1, Terms
<1> QED
  BY <1>2, <1>3

(* A step that changes no term of a count leaves what is said of it true.  *)
LEMMA ReadsKept ==
    ASSUME ReadsTrue, OneReader, UNCHANGED readTerms
    PROVE  ReadsTrue' /\ OneReader'
BY DEF ReadsTrue, OneReader, readTerms

(* The same for the counts of writes. *)
LEMMA WritesKept == ASSUME WritesTrue, UNCHANGED writeTerms PROVE WritesTrue'
BY DEF WritesTrue, writeTerms

(* The same for the handlers. *)
LEMMA HandlersKept == ASSUME HandlersTrue, UNCHANGED handlerTerms PROVE HandlersTrue'
BY DEF HandlersTrue, handlerTerms

(* The same for the handles. *)
LEMMA HandlesKept == ASSUME HandlesTrue, UNCHANGED handleTerms PROVE HandlesTrue'
BY DEF HandlesTrue, handleTerms

(* The same for what is to be written. *)
LEMMA OutKept == ASSUME OutBounded, UNCHANGED outTerms PROVE OutBounded'
BY DEF OutBounded, outTerms

-----------------------------------------------------------------------------
(* What post and the end of a task do to the queues.                       *)
LEMMA PostedIo ==
    ASSUME ~Shared, NEW q \in Queues, NEW t \in Tasks
    PROVE  /\ Post(q, "io", t) \in Queues
           /\ Post(q, "io", t)["io"] = Append(q["io"], t)
           /\ Post(q, "io", t)["work"] = q["work"]
<1>1. q["io"] \in Seq(Tasks) /\ Append(q["io"], t) \in Seq(Tasks)
  BY ServerThreads DEF Queues
<1> QED
  BY <1>1, ServerThreads DEF Post, Queues

(* Taking a task from the I/O queue. *)
LEMMA PoppedIo ==
    ASSUME ~Shared, NEW q \in Queues, q["io"] # <<>>
    PROVE  /\ Pop(q, "io") \in Queues
           /\ Pop(q, "io")["io"] = Tail(q["io"])
           /\ Pop(q, "io")["work"] = q["work"]
<1>1. q["io"] \in Seq(Tasks) /\ Tail(q["io"]) \in Seq(Tasks)
  BY ServerThreads DEF Queues
<1> QED
  BY <1>1, ServerThreads DEF Pop, Queues

(* Posting a task to the work queue. *)
LEMMA PostedWork ==
    ASSUME ~Shared, NEW q \in Queues, NEW t \in Tasks
    PROVE  /\ Post(q, "work", t) \in Queues
           /\ Post(q, "work", t)["work"] = Append(q["work"], t)
           /\ Post(q, "work", t)["io"] = q["io"]
<1>1. q["work"] \in Seq(Tasks) /\ Append(q["work"], t) \in Seq(Tasks)
  BY ServerThreads DEF Queues
<1> QED
  BY <1>1, ServerThreads DEF Post, Queues

(* Taking a task from the work queue. *)
LEMMA PoppedWork ==
    ASSUME ~Shared, NEW q \in Queues, q["work"] # <<>>
    PROVE  /\ Pop(q, "work") \in Queues
           /\ Pop(q, "work")["work"] = Tail(q["work"])
           /\ Pop(q, "work")["io"] = q["io"]
<1>1. q["work"] \in Seq(Tasks) /\ Tail(q["work"]) \in Seq(Tasks)
  BY ServerThreads DEF Queues
<1> QED
  BY <1>1, ServerThreads DEF Pop, Queues

(* What a queue looks like with the aborted operations at its end.         *)
Ends(q) == q \o Repeat(Task("read_end", 0), net.reads)
             \o Repeat(Task("write_end", 0), Len(net.writes))

(* What the abortion of all operations does to them.                       *)
LEMMA AbortedQueue ==
    ASSUME ~Shared, NEW q \in Queues, TypeOK
    PROVE  /\ Aborted(q) \in Queues
           /\ Aborted(q)["io"] = Ends(q["io"])
           /\ Aborted(q)["work"] = q["work"]
<1>1. q["io"] \in Seq(Tasks) /\ net.reads \in Nat /\ Len(net.writes) \in Nat
  BY ServerThreads DEF Queues, TypeOK, Sockets
<1>2. Task("read_end", 0) \in Tasks /\ Task("write_end", 0) \in Tasks
  BY DEF Task, Tasks, Ops
<1>3. q["io"] \o Repeat(Task("read_end", 0), net.reads) \in Seq(Tasks)
  BY <1>1, <1>2, NumRepeat
<1>4. Ends(q["io"]) \in Seq(Tasks)
  BY <1>1, <1>2, <1>3, NumRepeat DEF Ends
<1> QED
  BY <1>4, ServerThreads DEF Aborted, Queues, Ends

(* What is posted leaves the running task where it is,                     *)
LEMMA HeadKept ==
    ASSUME NEW q \in Seq(Tasks), NEW t \in Tasks, q # <<>>
    PROVE  Append(q, t) # <<>> /\ Head(Append(q, t)) = Head(q)
BY HeadTailAppend

(* so does what is posted many times, and all before it,                   *)
LEMMA RepeatKept ==
    ASSUME NEW q \in Seq(Tasks), NEW t \in Tasks, NEW n \in Nat
    PROVE  /\ q # <<>> => q \o Repeat(t, n) # <<>> /\ Head(q \o Repeat(t, n)) = Head(q)
           /\ \A i \in 1..Len(q \o Repeat(t, n)) :
                \/ i \in 1..Len(q) /\ (q \o Repeat(t, n))[i] = q[i]
                \/ (q \o Repeat(t, n))[i] = t
<1> DEFINE r == Repeat(t, n)
           c == q \o r
<1>1. r \in Seq(Tasks) /\ Len(r) = n /\ \A i \in 1..n : r[i] = t
  BY DEF Repeat
<1> HIDE DEF r
<1>2. /\ c \in Seq(Tasks) /\ Len(q) \in Nat /\ Len(c) = Len(q) + n
      /\ \A i \in 1..Len(q) + n : c[i] = IF i <= Len(q) THEN q[i] ELSE r[i - Len(q)]
  BY <1>1, ConcatProperties, LenProperties
<1> HIDE DEF c
<1>3. ASSUME q # <<>> PROVE c # <<>> /\ Head(c) = Head(q)
  <2>1. Len(q) # 0 /\ Head(q) = q[1]
    BY <1>3
  <2>2. Len(c) # 0 /\ c[1] = q[1]
    BY <1>2, <2>1
  <2>3. c # <<>> /\ Head(c) = c[1]
    BY <1>2, <2>2
  <2> QED BY <2>1, <2>2, <2>3
<1>4. ASSUME NEW i \in 1..Len(c) PROVE (i \in 1..Len(q) /\ c[i] = q[i]) \/ c[i] = t
  <2>1. CASE i <= Len(q)
    BY <1>2, <2>1
  <2>2. CASE ~(i <= Len(q))
    <3>1. i - Len(q) \in 1..n /\ c[i] = r[i - Len(q)]
      BY <1>2, <2>2
    <3> QED BY <1>1, <3>1
  <2> QED BY <2>1, <2>2
<1> QED
  BY <1>3, <1>4 DEF c, r

(* and so does the abortion of the outstanding operations.                 *)
LEMMA EndsFacts ==
    ASSUME ~Shared, NEW q \in Seq(Tasks), TypeOK
    PROVE  /\ \A op \in Ops \ {"read_end", "write_end"} : Num(Ends(q), op) = Num(q, op)
           /\ Num(Ends(q), "read_end") = Num(q, "read_end") + net.reads
           /\ Num(Ends(q), "write_end") = Num(q, "write_end") + Len(net.writes)
           /\ q # <<>> => Ends(q) # <<>> /\ Head(Ends(q)) = Head(q)
           /\ \A i \in 1..Len(Ends(q)) : Ends(q)[i].op = "write_ok"
                  => i \in 1..Len(q) /\ Ends(q)[i] = q[i]
<1> DEFINE r == Task("read_end", 0)
           w == Task("write_end", 0)
           p == q \o Repeat(r, net.reads)
           e == p \o Repeat(w, Len(net.writes))
<1>1. net.reads \in Nat /\ Len(net.writes) \in Nat
  BY DEF TypeOK, Sockets
<1>2. r \in Tasks /\ w \in Tasks /\ r.op = "read_end" /\ w.op = "write_end"
  BY DEF Task, Tasks, Ops
<1>9. Ends(q) = e
  BY DEF Ends
<1> HIDE DEF r, w
<1>3. ASSUME NEW op \in Ops
      PROVE  /\ p \in Seq(Tasks) /\ Num(p, op) = Num(q, op) + (IF r.op = op THEN net.reads ELSE 0)
             /\ Num(q, op) \in Nat
  BY <1>1, <1>2, NumRepeat, NumType
<1>4. p \in Seq(Tasks)
  BY <1>3 DEF Ops
<1>5. /\ q # <<>> => p # <<>> /\ Head(p) = Head(q)
      /\ \A i \in 1..Len(p) : (i \in 1..Len(q) /\ p[i] = q[i]) \/ p[i] = r
  BY <1>1, <1>2, RepeatKept
<1> HIDE DEF p
<1>6. ASSUME NEW op \in Ops
      PROVE  Num(e, op) = Num(p, op) + (IF w.op = op THEN Len(net.writes) ELSE 0)
  <2> DEFINE m == Len(net.writes)
  <2> HIDE DEF m
  <2>1. Num(p \o Repeat(w, m), op) = Num(p, op) + (IF w.op = op THEN m ELSE 0)
    <3>1. m \in Nat
      BY <1>1 DEF m
    <3>2. w \in Tasks
      BY <1>2
    <3>3. \A o : Num(p \o Repeat(w, m), o) = Num(p, o) + (IF w.op = o THEN m ELSE 0)
      BY <3>2, <1>4, <3>1, NumRepeat
    <3> QED
      BY <3>3, Zenon
  <2> QED
    BY <2>1 DEF m
<1>7. /\ p # <<>> => e # <<>> /\ Head(e) = Head(p)
      /\ \A i \in 1..Len(e) : (i \in 1..Len(p) /\ e[i] = p[i]) \/ e[i] = w
  BY <1>1, <1>2, <1>4, RepeatKept
<1> HIDE DEF e
<1>10. \A op \in Ops \ {"read_end", "write_end"} : Num(e, op) = Num(q, op)
  BY <1>1, <1>2, <1>3, <1>6
<1>11. Num(e, "read_end") = Num(q, "read_end") + net.reads
  <2>1. "read_end" \in Ops
    BY DEF Ops
  <2> QED BY <1>1, <1>2, <1>3, <1>6, <2>1
<1>12. Num(e, "write_end") = Num(q, "write_end") + Len(net.writes)
  <2>1. "write_end" \in Ops
    BY DEF Ops
  <2> QED BY <1>1, <1>2, <1>3, <1>6, <2>1
<1>13. \A i \in 1..Len(e) : e[i].op = "write_ok" => i \in 1..Len(q) /\ e[i] = q[i]
  BY <1>2, <1>5, <1>7
<1> QED
  BY <1>5, <1>7, <1>9, <1>10, <1>11, <1>12, <1>13, Zenon

(* The members one by one.                                                 *)
LEMMA Fields ==
    ASSUME ~Shared, TypeOK
    PROVE  /\ s.reading \in BOOLEAN /\ s.writing \in BOOLEAN /\ s.close_flag \in BOOLEAN
           /\ s.work_read_count \in Nat /\ s.handle_count \in Nat /\ s.pending \in 0..SizeMod - 1
           /\ s.rbuf \in Nat /\ s.wbuf \in Nat /\ s.notify \in BOOLEAN /\ s.high_water \in {0, Mask}
           /\ net.sock \in {"open", "shut", "closed"} /\ net.reads \in Nat
           /\ net.writes \in Seq(Nat)
           /\ env.received \in Nat /\ env.written \in Nat
           /\ life.where \in {"session_map", "wait_remove", "none", "client"} /\ life.fired \in Nat
BY DEF TypeOK, Members, Sockets, Outside, Lives

(* The task a thread runs is a task.                                       *)
LEMMA HeadsTyped ==
    ASSUME ~Shared, TypeOK
    PROVE  /\ queue["io"] # <<>> => Head(queue["io"]).op \in Ops /\ Head(queue["io"]).n \in Nat
           /\ queue["work"] # <<>>
                  => Head(queue["work"]).op \in Ops /\ Head(queue["work"]).n \in Nat
<1>1. queue["io"] \in Seq(Tasks) /\ queue["work"] \in Seq(Tasks)
  BY ServerThreads DEF TypeOK
<1>2. /\ queue["io"] # <<>> => Head(queue["io"]) \in Tasks
      /\ queue["work"] # <<>> => Head(queue["work"]) \in Tasks
  BY <1>1
<1> QED
  BY <1>2 DEF Tasks

(* A completed write still fits the buffer when a task is done, when one   *)
(* is posted, both at once, and when the operations are aborted.           *)
LEMMA DonePopped ==
    ASSUME DoneFits, queue["io"] \in Seq(Tasks), queue["io"] # <<>>,
           queue'["io"] = Tail(queue["io"]), s'.wbuf = s.wbuf
    PROVE  DoneFits'
<1>1. /\ Len(queue["io"]) \in Nat /\ Len(Tail(queue["io"])) = Len(queue["io"]) - 1
      /\ \A i \in 1..Len(Tail(queue["io"])) : Tail(queue["io"])[i] = queue["io"][i + 1]
  OBVIOUS
<1>2. ASSUME NEW i \in 1..Len(Tail(queue["io"])), Tail(queue["io"])[i].op = "write_ok"
      PROVE  Tail(queue["io"])[i].n <= s.wbuf
  <2>1. i + 1 \in 1..Len(queue["io"]) /\ i + 1 # 1 /\ Tail(queue["io"])[i] = queue["io"][i + 1]
    BY <1>1
  <2> QED
    BY <1>2, <2>1 DEF DoneFits
<1> QED
  BY <1>2 DEF DoneFits

(* DoneFits after a task was posted. *)
LEMMA DonePosted ==
    ASSUME DoneFits, queue["io"] \in Seq(Tasks), NEW t \in Tasks,
           pc'["io"] = pc["io"] \/ pc'["io"] \notin {"idle", "wrote"},
           queue'["io"] = Append(queue["io"], t), s'.wbuf = s.wbuf,
           t.op = "write_ok" => t.n <= s.wbuf
    PROVE  DoneFits'
<1>1. /\ Len(queue["io"]) \in Nat /\ Len(Append(queue["io"], t)) = Len(queue["io"]) + 1
      /\ \A i \in 1..Len(queue["io"]) : Append(queue["io"], t)[i] = queue["io"][i]
      /\ Append(queue["io"], t)[Len(queue["io"]) + 1] = t
  OBVIOUS
<1> QED
  BY <1>1 DEF DoneFits

(* DoneFits after one was taken and another posted. *)
LEMMA DonePoppedPosted ==
    ASSUME DoneFits, queue["io"] \in Seq(Tasks), queue["io"] # <<>>,
           NEW t \in Tasks, t.op # "write_ok",
           queue'["io"] = Append(Tail(queue["io"]), t), s'.wbuf = s.wbuf
    PROVE  DoneFits'
<1> DEFINE r == Tail(queue["io"])
<1>1. /\ r \in Seq(Tasks) /\ Len(queue["io"]) \in Nat /\ Len(r) = Len(queue["io"]) - 1
      /\ Len(r) \in Nat
      /\ \A i \in 1..Len(r) : r[i] = queue["io"][i + 1]
  OBVIOUS
<1>2. ASSUME NEW i \in 1..Len(r), r[i].op = "write_ok"
      PROVE  r[i].n <= s.wbuf
  <2>1. i + 1 \in 1..Len(queue["io"]) /\ i + 1 # 1 /\ r[i] = queue["io"][i + 1]
    BY <1>1
  <2> QED
    BY <1>2, <2>1 DEF DoneFits
<1> HIDE DEF r
<1>3. /\ Len(Append(r, t)) = Len(r) + 1
      /\ \A i \in 1..Len(r) : Append(r, t)[i] = r[i]
      /\ Append(r, t)[Len(r) + 1] = t
  BY <1>1
<1>4. queue'["io"] = Append(r, t)
  BY DEF r
<1> QED
  BY <1>1, <1>2, <1>3, <1>4 DEF DoneFits

(* DoneFits after the socket closed. *)
LEMMA DoneAborted ==
    ASSUME ~Shared, TypeOK, DoneFits, queue["io"] \in Seq(Tasks), queue'["io"] = Ends(queue["io"]),
           s'.wbuf = s.wbuf, pc'["io"] = pc["io"] \/ pc'["io"] \notin {"idle", "wrote"}
    PROVE  DoneFits'
BY EndsFacts DEF DoneFits

(* Arithmetic on a size_t.                                                 *)
LEMMA SizeWraps ==
    /\ \A x \in Int : x % SizeMod \in 0..SizeMod - 1
    /\ \A x \in 0..SizeMod - 1 : x % SizeMod = x
    /\ (-1) % SizeMod = SizeMod - 1 /\ SizeMod % SizeMod = 0
<1>1. SizeMod \in Nat \ {0}
  BY SessionAssumption
<1> QED
  BY <1>1

(* When one completed write is counted, it is the one that is handled.     *)
LEMMA OneDone ==
    ASSUME queue["io"] \in Seq(Tasks), queue["io"] # <<>>, Head(queue["io"]).op = "write_ok",
           OnIo("write_ok") = 1
    PROVE  \A i \in 1..Len(queue["io"]) : queue["io"][i].op = "write_ok" => i = 1
<1> DEFINE q == queue["io"]
<1>1. /\ Tail(q) \in Seq(Tasks) /\ Len(q) \in Nat /\ Len(Tail(q)) = Len(q) - 1
      /\ \A i \in 1..Len(Tail(q)) : Tail(q)[i] = q[i + 1]
  OBVIOUS
<1>2. Num(Tail(q), "write_ok") = 0
  BY NumTail DEF OnIo, If
<1>3. \A i \in 1..Len(Tail(q)) : Tail(q)[i].op # "write_ok"
  BY <1>1, <1>2, NumZero
<1>4. ASSUME NEW i \in 1..Len(q), i # 1
      PROVE  q[i].op # "write_ok"
  <2>1. i - 1 \in 1..Len(Tail(q)) /\ Tail(q)[i - 1] = q[i]
    BY <1>1, <1>4
  <2> QED
    BY <1>3, <2>1
<1> QED
  BY <1>4

(* The write buffer is never as long as a size_t can count, so that        *)
(* pending_write_len_ tells its length.                                    *)
LEMMA PendingFacts ==
    ASSUME ~Shared, TypeOK, OutBounded, PendingShort
    PROVE  /\ s.wbuf < SizeMod /\ s.wbuf \in Nat /\ SizeMod \in Nat
           /\ pc["work"] # "pend" => s.pending = s.wbuf
           /\ pc["work"] = "pend" => s.pending = IF s.wbuf = 0 THEN SizeMod - 1 ELSE s.wbuf - 1
<1>1. s.wbuf \in Nat
  BY Fields
<1>2. Buffered <= MaxOut
  <2>1. Appends <= OnWork("append")
    <3>1. CASE InTask("work", "append")
      <4>1. OnWork("append") > 0
        BY <3>1, Heads DEF InTask, Runs
      <4> QED
        BY <4>1, Bits, Terms
    <3>2. CASE ~InTask("work", "append")
      <4>1. Appends = 0
        BY <3>2 DEF Appends, If
      <4> QED
        BY <4>1, Terms
    <3> QED
      BY <3>1, <3>2
  <2> QED
    BY <2>1, Terms, Bits, SessionAssumption DEF OutBounded
<1>3. s.wbuf < SizeMod
  BY <1>1, <1>2, SessionAssumption DEF Buffered
<1> QED
  BY <1>1, <1>3, SessionAssumption DEF PendingShort

(* The count after a post, as the step lemmas want it.                     *)
LEMMA NumPosted ==
    ASSUME NEW q \in Seq(Tasks), NEW op \in Ops, NEW n \in Nat, NEW o
    PROVE  Num(Append(q, Task(op, n)), o) = IF op = o THEN Num(q, o) + 1 ELSE Num(q, o)
<1> DEFINE t == Task(op, n)
<1>1. t \in Tasks /\ t.op = op
  BY DEF Task, Tasks
<1> HIDE DEF t
<1>2. Num(Append(q, t), o) = IF t.op = o THEN Num(q, o) + 1 ELSE Num(q, o)
  BY <1>1, NumAppend, NumType DEF If
<1> QED
  BY <1>1, <1>2 DEF t

(* A task is posted to the I/O thread. *)
LEMMA IoPosts ==
    ASSUME ~Shared, TypeOK, NEW op \in Ops, NEW n \in Nat,
           queue' = Post(queue, "io", Task(op, n))
    PROVE  /\ queue' \in Queues /\ queue'["io"] = Append(queue["io"], Task(op, n))
           /\ queue'["work"] = queue["work"]
           /\ queue["io"] # <<>> => queue'["io"] # <<>> /\ Head(queue'["io"]) = Head(queue["io"])
           /\ OnIo("read_ok")' = IF op = "read_ok" THEN OnIo("read_ok") + 1 ELSE OnIo("read_ok")
           /\ OnIo("read_end")' = IF op = "read_end" THEN OnIo("read_end") + 1 ELSE OnIo("read_end")
           /\ OnIo("read_error")' = IF op = "read_error"
                                    THEN OnIo("read_error") + 1 ELSE OnIo("read_error")
           /\ OnIo("write_ok")' = IF op = "write_ok" THEN OnIo("write_ok") + 1 ELSE OnIo("write_ok")
           /\ OnIo("write_end")' = IF op = "write_end"
                                   THEN OnIo("write_end") + 1 ELSE OnIo("write_end")
           /\ OnIo("write_error")' = IF op = "write_error"
                                     THEN OnIo("write_error") + 1 ELSE OnIo("write_error")
           /\ OnIo("write")' = IF op = "write" THEN OnIo("write") + 1 ELSE OnIo("write")
           /\ OnIo("close")' = IF op = "close" THEN OnIo("close") + 1 ELSE OnIo("close")
           /\ UNCHANGED <<OnWork("fire_read"), OnWork("append")>>
<1>1. queue \in Queues /\ queue["io"] \in Seq(Tasks) /\ queue["work"] \in Seq(Tasks)
  BY ServerThreads DEF TypeOK, Queues
<1>2. Task(op, n) \in Tasks /\ Task(op, n).op = op
  BY DEF Task, Tasks
<1>3. /\ queue' \in Queues /\ queue'["io"] = Append(queue["io"], Task(op, n))
      /\ queue'["work"] = queue["work"]
  BY <1>1, <1>2, PostedIo
<1>4. ASSUME NEW o \in Ops
      PROVE  Num(queue'["io"], o) = IF op = o THEN Num(queue["io"], o) + 1 ELSE Num(queue["io"], o)
  <2>1. Num(Append(queue["io"], Task(op, n)), o) =
            IF op = o THEN Num(queue["io"], o) + 1 ELSE Num(queue["io"], o)
    BY <1>1, NumPosted
  <2> QED
    BY <2>1, <1>3
<1>5. queue["io"] # <<>> => queue'["io"] # <<>> /\ Head(queue'["io"]) = Head(queue["io"])
  BY <1>1, <1>2, <1>3, HeadKept
<1> QED
  BY <1>3, <1>4, <1>5 DEF OnIo, OnWork, Ops

(* A task is posted to the work thread. *)
LEMMA WorkPosts ==
    ASSUME ~Shared, TypeOK, NEW op \in Ops, NEW n \in Nat,
           queue' = Post(queue, "work", Task(op, n))
    PROVE  /\ queue' \in Queues /\ queue'["io"] = queue["io"]
           /\ queue'["work"] = Append(queue["work"], Task(op, n))
           /\ queue["work"] # <<>>
                  => queue'["work"] # <<>> /\ Head(queue'["work"]) = Head(queue["work"])
           /\ OnWork("fire_read")' = IF op = "fire_read"
                                     THEN OnWork("fire_read") + 1 ELSE OnWork("fire_read")
           /\ OnWork("append")' = IF op = "append" THEN OnWork("append") + 1 ELSE OnWork("append")
           /\ UNCHANGED <<OnIo("read_ok"), OnIo("read_end"), OnIo("read_error"), OnIo("write_ok"),
                          OnIo("write_end"), OnIo("write_error"), OnIo("write"), OnIo("close")>>
<1>1. queue \in Queues /\ queue["io"] \in Seq(Tasks) /\ queue["work"] \in Seq(Tasks)
  BY ServerThreads DEF TypeOK, Queues
<1>2. Task(op, n) \in Tasks /\ Task(op, n).op = op
  BY DEF Task, Tasks
<1>3. /\ queue' \in Queues /\ queue'["work"] = Append(queue["work"], Task(op, n))
      /\ queue'["io"] = queue["io"]
  BY <1>1, <1>2, PostedWork
<1>4. ASSUME NEW o \in Ops
      PROVE  Num(queue'["work"], o) = IF op = o
                                      THEN Num(queue["work"], o) + 1 ELSE Num(queue["work"], o)
  <2>1. Num(Append(queue["work"], Task(op, n)), o) =
            IF op = o THEN Num(queue["work"], o) + 1 ELSE Num(queue["work"], o)
    BY <1>1, NumPosted
  <2> QED
    BY <2>1, <1>3
<1>5. queue["work"] # <<>> => queue'["work"] # <<>> /\ Head(queue'["work"]) = Head(queue["work"])
  BY <1>1, <1>2, <1>3, HeadKept
<1> QED
  BY <1>3, <1>4, <1>5 DEF OnIo, OnWork, Ops

(* The I/O thread is done with a task. *)
LEMMA IoPops ==
    ASSUME ~Shared, TypeOK, queue["io"] # <<>>,
           queue' = Pop(queue, "io")
    PROVE  /\ queue' \in Queues /\ queue'["io"] = Tail(queue["io"])
           /\ queue'["work"] = queue["work"]
           /\ OnIo("read_ok")' = IF Head(queue["io"]).op = "read_ok"
                                 THEN OnIo("read_ok") - 1 ELSE OnIo("read_ok")
           /\ OnIo("read_end")' = IF Head(queue["io"]).op = "read_end"
                                  THEN OnIo("read_end") - 1 ELSE OnIo("read_end")
           /\ OnIo("read_error")' = IF Head(queue["io"]).op = "read_error"
                                    THEN OnIo("read_error") - 1 ELSE OnIo("read_error")
           /\ OnIo("write_ok")' = IF Head(queue["io"]).op = "write_ok"
                                  THEN OnIo("write_ok") - 1 ELSE OnIo("write_ok")
           /\ OnIo("write_end")' = IF Head(queue["io"]).op = "write_end"
                                   THEN OnIo("write_end") - 1 ELSE OnIo("write_end")
           /\ OnIo("write_error")' = IF Head(queue["io"]).op = "write_error"
                                     THEN OnIo("write_error") - 1 ELSE OnIo("write_error")
           /\ OnIo("write")' = IF Head(queue["io"]).op = "write"
                               THEN OnIo("write") - 1 ELSE OnIo("write")
           /\ OnIo("close")' = IF Head(queue["io"]).op = "close"
                               THEN OnIo("close") - 1 ELSE OnIo("close")
           /\ UNCHANGED <<OnWork("fire_read"), OnWork("append")>>
<1>1. queue \in Queues /\ queue["io"] \in Seq(Tasks) /\ queue["work"] \in Seq(Tasks)
  BY ServerThreads DEF TypeOK, Queues
<1>2. queue' \in Queues /\ queue'["io"] = Tail(queue["io"]) /\ queue'["work"] = queue["work"]
  BY <1>1, PoppedIo
<1>3. ASSUME NEW o \in Ops
      PROVE  Num(Tail(queue["io"]), o) = IF Head(queue["io"]).op = o
                                         THEN Num(queue["io"], o) - 1 ELSE Num(queue["io"], o)
  BY <1>1, NumTail, NumType DEF If
<1> QED
  BY <1>2, <1>3 DEF OnIo, OnWork, Ops

(* The I/O thread posts fire_read as the last thing of its task. *)
LEMMA IoPopsWorkPosts ==
    ASSUME ~Shared, TypeOK,
           queue["io"] # <<>>,
           queue' = Pop(Post(queue, "work", Task("fire_read", 0)), "io")
    PROVE  /\ queue' \in Queues /\ queue'["io"] = Tail(queue["io"])
           /\ queue["work"] # <<>>
                  => queue'["work"] # <<>> /\ Head(queue'["work"]) = Head(queue["work"])
           /\ OnIo("read_ok")' = IF Head(queue["io"]).op = "read_ok"
                                 THEN OnIo("read_ok") - 1 ELSE OnIo("read_ok")
           /\ OnIo("read_end")' = IF Head(queue["io"]).op = "read_end"
                                  THEN OnIo("read_end") - 1 ELSE OnIo("read_end")
           /\ OnIo("read_error")' = IF Head(queue["io"]).op = "read_error"
                                    THEN OnIo("read_error") - 1 ELSE OnIo("read_error")
           /\ OnIo("write_ok")' = IF Head(queue["io"]).op = "write_ok"
                                  THEN OnIo("write_ok") - 1 ELSE OnIo("write_ok")
           /\ OnIo("write_end")' = IF Head(queue["io"]).op = "write_end"
                                   THEN OnIo("write_end") - 1 ELSE OnIo("write_end")
           /\ OnIo("write_error")' = IF Head(queue["io"]).op = "write_error"
                                     THEN OnIo("write_error") - 1 ELSE OnIo("write_error")
           /\ OnIo("write")' = IF Head(queue["io"]).op = "write"
                               THEN OnIo("write") - 1 ELSE OnIo("write")
           /\ OnIo("close")' = IF Head(queue["io"]).op = "close"
                               THEN OnIo("close") - 1 ELSE OnIo("close")
           /\ OnWork("fire_read")' = OnWork("fire_read") + 1 /\ OnWork("append")' = OnWork("append")
<1>1. queue \in Queues /\ queue["io"] \in Seq(Tasks) /\ queue["work"] \in Seq(Tasks)
  BY ServerThreads DEF TypeOK, Queues
<1>2. Task("fire_read", 0) \in Tasks /\ Task("fire_read", 0).op = "fire_read"
  BY DEF Task, Tasks, Ops
<1> DEFINE mid == Post(queue, "work", Task("fire_read", 0))
<1>3. /\ mid \in Queues /\ mid["io"] = queue["io"]
      /\ mid["work"] = Append(queue["work"], Task("fire_read", 0))
  BY <1>1, <1>2, PostedWork
<1>4. queue' = Pop(mid, "io")
  BY DEF mid
<1> HIDE DEF mid
<1>5. /\ queue' \in Queues /\ queue'["io"] = Tail(queue["io"])
      /\ queue'["work"] = Append(queue["work"], Task("fire_read", 0))
  BY <1>2, <1>3, <1>4, PoppedIo
<1>6. ASSUME NEW o \in Ops
      PROVE  Num(Tail(queue["io"]), o) = IF Head(queue["io"]).op = o
                                         THEN Num(queue["io"], o) - 1 ELSE Num(queue["io"], o)
  BY <1>1, NumTail, NumType DEF If
<1>7. ASSUME NEW o \in Ops
      PROVE  Num(queue'["work"], o) = IF o = "fire_read"
                                      THEN Num(queue["work"], o) + 1 ELSE Num(queue["work"], o)
  <2>1. Num(Append(queue["work"], Task("fire_read", 0)), o) =
            IF "fire_read" = o THEN Num(queue["work"], o) + 1 ELSE Num(queue["work"], o)
    BY <1>1, NumPosted DEF Ops
  <2> QED
    BY <2>1, <1>5
<1>8. queue["work"] # <<>> => queue'["work"] # <<>> /\ Head(queue'["work"]) = Head(queue["work"])
  BY <1>1, <1>2, <1>5, HeadKept
<1> QED
  BY <1>5, <1>6, <1>7, <1>8 DEF OnIo, OnWork, Ops

(* Its task done, the I/O thread has a write fail. *)
LEMMA IoPopsPosts ==
    ASSUME ~Shared, TypeOK,
           queue["io"] # <<>>, Head(queue["io"]).op # "write_error",
           queue' = Post(Pop(queue, "io"), "io", Task("write_error", 0))
    PROVE  /\ queue' \in Queues
           /\ queue'["io"] = Append(Tail(queue["io"]), Task("write_error", 0))
           /\ queue'["work"] = queue["work"]
           /\ OnIo("read_ok")' = IF Head(queue["io"]).op = "read_ok"
                                 THEN OnIo("read_ok") - 1 ELSE OnIo("read_ok")
           /\ OnIo("read_end")' = IF Head(queue["io"]).op = "read_end"
                                  THEN OnIo("read_end") - 1 ELSE OnIo("read_end")
           /\ OnIo("read_error")' = IF Head(queue["io"]).op = "read_error"
                                    THEN OnIo("read_error") - 1 ELSE OnIo("read_error")
           /\ OnIo("write_ok")' = IF Head(queue["io"]).op = "write_ok"
                                  THEN OnIo("write_ok") - 1 ELSE OnIo("write_ok")
           /\ OnIo("write_end")' = IF Head(queue["io"]).op = "write_end"
                                   THEN OnIo("write_end") - 1 ELSE OnIo("write_end")
           /\ OnIo("write")' = IF Head(queue["io"]).op = "write"
                               THEN OnIo("write") - 1 ELSE OnIo("write")
           /\ OnIo("close")' = IF Head(queue["io"]).op = "close"
                               THEN OnIo("close") - 1 ELSE OnIo("close")
           /\ OnIo("write_error")' = OnIo("write_error") + 1
           /\ UNCHANGED <<OnWork("fire_read"), OnWork("append")>>
<1>1. queue \in Queues /\ queue["io"] \in Seq(Tasks) /\ queue["work"] \in Seq(Tasks)
  BY ServerThreads DEF TypeOK, Queues
<1>2. Task("write_error", 0) \in Tasks /\ Task("write_error", 0).op = "write_error"
  BY DEF Task, Tasks, Ops
<1> DEFINE mid == Pop(queue, "io")
<1>3. mid \in Queues /\ mid["io"] = Tail(queue["io"]) /\ mid["work"] = queue["work"]
  BY <1>1, <1>2, PoppedIo
<1>4. queue' = Post(mid, "io", Task("write_error", 0))
  BY DEF mid
<1> HIDE DEF mid
<1>5. /\ queue' \in Queues /\ queue'["io"] = Append(mid["io"], Task("write_error", 0))
      /\ queue'["work"] = queue["work"]
  BY <1>2, <1>3, <1>4, PostedIo
<1>6. mid["io"] \in Seq(Tasks)
  BY <1>3, ServerThreads DEF Queues
<1>7. ASSUME NEW o \in Ops
      PROVE  Num(Tail(queue["io"]), o) = IF Head(queue["io"]).op = o
                                         THEN Num(queue["io"], o) - 1 ELSE Num(queue["io"], o)
  BY <1>1, NumTail, NumType DEF If
<1>8. ASSUME NEW o \in Ops
      PROVE  Num(queue'["io"], o) = IF o = "write_error"
                                    THEN Num(mid["io"], o) + 1 ELSE Num(mid["io"], o)
  <2>1. Num(Append(mid["io"], Task("write_error", 0)), o) =
            IF "write_error" = o THEN Num(mid["io"], o) + 1 ELSE Num(mid["io"], o)
    BY <1>6, NumPosted DEF Ops
  <2> QED
    BY <2>1, <1>5
<1> QED
  BY <1>3, <1>5, <1>7, <1>8 DEF OnIo, OnWork, Ops

(* The work thread posts to the I/O thread as the last thing of its task. *)
LEMMA IoPostsWorkPops ==
    ASSUME ~Shared, TypeOK,
           NEW op \in Ops, queue["work"] # <<>>,
           queue' = Pop(Post(queue, "io", Task(op, 0)), "work")
    PROVE  /\ queue' \in Queues /\ queue'["io"] = Append(queue["io"], Task(op, 0))
           /\ queue'["work"] = Tail(queue["work"])
           /\ queue["io"] # <<>> => queue'["io"] # <<>> /\ Head(queue'["io"]) = Head(queue["io"])
           /\ OnIo("read_ok")' = IF op = "read_ok" THEN OnIo("read_ok") + 1 ELSE OnIo("read_ok")
           /\ OnIo("read_end")' = IF op = "read_end" THEN OnIo("read_end") + 1 ELSE OnIo("read_end")
           /\ OnIo("read_error")' = IF op = "read_error"
                                    THEN OnIo("read_error") + 1 ELSE OnIo("read_error")
           /\ OnIo("write_ok")' = IF op = "write_ok" THEN OnIo("write_ok") + 1 ELSE OnIo("write_ok")
           /\ OnIo("write_end")' = IF op = "write_end"
                                   THEN OnIo("write_end") + 1 ELSE OnIo("write_end")
           /\ OnIo("write_error")' = IF op = "write_error"
                                     THEN OnIo("write_error") + 1 ELSE OnIo("write_error")
           /\ OnIo("write")' = IF op = "write" THEN OnIo("write") + 1 ELSE OnIo("write")
           /\ OnIo("close")' = IF op = "close" THEN OnIo("close") + 1 ELSE OnIo("close")
           /\ OnWork("fire_read")' = IF Head(queue["work"]).op = "fire_read"
                                     THEN OnWork("fire_read") - 1 ELSE OnWork("fire_read")
           /\ OnWork("append")' = IF Head(queue["work"]).op = "append"
                                  THEN OnWork("append") - 1 ELSE OnWork("append")
<1>1. queue \in Queues /\ queue["io"] \in Seq(Tasks) /\ queue["work"] \in Seq(Tasks)
  BY ServerThreads DEF TypeOK, Queues
<1>2. Task(op, 0) \in Tasks /\ Task(op, 0).op = op
  BY DEF Task, Tasks
<1> DEFINE mid == Post(queue, "io", Task(op, 0))
<1>3. mid \in Queues /\ mid["io"] = Append(queue["io"], Task(op, 0)) /\ mid["work"] = queue["work"]
  BY <1>1, <1>2, PostedIo
<1>4. queue' = Pop(mid, "work")
  BY DEF mid
<1> HIDE DEF mid
<1>5. /\ queue' \in Queues /\ queue'["io"] = Append(queue["io"], Task(op, 0))
      /\ queue'["work"] = Tail(queue["work"])
  BY <1>2, <1>3, <1>4, PoppedWork
<1>6. queue["io"] # <<>> => queue'["io"] # <<>> /\ Head(queue'["io"]) = Head(queue["io"])
  BY <1>1, <1>2, <1>5, HeadKept
<1>7. ASSUME NEW o \in Ops
      PROVE  Num(queue'["io"], o) = IF op = o THEN Num(queue["io"], o) + 1 ELSE Num(queue["io"], o)
  <2>1. Num(Append(queue["io"], Task(op, 0)), o) =
            IF op = o THEN Num(queue["io"], o) + 1 ELSE Num(queue["io"], o)
    BY <1>1, NumPosted
  <2> QED
    BY <2>1, <1>5
<1>8. ASSUME NEW o \in Ops
      PROVE  Num(Tail(queue["work"]), o) = IF Head(queue["work"]).op = o
                                           THEN Num(queue["work"], o) - 1 ELSE Num(queue["work"], o)
  BY <1>1, NumTail, NumType DEF If
<1> QED
  BY <1>5, <1>6, <1>7, <1>8 DEF OnIo, OnWork, Ops

(* The work thread is done with a task. *)
LEMMA WorkPops ==
    ASSUME ~Shared, TypeOK, queue["work"] # <<>>,
           queue' = Pop(queue, "work")
    PROVE  /\ queue' \in Queues /\ queue'["io"] = queue["io"]
           /\ queue'["work"] = Tail(queue["work"])
           /\ OnWork("fire_read")' = IF Head(queue["work"]).op = "fire_read"
                                     THEN OnWork("fire_read") - 1 ELSE OnWork("fire_read")
           /\ OnWork("append")' = IF Head(queue["work"]).op = "append"
                                  THEN OnWork("append") - 1 ELSE OnWork("append")
           /\ UNCHANGED <<OnIo("read_ok"), OnIo("read_end"), OnIo("read_error"), OnIo("write_ok"),
                          OnIo("write_end"), OnIo("write_error"), OnIo("write"), OnIo("close")>>
<1>1. queue \in Queues /\ queue["io"] \in Seq(Tasks) /\ queue["work"] \in Seq(Tasks)
  BY ServerThreads DEF TypeOK, Queues
<1>2. queue' \in Queues /\ queue'["work"] = Tail(queue["work"]) /\ queue'["io"] = queue["io"]
  BY <1>1, PoppedWork
<1>3. ASSUME NEW o \in Ops
      PROVE  Num(Tail(queue["work"]), o) = IF Head(queue["work"]).op = o
                                           THEN Num(queue["work"], o) - 1 ELSE Num(queue["work"], o)
  BY <1>1, NumTail, NumType DEF If
<1> QED
  BY <1>2, <1>3 DEF OnIo, OnWork, Ops

(* The operations outstanding are aborted. *)
LEMMA IoAborts ==
    ASSUME ~Shared, TypeOK,
           queue' = Aborted(queue)
    PROVE  /\ queue' \in Queues /\ queue'["io"] = Ends(queue["io"])
           /\ queue'["work"] = queue["work"]
           /\ queue["io"] # <<>> => queue'["io"] # <<>> /\ Head(queue'["io"]) = Head(queue["io"])
           /\ OnIo("read_end")' = OnIo("read_end") + ReadsOut
           /\ OnIo("write_end")' = OnIo("write_end") + WritesOut
           /\ UNCHANGED <<OnIo("read_ok"), OnIo("read_error"), OnIo("write_ok"),
                          OnIo("write_error"), OnIo("write"), OnIo("close")>>
           /\ UNCHANGED <<OnWork("fire_read"), OnWork("append")>>
<1>1. queue \in Queues /\ queue["io"] \in Seq(Tasks) /\ queue["work"] \in Seq(Tasks)
  BY ServerThreads DEF TypeOK, Queues
<1>2. queue' \in Queues /\ queue'["io"] = Ends(queue["io"]) /\ queue'["work"] = queue["work"]
  BY <1>1, AbortedQueue
<1> QED
  BY <1>1, <1>2, EndsFacts DEF OnIo, OnWork, ReadsOut, WritesOut, Ops

(* The same, by the work thread as the last thing of its task. *)
LEMMA IoAbortsWorkPops ==
    ASSUME ~Shared, TypeOK,
           queue["work"] # <<>>,
           queue' = Pop(Aborted(queue), "work")
    PROVE  /\ queue' \in Queues /\ queue'["io"] = Ends(queue["io"])
           /\ queue'["work"] = Tail(queue["work"])
           /\ queue["io"] # <<>> => queue'["io"] # <<>> /\ Head(queue'["io"]) = Head(queue["io"])
           /\ OnIo("read_end")' = OnIo("read_end") + ReadsOut
           /\ OnIo("write_end")' = OnIo("write_end") + WritesOut
           /\ UNCHANGED <<OnIo("read_ok"), OnIo("read_error"), OnIo("write_ok"),
                          OnIo("write_error"), OnIo("write"), OnIo("close")>>
           /\ OnWork("fire_read")' = IF Head(queue["work"]).op = "fire_read"
                                     THEN OnWork("fire_read") - 1 ELSE OnWork("fire_read")
           /\ OnWork("append")' = IF Head(queue["work"]).op = "append"
                                  THEN OnWork("append") - 1 ELSE OnWork("append")
<1>1. queue \in Queues /\ queue["io"] \in Seq(Tasks) /\ queue["work"] \in Seq(Tasks)
  BY ServerThreads DEF TypeOK, Queues
<1>2. queue["work"] # <<>>
  OBVIOUS
<1> DEFINE mid == Aborted(queue)
<1>3. mid \in Queues /\ mid["io"] = Ends(queue["io"]) /\ mid["work"] = queue["work"]
  BY <1>1, <1>2, AbortedQueue
<1>4. queue' = Pop(mid, "work")
  BY DEF mid
<1> HIDE DEF mid
<1>5. queue' \in Queues /\ queue'["io"] = Ends(queue["io"]) /\ queue'["work"] = Tail(queue["work"])
  BY <1>2, <1>3, <1>4, PoppedWork
<1>6. ASSUME NEW o \in Ops
      PROVE  Num(Tail(queue["work"]), o) = IF Head(queue["work"]).op = o
                                           THEN Num(queue["work"], o) - 1 ELSE Num(queue["work"], o)
  BY <1>1, NumTail, NumType DEF If
<1> QED
  BY <1>1, <1>5, <1>6, EndsFacts DEF OnIo, OnWork, ReadsOut, WritesOut, Ops

(* With its parts typed, the state is. *)
LEMMA TypeKept ==
    ASSUME ~Shared, s' \in Members, net' \in Sockets, env' \in Outside, life' \in Lives,
           queue' \in Queues, pc' \in [Threads -> Labels], in_handler' \in BOOLEAN
    PROVE  /\ TypeOK'
BY DEF TypeOK, Queues

-----------------------------------------------------------------------------
(* The steps, as the proofs tell them apart: branches of several actions   *)
(* that do the same to the terms are one relation.                         *)
(* A thread goes from one place to the next, and nothing changes but what  *)
(* the invariant leaves alone: s.notify, s.rbuf.                           *)
Moves(th, l, m) ==
    /\ pc[th] = l
    /\ \/ /\ th = "io"
          /\ <<l, m>> \in {<<"closeTest", "maskTest">>, <<"maskTest", "arm1">>, <<"arm1", "arm2">>}
       \/ th = "io" /\ l = "pendingTest" /\ m = "flagTest" /\ s.pending = 0
       \/ th = "io" /\ l = "pendingTest" /\ m = "writeOn"
       \/ th = "io" /\ l = "writeOn" /\ m = "writeSet" /\ ~s.writing
       \/ /\ th = "io" /\ l = "idle" /\ m = "writeSet" /\ ~s.writing
          /\ queue["io"] # <<>> /\ Head(queue["io"]).op = "write"
       \/ /\ th = "work"
          /\ <<l, m>> \in {<<"notifyTest", "user">>, <<"user", "notifyTest">>,
                           <<"clear1", "clear2">>}
       \/ th = "acc" /\ l = "idle" /\ m = "idleClose" /\ life.where = "session_map"
       \/ th # "io" /\ l = "cnFlag" /\ m = "cnCount" /\ s.close_flag
       \/ th # "io" /\ l = "cnCount" /\ m = "cnReading"
       \/ th # "io" /\ l = "cnReading" /\ m = "cnCancel" /\ s.reading
       \/ /\ th # "io" /\ l \in {"cnFlag", "cnCount"}
          /\ s.close_flag => s.writing \/ s.work_read_count # 0
          /\ IF th = "acc" THEN m = "erase" ELSE m = "user" /\ in_handler

MovesTo(th, m) ==
    /\ pc' = [pc EXCEPT ![th] = m] /\ s' \in Members
    /\ UNCHANGED <<s.reading, s.writing, s.close_flag, s.work_read_count, s.handle_count,
                   s.pending, s.wbuf, s.high_water>>
    /\ UNCHANGED <<net, env, life, queue, in_handler>>

(* The I/O thread has nothing to do, or no more, for its task. *)
IoFinishes ==
    /\ \/ pc["io"] = "idle" /\ queue["io"] # <<>> /\ Head(queue["io"]).op = "write"
          /\ (s.writing \/ s.pending = 0)
       \/ pc["io"] = "flagTest" /\ ~s.close_flag
       \/ pc["io"] = "readingTest" /\ s.reading
       \/ pc["io"] = "countTest" /\ s.work_read_count # 0
    /\ Finish("io") /\ UNCHANGED <<s, net, env, life>>

(* handle_write ends in a write() that finds nothing to do. *)
IoPasses ==
    /\ pc["io"] = "writeOn" /\ (s.writing \/ s.pending = 0)
    /\ Finish("io") /\ life' = [life EXCEPT !.passed = life.passed \/ s.close_flag]
    /\ UNCHANGED <<s, net, env>>

(* A call made inside fire_read or by the accept thread posts a task and   *)
(* returns; the last call of the work thread's task does.                  *)
Posts(th, op) ==
    /\ \/ th = "work" /\ op = "write" /\ pc["work"] = "postWrite"
       \/ op = "close" /\ pc[th] = "cnReading"
    /\ th = "work" => in_handler
    /\ pc' = [pc EXCEPT ![th] = IF th = "acc" THEN "erase" ELSE "user"]
    /\ queue' = Post(queue, "io", Task(op, 0))
    /\ UNCHANGED <<s, net, env, life, in_handler>>

PostsLast(op) ==
    /\ \/ op = "write" /\ pc["work"] = "postWrite"
       \/ op = "close" /\ pc["work"] = "cnReading"
    /\ ~in_handler
    /\ pc' = [pc EXCEPT !["work"] = "idle"]
    /\ queue' = Pop(Post(queue, "io", Task(op, 0)), "work")
    /\ UNCHANGED <<s, net, env, life, in_handler>>

(* Such a call cancels the operations and returns. *)
Cancels(th) ==
    /\ pc[th] = "cnCancel" /\ (th = "work" => in_handler)
    /\ pc' = [pc EXCEPT ![th] = IF th = "acc" THEN "erase" ELSE "user"]
    /\ queue' = Aborted(queue) /\ net' = [net EXCEPT !.reads = 0, !.writes = <<>>]
    /\ UNCHANGED <<s, env, life, in_handler>>

(* The I/O thread closes the socket of a session whose close_flag is set. *)
IoCloses(l) ==
    /\ \/ pc["io"] = "closeTest" /\ l = "countTest"
       \/ pc["io"] = "readingTest" /\ l = "countTest"
       \/ /\ pc["io"] = "idle" /\ queue["io"] # <<>> /\ Head(queue["io"]).op = "close"
          /\ l = "remove"
    /\ net.sock # "closed" /\ s.close_flag
    /\ net' = SocketClose /\ Go(Aborted(queue), "io", l)
    /\ life' = [life EXCEPT !.fired = IF l = "remove" THEN life.fired + 1 ELSE life.fired]
    /\ UNCHANGED <<s, env>>

(* The flag is set by a handler or by the accept thread. *)
SetsClose(th) ==
    /\ \/ th = "work" /\ pc["work"] = "user"
       \/ th = "acc" /\ pc["acc"] = "idleClose"
    /\ pc' = [pc EXCEPT ![th] = "cnFlag"] /\ s' = [s EXCEPT !.close_flag = TRUE]
    /\ UNCHANGED <<net, env, life, queue, in_handler>>

(* An operation leaves the socket and its completion is posted. *)
ReadLeaves(op, n) ==
    /\ net.reads > 0 /\ net' = [net EXCEPT !.reads = @ - 1]
    /\ \E m \in Nat : env' = [env EXCEPT !.received = m]
    /\ Completes(Task(op, n))

WriteLeaves(op, n) ==
    /\ net.writes # <<>> /\ net' = [net EXCEPT !.writes = Tail(@)]
    /\ Completes(Task(op, n)) /\ UNCHANGED env

FlagTestShuts ==
    /\ pc["io"] = "flagTest" /\ ClosesAfterWrite /\ ShutdownMayPass
    /\ net' = [net EXCEPT !.sock = "shut"]
    /\ Goto("io", "readingTest") /\ UNCHANGED <<s, env, life>>

-----------------------------------------------------------------------------
(* The steps of the I/O thread, and read(), which any thread may call. *)

(* handle_read: the read is no longer under way, and has a handle.         *)
LEMMA HandleReadKeeps ==
    ASSUME ~Shared, IInv, HandleRead
    PROVE  IInv'
<1> USE ServerThreads DEF IInv
<1>e. pc["io"] = "idle" /\ queue["io"] # <<>> /\ Head(queue["io"]).op = "read_ok"
  BY DEF HandleRead, Begins, Runs, Goto, Go, Length
<1>x. /\ s' = [s EXCEPT !.handle_count = s.handle_count + 1, !.reading = FALSE,
                        !.rbuf = s.rbuf + Head(queue["io"]).n]
      /\ pc' = [pc EXCEPT !["io"] = "closeTest"] /\ queue' = queue
      /\ UNCHANGED <<net, env, life, in_handler>>
  BY DEF HandleRead, Begins, Goto, Go, Length
<1>p. OnIo("read_ok") > 0
  BY <1>e, Heads
<1>f. /\ s'.reading = FALSE /\ s'.writing = s.writing /\ s'.close_flag = s.close_flag
      /\ s'.work_read_count = s.work_read_count /\ s'.handle_count = s.handle_count + 1
      /\ s'.pending = s.pending /\ s'.wbuf = s.wbuf /\ s'.high_water = s.high_water
      /\ pc'["io"] = "closeTest" /\ pc'["work"] = pc["work"] /\ pc'["acc"] = pc["acc"]
      /\ net' = net /\ env' = env /\ life' = life /\ in_handler' = in_handler /\ queue' = queue
  BY <1>x DEF TypeOK, Members
<1>v1. s.handle_count + 1 \in Nat
  BY Fields
<1>v3. s.rbuf + Head(queue["io"]).n \in Nat
  <2>1. s.rbuf \in Nat /\ Head(queue["io"]).n \in Nat
    BY <1>e, Fields, HeadsTyped
  <2> QED
    BY <2>1
<1>k. UNCHANGED <<writeTerms, handlerTerms, outTerms>>
  BY <1>e, <1>f
  DEF writeTerms, handlerTerms, outTerms, WriteFlag, WriteNext, WritesOut, WroteOk, WroteEnded,
      InTask, Runs, Handlers, HandlerOut, Returned, Buffered, Appends, Written, OnIo, OnWork
<1>breads. /\ ReadFlag' = 0 /\ Taken("read_ok") = 0 /\ Taken("read_ok")' = 1
           /\ Taken("read_end") = 0
      /\ Taken("read_end")' = 0 /\ ReadPassed = 0 /\ ReadPassed' = 0
      /\ UNCHANGED <<Starting, Reading, ReadsOut, OnIo("read_ok"), OnIo("read_end"),
                     OnIo("read_error"), Armed>>
  BY <1>e, <1>f
  DEF ReadFlag, Starting, Reading, Starts, Reads, ReadsOut, Taken, InTask, Runs, ReadPassed,
      HandlesRead, Armed, Resuming, If, OnIo
<1>bhandles. /\ Handles' = Handles + 1 /\ Taken("read_ok") = 0 /\ Taken("read_ok")' = 1
      /\ UNCHANGED <<OnWork("fire_read"), HandlerPast, WriteHeld, CloseFlag>>
  BY <1>e, <1>f
  DEF Handles, HandlerPast, Returned, WriteHeld, Taken, InTask, CloseFlag, Runs, If, OnWork
<1>1. TypeOK'
  <2>1. s' \in Members
    BY <1>x, <1>v1, <1>v3, Zenon DEF TypeOK, Members
  <2>2. /\ net' \in Sockets /\ env' \in Outside /\ life' \in Lives /\ queue' \in Queues
        /\ pc' \in [Threads -> Labels] /\ in_handler' \in BOOLEAN
    BY <1>x DEF TypeOK, Queues, Labels
  <2> QED
    BY <2>1, <2>2, TypeKept
<1>2. IoPlaces' /\ WorkPlaces' /\ AccPlaces'
  BY <1>e, <1>f DEF IoPlaces, WorkPlaces, AccPlaces
<1>3. WritesTrue' /\ HandlersTrue' /\ OutBounded'
  BY <1>k, WritesKept, HandlersKept, OutKept
<1>4. ReadsTrue'
  BY <1>p, <1>breads, Terms, Bits, SMTT(30) DEF ReadsTrue
<1>5. OneReader'
  BY <1>p, <1>breads, Terms, Bits, SMTT(30) DEF OneReader
<1>6. HandlesTrue'
  BY <1>p, <1>bhandles, Terms, Bits, SMTT(30) DEF HandlesTrue
<1>7. OutFits' /\ PendingShort' /\ LifeInOrder'
  BY <1>e, <1>f DEF OutFits, PendingShort, LifeInOrder
<1>8. DoneFits'
  BY <1>f DEF DoneFits
<1>9. WriteComing'
  BY <1>e, <1>f DEF WriteComing, PendingShort, OnIo
<1>10. ClosingKnown'
  BY <1>e, <1>f DEF ClosingKnown, LifeInOrder, InTask, Runs, OnIo
<1>11. WillClose'
  BY <1>f DEF WillClose, ClosesOn, Left
<1> QED
  BY <1>1, <1>2, <1>3, <1>4, <1>5, <1>6, <1>7, <1>8, <1>9, <1>10, <1>11

(* handle_read with an error, while a write is under way.                  *)
LEMMA HandleReadEndWritingKeeps ==
    ASSUME ~Shared, IInv, HandleReadEnd,
           s.writing
    PROVE  IInv'
<1> USE ServerThreads DEF IInv
<1>e. /\ pc["io"] = "idle" /\ queue["io"] # <<>> /\ Head(queue["io"]).op = "read_end"
      /\ s.writing = TRUE
  BY DEF HandleReadEnd, Begins, Runs, Finish, Go
<1>x. /\ s' = [s EXCEPT !.handle_count = s.handle_count + 1, !.reading = FALSE, !.close_flag = TRUE]
      /\ pc' = [pc EXCEPT !["io"] = "idle"] /\ queue' = Pop(queue, "io")
      /\ UNCHANGED <<net, env, life, in_handler>>
  BY DEF HandleReadEnd, Begins, Finish, Go
<1>p. OnIo("read_end") > 0
  BY <1>e, Heads
<1>q. queue' \in Queues /\ queue'["io"] = Tail(queue["io"]) /\ queue'["work"] = queue["work"]
  BY <1>e, <1>x, IoPops DEF Ops
<1>n. /\ OnIo("read_end")' = OnIo("read_end") - 1
      /\ UNCHANGED <<OnIo("read_ok"), OnIo("read_error"), OnIo("write_ok"), OnIo("write_end"),
                     OnIo("write_error"), OnIo("write"), OnIo("close"), OnWork("fire_read"),
                     OnWork("append")>>
  BY <1>e, <1>x, IoPops
<1>f. /\ s'.reading = FALSE /\ s'.writing = s.writing /\ s'.close_flag = TRUE
      /\ s'.work_read_count = s.work_read_count /\ s'.handle_count = s.handle_count + 1
      /\ s'.pending = s.pending /\ s'.wbuf = s.wbuf /\ s'.high_water = s.high_water
      /\ pc'["io"] = "idle" /\ pc'["work"] = pc["work"] /\ pc'["acc"] = pc["acc"] /\ net' = net
      /\ env' = env /\ life' = life /\ in_handler' = in_handler
  BY <1>x DEF TypeOK, Members
<1>v1. s.handle_count + 1 \in Nat
  BY Fields
<1>k. UNCHANGED <<writeTerms, handlerTerms, outTerms>>
  BY <1>e, <1>f, <1>q, <1>n
  DEF writeTerms, handlerTerms, outTerms, WriteFlag, WriteNext, WritesOut, WroteOk, WroteEnded,
      InTask, Runs, Handlers, HandlerOut, Returned, Buffered, Appends, Written
<1>breads. /\ ReadFlag' = 0 /\ Taken("read_ok") = 0 /\ Taken("read_ok")' = 0
           /\ Taken("read_end") = 0
      /\ Taken("read_end")' = 0 /\ ReadPassed = 0 /\ ReadPassed' = 0
      /\ UNCHANGED <<Starting, Reading, ReadsOut, Armed>>
  BY <1>e, <1>f
  DEF ReadFlag, Starting, Reading, Starts, Reads, ReadsOut, Taken, InTask, ReadPassed, HandlesRead,
      Armed, Resuming, If
<1>bhandles. /\ Handles' = Handles + 1 /\ Taken("read_ok") = 0 /\ Taken("read_ok")' = 0
      /\ CloseFlag' = 1 /\ UNCHANGED <<HandlerPast, WriteHeld>>
  BY <1>e, <1>f, <1>q
  DEF Handles, HandlerPast, Returned, WriteHeld, Taken, InTask, CloseFlag, Runs, If
<1>1. TypeOK'
  <2>1. s' \in Members
    BY <1>x, <1>v1, Zenon DEF TypeOK, Members
  <2>2. /\ net' \in Sockets /\ env' \in Outside /\ life' \in Lives
        /\ pc' \in [Threads -> Labels] /\ in_handler' \in BOOLEAN
    BY <1>x DEF TypeOK, Labels
  <2> QED
    BY <2>1, <1>q, <2>2, TypeKept
<1>2. IoPlaces' /\ WorkPlaces' /\ AccPlaces'
  BY <1>f, <1>q DEF IoPlaces, WorkPlaces, AccPlaces
<1>3. WritesTrue' /\ HandlersTrue' /\ OutBounded'
  BY <1>k, WritesKept, HandlersKept, OutKept
<1>4. ReadsTrue'
  BY <1>p, <1>n, <1>breads, Terms, Bits, SMTT(30) DEF ReadsTrue
<1>5. OneReader'
  BY <1>p, <1>n, <1>breads, Terms, Bits, SMTT(30) DEF OneReader
<1>6. HandlesTrue'
  BY <1>p, <1>n, <1>bhandles, Terms, Bits, SMTT(30) DEF HandlesTrue
<1>7. OutFits' /\ PendingShort' /\ LifeInOrder'
  BY <1>e, <1>f DEF OutFits, PendingShort, LifeInOrder
<1>8. DoneFits'
  <2>1. queue["io"] \in Seq(Tasks)
    BY DEF TypeOK
  <2> QED
    BY <1>e, <1>f, <1>q, <2>1, DonePopped
<1>9. WriteComing'
  BY <1>f, <1>n DEF WriteComing, PendingShort
<1>10. ClosingKnown'
  BY <1>f, <1>n DEF ClosingKnown, LifeInOrder
<1>11. WillClose'
  BY <1>f, <1>n DEF WillClose, ClosesOn, Left
<1> QED
  BY <1>1, <1>2, <1>3, <1>4, <1>5, <1>6, <1>7, <1>8, <1>9, <1>10, <1>11

(* handle_read with an error: close_after_last_read closes the socket.     *)
LEMMA HandleReadEndClosesKeeps ==
    ASSUME ~Shared, IInv, HandleReadEnd,
           ~s.writing
    PROVE  IInv'
<1> USE ServerThreads DEF IInv
<1>e. /\ pc["io"] = "idle" /\ queue["io"] # <<>> /\ Head(queue["io"]).op = "read_end"
      /\ net.sock # "closed"
  BY DEF HandleReadEnd, Begins, Runs, Goto, Go, CloseAndGo, SocketClose, ShutdownMayPass
<1>x. /\ s' = [s EXCEPT !.handle_count = s.handle_count + 1, !.reading = FALSE, !.close_flag = TRUE]
      /\ pc' = [pc EXCEPT !["io"] = "countTest"] /\ queue' = Aborted(queue)
      /\ net' = [net EXCEPT !.sock = "closed", !.reads = 0, !.writes = <<>>]
      /\ UNCHANGED <<env, life, in_handler>>
  BY DEF HandleReadEnd, Begins, Goto, Go, CloseAndGo, SocketClose, ShutdownMayPass
<1>p. OnIo("read_end") > 0
  BY <1>e, Heads
<1>q. /\ queue' \in Queues /\ queue'["io"] = Ends(queue["io"])
      /\ queue["io"] # <<>> => queue'["io"] # <<>> /\ Head(queue'["io"]) = Head(queue["io"])
      /\ queue'["work"] = queue["work"]
  BY <1>x, IoAborts DEF Ops
<1>n. /\ OnIo("read_end")' = OnIo("read_end") + ReadsOut
      /\ OnIo("write_end")' = OnIo("write_end") + WritesOut
      /\ UNCHANGED <<OnIo("read_ok"), OnIo("read_error"), OnIo("write_ok"), OnIo("write_error"),
                     OnIo("write"), OnIo("close"), OnWork("fire_read"), OnWork("append")>>
  BY <1>x, IoAborts
<1>f. /\ s'.reading = FALSE /\ s'.writing = s.writing /\ s'.close_flag = TRUE
      /\ s'.work_read_count = s.work_read_count /\ s'.handle_count = s.handle_count + 1
      /\ s'.pending = s.pending /\ s'.wbuf = s.wbuf /\ s'.high_water = s.high_water
      /\ pc'["io"] = "countTest" /\ pc'["work"] = pc["work"] /\ pc'["acc"] = pc["acc"]
      /\ net'.sock = "closed" /\ net'.reads = 0 /\ net'.writes = <<>> /\ env' = env
      /\ life' = life /\ in_handler' = in_handler
  BY <1>x DEF TypeOK, Members, Sockets
<1>v1. s.handle_count + 1 \in Nat
  BY Fields
<1>k. UNCHANGED <<handlerTerms, outTerms>>
  BY <1>f, <1>q, <1>n
  DEF handlerTerms, outTerms, Handlers, HandlerOut, Returned, Runs, Buffered, Appends, Written,
      InTask
<1>breads. /\ ReadFlag' = 0 /\ ReadsOut' = 0 /\ Taken("read_ok") = 0 /\ Taken("read_ok")' = 0
      /\ Taken("read_end") = 0 /\ Taken("read_end")' = 1 /\ ReadPassed = 0 /\ ReadPassed' = 0
      /\ UNCHANGED <<Starting, Reading, Armed>>
  BY <1>e, <1>f, <1>q
  DEF ReadFlag, Starting, Reading, Starts, Reads, ReadsOut, Taken, InTask, Runs, ReadPassed,
      HandlesRead, Armed, Resuming, If
<1>bwrites. WritesOut' = 0 /\ UNCHANGED <<WriteFlag, WriteNext, WroteOk, WroteEnded>>
  BY <1>e, <1>f, <1>q DEF WriteFlag, WriteNext, WritesOut, WroteOk, WroteEnded, InTask, Runs
<1>bhandles. /\ Handles' = Handles + 1 /\ Taken("read_ok") = 0 /\ Taken("read_ok")' = 0
      /\ CloseFlag' = 1 /\ UNCHANGED <<HandlerPast, WriteHeld>>
  BY <1>e, <1>f, <1>q
  DEF Handles, HandlerPast, Returned, WriteHeld, Taken, InTask, CloseFlag, Runs, If
<1>1. TypeOK'
  <2>1. s' \in Members
    BY <1>x, <1>v1, Zenon DEF TypeOK, Members
  <2>2. "closed" \in {"open", "shut", "closed"} /\ 0 \in Nat /\ <<>> \in Seq(Nat)
    OBVIOUS
  <2>3. net' \in Sockets
    BY <1>x, <2>2, Zenon DEF TypeOK, Sockets
  <2>4. /\ env' \in Outside /\ life' \in Lives /\ pc' \in [Threads -> Labels]
        /\ in_handler' \in BOOLEAN
    BY <1>x DEF TypeOK, Labels
  <2> QED
    BY <2>1, <2>3, <1>q, <2>4, TypeKept
<1>2. IoPlaces' /\ WorkPlaces' /\ AccPlaces'
  BY <1>e, <1>f, <1>q DEF IoPlaces, WorkPlaces, AccPlaces
<1>3. HandlersTrue' /\ OutBounded'
  BY <1>k, HandlersKept, OutKept
<1>4. ReadsTrue'
  BY <1>p, <1>n, <1>breads, Terms, Bits, SMTT(30) DEF ReadsTrue
<1>5. OneReader'
  BY <1>p, <1>n, <1>breads, Terms, Bits, SMTT(30) DEF OneReader
<1>6. WritesTrue'
  BY <1>p, <1>n, <1>bwrites, Terms, Bits, SMTT(30) DEF WritesTrue
<1>7. HandlesTrue'
  BY <1>p, <1>n, <1>bhandles, Terms, Bits, SMTT(30) DEF HandlesTrue
<1>8. OutFits' /\ PendingShort' /\ LifeInOrder'
  BY <1>e, <1>f DEF OutFits, PendingShort, LifeInOrder
<1>9. DoneFits'
  <2>1. queue["io"] \in Seq(Tasks)
    BY DEF TypeOK
  <2> QED
    BY <1>f, <1>q, <2>1, DoneAborted
<1>10. WriteComing'
  BY <1>f, <1>n DEF WriteComing, PendingShort
<1>11. ClosingKnown'
  BY <1>f, <1>n DEF ClosingKnown, LifeInOrder
<1>12. WillClose'
  BY <1>f, <1>n DEF WillClose, ClosesOn, Left
<1> QED
  BY <1>1, <1>2, <1>3, <1>4, <1>5, <1>6, <1>7, <1>8, <1>9, <1>10, <1>11, <1>12

(* The read buffer is below the mask: handle_read reads on.                *)
LEMMA MaskTestBelowKeeps ==
    ASSUME ~Shared, IInv, MaskTest,
           BelowMask
    PROVE  IInv'
<1> USE ServerThreads DEF IInv
<1>e. pc["io"] = "maskTest"
  BY DEF MaskTest, Test, Goto, Go
<1>x. /\ pc' = [pc EXCEPT !["io"] = "readSet"] /\ queue' = queue
      /\ UNCHANGED <<s, net, env, life, in_handler>>
  BY DEF MaskTest, Test, Goto, Go
<1>p. OnIo("read_ok") > 0
  BY <1>e, Heads DEF IoPlaces
<1>f. /\ s' = s /\ pc'["io"] = "readSet" /\ pc'["work"] = pc["work"] /\ pc'["acc"] = pc["acc"]
      /\ net' = net /\ env' = env /\ life' = life /\ in_handler' = in_handler /\ queue' = queue
  BY <1>x DEF TypeOK
<1>k. UNCHANGED <<writeTerms, handlerTerms, handleTerms, outTerms>>
  BY <1>e, <1>f
  DEF writeTerms, handlerTerms, handleTerms, outTerms, WriteFlag, WriteNext, WritesOut, WroteOk,
      WroteEnded, InTask, Runs, Handlers, HandlerOut, Returned, Handles, HandlerPast, WriteHeld,
      Taken, CloseFlag, Buffered, Appends, Written, OnIo, OnWork
<1>breads. /\ Reading' = Reading + 1 /\ ReadPassed = 0 /\ ReadPassed' = 1
      /\ UNCHANGED <<ReadFlag, Starting, ReadsOut, OnIo("read_ok"), OnIo("read_end"),
                     OnIo("read_error"), Taken("read_ok"), Taken("read_end"), Armed>>
  BY <1>e, <1>f
  DEF ReadFlag, Starting, Reading, Starts, Reads, ReadsOut, Taken, InTask, Runs, ReadPassed,
      HandlesRead, Armed, Resuming, If, OnIo, IoPlaces
<1>1. TypeOK'
  <2>1. /\ s' \in Members /\ net' \in Sockets /\ env' \in Outside /\ life' \in Lives
        /\ queue' \in Queues /\ pc' \in [Threads -> Labels] /\ in_handler' \in BOOLEAN
    BY <1>x DEF TypeOK, Queues, Labels
  <2> QED
    BY <2>1, TypeKept
<1>2. IoPlaces' /\ WorkPlaces' /\ AccPlaces'
  BY <1>e, <1>f DEF IoPlaces, WorkPlaces, AccPlaces
<1>3. WritesTrue' /\ HandlersTrue' /\ HandlesTrue' /\ OutBounded'
  BY <1>k, WritesKept, HandlersKept, HandlesKept, OutKept
<1>4. ReadsTrue'
  BY <1>p, <1>breads, Terms, Bits, SMTT(30) DEF ReadsTrue
<1>5. OneReader'
  BY <1>p, <1>breads, Terms, Bits, SMTT(30) DEF OneReader
<1>6. OutFits' /\ PendingShort' /\ LifeInOrder'
  BY <1>e, <1>f DEF OutFits, PendingShort, LifeInOrder
<1>7. DoneFits'
  BY <1>f DEF DoneFits
<1>8. WriteComing'
  BY <1>e, <1>f DEF WriteComing, PendingShort, OnIo
<1>9. ClosingKnown'
  BY <1>e, <1>f DEF ClosingKnown, LifeInOrder, InTask, Runs, OnIo
<1>10. WillClose'
  BY <1>f DEF WillClose, ClosesOn, Left
<1> QED
  BY <1>1, <1>2, <1>3, <1>4, <1>5, <1>6, <1>7, <1>8, <1>9, <1>10

(* The notification is armed: the right to read passes to the consumer.    *)
LEMMA ArmMaskKeeps ==
    ASSUME ~Shared, IInv, Arm,
           pc["io"] = "arm2"
    PROVE  IInv'
<1> USE ServerThreads DEF IInv
<1>e. pc["io"] = "arm2"
  BY DEF Arm, AfterArm, Goto, Go
<1>x. /\ pc' = [pc EXCEPT !["io"] = "postRead"] /\ s' = [s EXCEPT !.high_water = Mask]
      /\ queue' = queue /\ UNCHANGED <<net, env, life, in_handler>>
  BY DEF Arm, AfterArm, Goto, Go
<1>p. OnIo("read_ok") > 0
  BY Heads DEF IoPlaces
<1>f. /\ s'.reading = s.reading /\ s'.writing = s.writing /\ s'.close_flag = s.close_flag
      /\ s'.work_read_count = s.work_read_count /\ s'.handle_count = s.handle_count
      /\ s'.pending = s.pending /\ s'.wbuf = s.wbuf /\ s'.high_water = Mask
      /\ pc'["io"] = "postRead" /\ pc'["work"] = pc["work"] /\ pc'["acc"] = pc["acc"]
      /\ net' = net /\ env' = env /\ life' = life /\ in_handler' = in_handler /\ queue' = queue
  BY <1>x DEF TypeOK, Members
<1>k. UNCHANGED <<writeTerms, handlerTerms, handleTerms, outTerms>>
  BY <1>f
  DEF writeTerms, handlerTerms, handleTerms, outTerms, WriteFlag, WriteNext, WritesOut, WroteOk,
      WroteEnded, InTask, Runs, Handlers, HandlerOut, Returned, Handles, HandlerPast, WriteHeld,
      Taken, CloseFlag, Buffered, Appends, Written, OnIo, OnWork
<1>breads. /\ ReadPassed = 0 /\ ReadPassed' = 1 /\ Armed' \in {0, 1}
      /\ UNCHANGED <<ReadFlag, Starting, Reading, ReadsOut, OnIo("read_ok"), OnIo("read_end"),
                     OnIo("read_error"), Taken("read_ok"), Taken("read_end")>>
  BY <1>f
  DEF ReadFlag, Starting, Reading, Starts, Reads, ReadsOut, Taken, InTask, Runs, ReadPassed,
      HandlesRead, Armed, Resuming, If, OnIo, IoPlaces
<1>1. TypeOK'
  <2>1. s' \in Members
    BY <1>x, Zenon DEF TypeOK, Members
  <2>2. /\ net' \in Sockets /\ env' \in Outside /\ life' \in Lives /\ queue' \in Queues
        /\ pc' \in [Threads -> Labels] /\ in_handler' \in BOOLEAN
    BY <1>x DEF TypeOK, Queues, Labels
  <2> QED
    BY <2>1, <2>2, TypeKept
<1>2. IoPlaces' /\ WorkPlaces' /\ AccPlaces'
  BY <1>f DEF IoPlaces, WorkPlaces, AccPlaces
<1>3. WritesTrue' /\ HandlersTrue' /\ HandlesTrue' /\ OutBounded'
  BY <1>k, WritesKept, HandlersKept, HandlesKept, OutKept
<1>4. ReadsTrue'
  BY <1>p, <1>breads, Terms, Bits, SMTT(30) DEF ReadsTrue
<1>5. OneReader'
  BY <1>p, <1>breads, Terms, Bits, SMTT(30) DEF OneReader
<1>6. OutFits' /\ PendingShort' /\ LifeInOrder'
  BY <1>f DEF OutFits, PendingShort, LifeInOrder
<1>7. DoneFits'
  BY <1>f DEF DoneFits
<1>8. WriteComing'
  BY <1>f DEF WriteComing, PendingShort, OnIo
<1>9. ClosingKnown'
  BY <1>f DEF ClosingKnown, LifeInOrder, InTask, Runs, OnIo
<1>10. WillClose'
  BY <1>f DEF WillClose, ClosesOn, Left
<1> QED
  BY <1>1, <1>2, <1>3, <1>4, <1>5, <1>6, <1>7, <1>8, <1>9, <1>10

(* handle_read posts fire_read and counts it.                              *)
LEMMA PostFireReadKeeps ==
    ASSUME ~Shared, IInv, PostFireRead
    PROVE  IInv'
<1> USE ServerThreads DEF IInv
<1>e. pc["io"] = "postRead" /\ queue["io"] # <<>> /\ Head(queue["io"]).op = "read_ok"
  BY DEF PostFireRead, Go, Work, IoPlaces
<1>x. /\ pc' = [pc EXCEPT !["io"] = "idle"]
      /\ s' = [s EXCEPT !.work_read_count = s.work_read_count + 1]
      /\ queue' = Pop(Post(queue, "work", Task("fire_read", 0)), "io")
      /\ UNCHANGED <<net, env, life, in_handler>>
  BY DEF PostFireRead, Go, Work
<1>p. OnIo("read_ok") > 0
  BY <1>e, Heads
<1>q. /\ queue' \in Queues /\ queue'["io"] = Tail(queue["io"])
      /\ queue["work"] # <<>> => queue'["work"] # <<>> /\ Head(queue'["work"]) = Head(queue["work"])
  BY <1>e, <1>x, IoPopsWorkPosts DEF Ops
<1>n. /\ OnIo("read_ok")' = OnIo("read_ok") - 1 /\ OnWork("fire_read")' = OnWork("fire_read") + 1
      /\ UNCHANGED <<OnIo("read_end"), OnIo("read_error"), OnIo("write_ok"), OnIo("write_end"),
                     OnIo("write_error"), OnIo("write"), OnIo("close"), OnWork("append")>>
  BY <1>e, <1>x, IoPopsWorkPosts
<1>f. /\ s'.reading = s.reading /\ s'.writing = s.writing /\ s'.close_flag = s.close_flag
      /\ s'.work_read_count = s.work_read_count + 1 /\ s'.handle_count = s.handle_count
      /\ s'.pending = s.pending /\ s'.wbuf = s.wbuf /\ s'.high_water = s.high_water
      /\ pc'["io"] = "idle" /\ pc'["work"] = pc["work"] /\ pc'["acc"] = pc["acc"] /\ net' = net
      /\ env' = env /\ life' = life /\ in_handler' = in_handler
  BY <1>x DEF TypeOK, Members
<1>v1. s.work_read_count + 1 \in Nat
  BY Fields
<1>k. UNCHANGED <<writeTerms, outTerms>>
  BY <1>e, <1>f, <1>q, <1>n
  DEF writeTerms, outTerms, WriteFlag, WriteNext, WritesOut, WroteOk, WroteEnded, InTask, Runs,
      Buffered, Appends, Written, WorkPlaces
<1>breads. /\ Taken("read_ok") = 1 /\ Taken("read_ok")' = 0 /\ Taken("read_end") = 0
      /\ Taken("read_end")' = 0 /\ ReadPassed = 1 /\ ReadPassed' = 0
      /\ UNCHANGED <<ReadFlag, Starting, Reading, ReadsOut, Armed>>
  BY <1>e, <1>f
  DEF ReadFlag, Starting, Reading, Starts, Reads, ReadsOut, Taken, InTask, Runs, ReadPassed,
      HandlesRead, Armed, Resuming, If
<1>bhandlers. Handlers' = Handlers + 1 /\ UNCHANGED HandlerOut
  BY <1>f, <1>q DEF Handlers, HandlerOut, Returned, Runs, WorkPlaces
<1>bhandles. /\ Taken("read_ok") = 1 /\ Taken("read_ok")' = 0
      /\ UNCHANGED <<Handles, HandlerPast, WriteHeld, CloseFlag>>
  BY <1>e, <1>f, <1>q
  DEF Handles, HandlerPast, Returned, WriteHeld, Taken, InTask, CloseFlag, Runs, If, WorkPlaces
<1>1. TypeOK'
  <2>1. s' \in Members
    BY <1>x, <1>v1, Zenon DEF TypeOK, Members
  <2>2. /\ net' \in Sockets /\ env' \in Outside /\ life' \in Lives
        /\ pc' \in [Threads -> Labels] /\ in_handler' \in BOOLEAN
    BY <1>x DEF TypeOK, Labels
  <2> QED
    BY <2>1, <1>q, <2>2, TypeKept
<1>2. IoPlaces' /\ WorkPlaces' /\ AccPlaces'
  BY <1>f, <1>q DEF IoPlaces, WorkPlaces, AccPlaces
<1>3. WritesTrue' /\ OutBounded'
  BY <1>k, WritesKept, OutKept
<1>4. ReadsTrue'
  BY <1>p, <1>n, <1>breads, Terms, Bits, SMTT(30) DEF ReadsTrue
<1>5. OneReader'
  BY <1>p, <1>n, <1>breads, Terms, Bits, SMTT(30) DEF OneReader
<1>6. HandlersTrue'
  BY <1>p, <1>n, <1>bhandlers, Terms, Bits, SMTT(30) DEF HandlersTrue
<1>7. HandlesTrue'
  BY <1>p, <1>n, <1>bhandles, Terms, Bits, SMTT(30) DEF HandlesTrue, ClosingKnown, CloseFlag, If
<1>8. OutFits' /\ PendingShort' /\ LifeInOrder'
  BY <1>e, <1>f DEF OutFits, PendingShort, LifeInOrder
<1>9. DoneFits'
  <2>1. queue["io"] \in Seq(Tasks)
    BY DEF TypeOK
  <2> QED
    BY <1>e, <1>f, <1>q, <2>1, DonePopped
<1>10. WriteComing'
  BY <1>e, <1>f, <1>n DEF WriteComing, PendingShort
<1>11. ClosingKnown'
  BY <1>f, <1>n DEF ClosingKnown, LifeInOrder, InTask
<1>12. WillClose'
  BY <1>f, <1>n, Fields DEF WillClose, ClosesOn, Left
<1> QED
  BY <1>1, <1>2, <1>3, <1>4, <1>5, <1>6, <1>7, <1>8, <1>9, <1>10, <1>11, <1>12

(* read() sets reading_: whoever does has the only right to read.          *)
LEMMA ReadSetKeeps ==
    ASSUME ~Shared, IInv, NEW th \in Threads,
           ReadSet(th)
    PROVE  IInv'
<1> USE ServerThreads DEF IInv
<1>e. pc[th] = "readSet"
  BY DEF ReadSet, ReadFlagged, Goto, Go
<1>x. /\ pc' = [pc EXCEPT ![th] = "readStart"] /\ s' = [s EXCEPT !.reading = TRUE]
      /\ queue' = queue /\ UNCHANGED <<net, env, life, in_handler>>
  BY DEF ReadSet, ReadFlagged, Goto, Go
<1>f. /\ s'.reading = TRUE /\ s'.writing = s.writing /\ s'.close_flag = s.close_flag
      /\ s'.work_read_count = s.work_read_count /\ s'.handle_count = s.handle_count
      /\ s'.pending = s.pending /\ s'.wbuf = s.wbuf /\ s'.high_water = s.high_water
      /\ pc'["io"] = IF th = "io" THEN "readStart" ELSE pc["io"]
      /\ pc'["work"] = IF th = "work" THEN "readStart" ELSE pc["work"]
      /\ pc'["acc"] = IF th = "acc" THEN "readStart" ELSE pc["acc"]
      /\ net' = net /\ env' = env /\ life' = life /\ in_handler' = in_handler /\ queue' = queue
  BY <1>x DEF TypeOK, Members
<1>k. UNCHANGED <<writeTerms, handlerTerms, handleTerms, outTerms>>
  BY <1>e, <1>f
  DEF writeTerms, handlerTerms, handleTerms, outTerms, WriteFlag, WriteNext, WritesOut, WroteOk,
      WroteEnded, InTask, Runs, Handlers, HandlerOut, Returned, Handles, HandlerPast, WriteHeld,
      Taken, CloseFlag, Buffered, Appends, Written, OnIo, OnWork
<1>breads. /\ ReadFlag' = 1 /\ Starting' = Starting + 1
      /\ UNCHANGED <<Reading, ReadsOut, OnIo("read_ok"), OnIo("read_end"), OnIo("read_error"),
                     Taken("read_ok"), Taken("read_end"), ReadPassed, Armed>>
  BY <1>e, <1>f
  DEF ReadFlag, Starting, Reading, Starts, Reads, ReadsOut, Taken, InTask, Runs, ReadPassed,
      HandlesRead, Armed, Resuming, If, OnIo
<1>1. TypeOK'
  <2>1. s' \in Members
    BY <1>x, Zenon DEF TypeOK, Members
  <2>2. /\ net' \in Sockets /\ env' \in Outside /\ life' \in Lives /\ queue' \in Queues
        /\ pc' \in [Threads -> Labels] /\ in_handler' \in BOOLEAN
    BY <1>x DEF TypeOK, Queues, Labels
  <2> QED
    BY <2>1, <2>2, TypeKept
<1>2. IoPlaces' /\ WorkPlaces' /\ AccPlaces'
  BY <1>e, <1>f DEF IoPlaces, WorkPlaces, AccPlaces
<1>3. WritesTrue' /\ HandlersTrue' /\ HandlesTrue' /\ OutBounded'
  BY <1>k, WritesKept, HandlersKept, HandlesKept, OutKept
<1>4. ReadsTrue'
  <2>1. Starting + 1 <= Reading
    BY <1>e DEF Starting, Reading, Starts, Reads, If
  <2>2. /\ Starting = 0 /\ ReadsOut = 0 /\ OnIo("read_error") = 0
        /\ OnIo("read_ok") <= ReadPassed /\ OnIo("read_end") <= Taken("read_end")
    <3>1. /\ Starting \in Nat /\ Reading \in Nat /\ ReadsOut \in Nat /\ Armed \in Nat
          /\ ReadPassed \in Nat /\ Taken("read_end") \in Nat /\ OnIo("read_ok") \in Nat
          /\ OnIo("read_end") \in Nat /\ OnIo("read_error") \in Nat
          /\ ReadPassed <= OnIo("read_ok") /\ Taken("read_end") <= OnIo("read_end")
      BY Terms, Bits, BitsBelow
    <3> QED
      BY <2>1, <3>1, SMTT(30) DEF OneReader
  <2>3. OnIo("read_ok") = Taken("read_ok") /\ OnIo("read_end") = Taken("read_end")
    BY <2>2, Terms, Bits, BitsBelow
  <2> QED
    BY <1>breads, <2>2, <2>3, Bits DEF ReadsTrue
<1>5. OneReader'
  BY <1>breads, Terms, Bits, BitsBelow, SMTT(30) DEF OneReader
<1>6. OutFits' /\ PendingShort' /\ LifeInOrder'
  BY <1>e, <1>f DEF OutFits, PendingShort, LifeInOrder
<1>7. DoneFits'
  BY <1>f DEF DoneFits
<1>8. WriteComing'
  BY <1>e, <1>f DEF WriteComing, PendingShort, OnIo
<1>9. ClosingKnown'
  BY <1>e, <1>f DEF ClosingKnown, LifeInOrder, InTask, Runs, OnIo
<1>10. WillClose'
  BY <1>f DEF WillClose, ClosesOn, Left
<1> QED
  BY <1>1, <1>2, <1>3, <1>4, <1>5, <1>6, <1>7, <1>8, <1>9, <1>10

(* A read is started,                                                      *)
LEMMA ReadStartOpenKeeps ==
    ASSUME ~Shared, IInv, NEW th \in Threads,
           ReadStart(th),
           net.sock # "closed"
    PROVE  IInv'
<1> USE ServerThreads DEF IInv
<1>a. AfterRead(th) = IF th = "io" THEN "postRead" ELSE IF th = "work" THEN "clear1" ELSE "idle"
  BY DEF AfterRead, Runs, IoPlaces, WorkPlaces, ReadStart
<1>e. pc[th] = "readStart"
  BY <1>a DEF ReadStart, StartRead, Go
<1>x. /\ pc' = [pc EXCEPT ![th] = IF th = "io"
                                  THEN "postRead" ELSE IF th = "work" THEN "clear1" ELSE "idle"]
      /\ net' = [net EXCEPT !.reads = net.reads + 1] /\ queue' = queue
      /\ UNCHANGED <<s, env, life, in_handler>>
  BY <1>a DEF ReadStart, StartRead, Go
<1>f. /\ s' = s
      /\ pc'["io"] = IF th = "io" THEN "postRead" ELSE pc["io"]
      /\ pc'["work"] = IF th = "work" THEN "clear1" ELSE pc["work"]
      /\ pc'["acc"] = IF th = "acc" THEN "idle" ELSE pc["acc"]
      /\ net'.sock = net.sock /\ net'.reads = net.reads + 1 /\ net'.writes = net.writes
      /\ env' = env /\ life' = life /\ in_handler' = in_handler /\ queue' = queue
  BY <1>x DEF TypeOK, Sockets
<1>k. UNCHANGED <<writeTerms, handlerTerms, handleTerms, outTerms>>
  BY <1>e, <1>f
  DEF writeTerms, handlerTerms, handleTerms, outTerms, WriteFlag, WriteNext, WritesOut, WroteOk,
      WroteEnded, InTask, Runs, Handlers, HandlerOut, Returned, Handles, HandlerPast, WriteHeld,
      Taken, CloseFlag, Buffered, Appends, Written, OnIo, OnWork
<1>breads. /\ Starting' = Starting - 1 /\ Reading' = Reading - 1 /\ ReadsOut' = ReadsOut + 1
      /\ UNCHANGED <<ReadFlag, OnIo("read_ok"), OnIo("read_end"), OnIo("read_error"),
                     Taken("read_ok"), Taken("read_end"), ReadPassed, Armed>>
  BY <1>e, <1>f
  DEF ReadFlag, Starting, Reading, Starts, Reads, ReadsOut, Taken, InTask, Runs, ReadPassed,
      HandlesRead, Armed, Resuming, If, OnIo
<1>1. TypeOK'
  <2>1. net.reads + 1 \in Nat
    BY Fields
  <2>2. net' \in Sockets
    BY <1>x, <2>1, Zenon DEF TypeOK, Sockets
  <2>3. /\ s' \in Members /\ env' \in Outside /\ life' \in Lives /\ queue' \in Queues
        /\ pc' \in [Threads -> Labels] /\ in_handler' \in BOOLEAN
    BY <1>x DEF TypeOK, Queues, Labels
  <2> QED
    BY <2>2, <2>3, TypeKept
<1>2. IoPlaces' /\ WorkPlaces' /\ AccPlaces'
  BY <1>e, <1>f DEF IoPlaces, WorkPlaces, AccPlaces
<1>3. WritesTrue' /\ HandlersTrue' /\ HandlesTrue' /\ OutBounded'
  BY <1>k, WritesKept, HandlersKept, HandlesKept, OutKept
<1>4. ReadsTrue'
  BY <1>breads, Terms, Bits, SMTT(30) DEF ReadsTrue
<1>5. OneReader'
  BY <1>breads, Terms, Bits, SMTT(30) DEF OneReader
<1>6. OutFits' /\ PendingShort' /\ LifeInOrder'
  BY <1>e, <1>f DEF OutFits, PendingShort, LifeInOrder
<1>7. DoneFits'
  BY <1>f DEF DoneFits
<1>8. WriteComing'
  BY <1>e, <1>f DEF WriteComing, PendingShort, OnIo
<1>9. ClosingKnown'
  BY <1>e, <1>f DEF ClosingKnown, LifeInOrder, InTask, Runs, OnIo
<1>10. WillClose'
  BY <1>e, <1>f DEF WillClose, ClosesOn, Left, OnIo
<1> QED
  BY <1>1, <1>2, <1>3, <1>4, <1>5, <1>6, <1>7, <1>8, <1>9, <1>10

(* or fails at once on a socket that is closed.                            *)
LEMMA ReadStartClosedKeeps ==
    ASSUME ~Shared, IInv, NEW th \in Threads,
           ReadStart(th),
           net.sock = "closed"
    PROVE  IInv'
<1> USE ServerThreads DEF IInv
<1>a. AfterRead(th) = IF th = "io" THEN "postRead" ELSE IF th = "work" THEN "clear1" ELSE "idle"
  BY DEF AfterRead, Runs, IoPlaces, WorkPlaces, ReadStart
<1>e. pc[th] = "readStart"
  BY <1>a DEF ReadStart, StartRead, Go
<1>x. /\ pc' = [pc EXCEPT ![th] = IF th = "io"
                                  THEN "postRead" ELSE IF th = "work" THEN "clear1" ELSE "idle"]
      /\ queue' = Post(queue, "io", Task("read_error", 0))
      /\ UNCHANGED <<s, net, env, life, in_handler>>
  BY <1>a DEF ReadStart, StartRead, Go
<1>q. /\ queue' \in Queues /\ queue'["io"] = Append(queue["io"], Task("read_error", 0))
      /\ queue["io"] # <<>> => queue'["io"] # <<>> /\ Head(queue'["io"]) = Head(queue["io"])
      /\ queue'["work"] = queue["work"]
  BY <1>x, IoPosts DEF Ops
<1>n. /\ OnIo("read_error")' = OnIo("read_error") + 1
      /\ UNCHANGED <<OnIo("read_ok"), OnIo("read_end"), OnIo("write_ok"), OnIo("write_end"),
                     OnIo("write_error"), OnIo("write"), OnIo("close"), OnWork("fire_read"),
                     OnWork("append")>>
  BY <1>x, IoPosts DEF Ops
<1>f. /\ s' = s
      /\ pc'["io"] = IF th = "io" THEN "postRead" ELSE pc["io"]
      /\ pc'["work"] = IF th = "work" THEN "clear1" ELSE pc["work"]
      /\ pc'["acc"] = IF th = "acc" THEN "idle" ELSE pc["acc"]
      /\ net' = net /\ env' = env /\ life' = life /\ in_handler' = in_handler
  BY <1>x DEF TypeOK
<1>k. UNCHANGED <<writeTerms, handlerTerms, handleTerms, outTerms>>
  BY <1>e, <1>f, <1>q, <1>n
  DEF writeTerms, handlerTerms, handleTerms, outTerms, WriteFlag, WriteNext, WritesOut, WroteOk,
      WroteEnded, InTask, Runs, Handlers, HandlerOut, Returned, Handles, HandlerPast, WriteHeld,
      Taken, CloseFlag, Buffered, Appends, Written, IoPlaces
<1>breads. /\ Starting' = Starting - 1 /\ Reading' = Reading - 1
      /\ UNCHANGED <<ReadFlag, ReadsOut, Taken("read_ok"), Taken("read_end"), ReadPassed, Armed>>
  BY <1>e, <1>f, <1>q, AppendProperties, HeadTailProperties
  DEF ReadFlag, Starting, Reading, Starts, Reads, ReadsOut, Taken, InTask, Runs, ReadPassed,
      HandlesRead, Armed, Resuming, If, IoPlaces
<1>1. TypeOK'
  <2>1. /\ s' \in Members /\ net' \in Sockets /\ env' \in Outside /\ life' \in Lives
        /\ pc' \in [Threads -> Labels] /\ in_handler' \in BOOLEAN
    BY <1>x DEF TypeOK, Labels
  <2> QED
    BY <1>q, <2>1, TypeKept
<1>2. IoPlaces' /\ WorkPlaces' /\ AccPlaces'
  BY <1>e, <1>f, <1>q DEF IoPlaces, WorkPlaces, AccPlaces
<1>3. WritesTrue' /\ HandlersTrue' /\ HandlesTrue' /\ OutBounded'
  BY <1>k, WritesKept, HandlersKept, HandlesKept, OutKept
<1>4. ReadsTrue'
  BY <1>n, <1>breads, Terms, Bits, SMTT(30) DEF ReadsTrue
<1>5. OneReader'
  BY <1>n, <1>breads, Terms, Bits, SMTT(30) DEF OneReader
<1>6. OutFits' /\ PendingShort' /\ LifeInOrder'
  BY <1>e, <1>f DEF OutFits, PendingShort, LifeInOrder
<1>7. DoneFits'
  <2>1. queue["io"] \in Seq(Tasks)
    BY DEF TypeOK
  <2>2. /\ Task("read_error", 0) \in Tasks /\ Task("read_error", 0).op = "read_error"
        /\ Task("read_error", 0).n = 0
    BY DEF Task, Tasks, Ops
  <2> QED
    BY <1>f, <1>q, <2>1, <2>2, DonePosted
<1>8. WriteComing'
  BY <1>e, <1>f, <1>n DEF WriteComing, PendingShort
<1>9. ClosingKnown'
  BY <1>f, <1>n DEF ClosingKnown, LifeInOrder
<1>10. WillClose'
  BY <1>e, <1>f, <1>n DEF WillClose, ClosesOn, Left
<1> QED
  BY <1>1, <1>2, <1>3, <1>4, <1>5, <1>6, <1>7, <1>8, <1>9, <1>10

(* write() sets writing_, on the one thread that ever does.                *)
LEMMA WriteSetKeeps ==
    ASSUME ~Shared, IInv, WriteSet
    PROVE  IInv'
<1> USE ServerThreads DEF IInv
<1>e. /\ pc["io"] = "writeSet" /\ queue["io"] # <<>>
      /\ Head(queue["io"]).op \in {"write", "write_ok"} /\ s.writing = FALSE
  BY DEF WriteSet, IoPlaces, TypeOK, Members
<1>x. /\ pc' = [pc EXCEPT !["io"] = "writeStart"] /\ s' = [s EXCEPT !.writing = TRUE]
      /\ queue' = queue /\ UNCHANGED <<net, env, life, in_handler>>
  BY DEF WriteSet, Goto, Go
<1>f. /\ s'.reading = s.reading /\ s'.writing = TRUE /\ s'.close_flag = s.close_flag
      /\ s'.work_read_count = s.work_read_count /\ s'.handle_count = s.handle_count
      /\ s'.pending = s.pending /\ s'.wbuf = s.wbuf /\ s'.high_water = s.high_water
      /\ pc'["io"] = "writeStart" /\ pc'["work"] = pc["work"] /\ pc'["acc"] = pc["acc"]
      /\ net' = net /\ env' = env /\ life' = life /\ in_handler' = in_handler /\ queue' = queue
  BY <1>x DEF TypeOK, Members
<1>k. UNCHANGED <<readTerms, handlerTerms, handleTerms, outTerms>>
  BY <1>e, <1>f
  DEF readTerms, handlerTerms, handleTerms, outTerms, ReadFlag, Starting, Reading, Starts, Reads,
      ReadsOut, Taken, InTask, Runs, ReadPassed, HandlesRead, Armed, Resuming, Handlers,
      HandlerOut, Returned, Handles, HandlerPast, WriteHeld, CloseFlag, Buffered, Appends,
      Written, OnIo, OnWork
<1>bwrites. /\ WriteNext = 0 /\ WriteNext' = 1 /\ WriteFlag = 0 /\ WriteFlag' = 1
      /\ UNCHANGED <<WritesOut, WroteOk, WroteEnded, OnIo("write_ok"), OnIo("write_end"),
                     OnIo("write_error")>>
  BY <1>e, <1>f DEF WriteFlag, WriteNext, WritesOut, WroteOk, WroteEnded, InTask, Runs, If, OnIo
<1>1. TypeOK'
  <2>1. s' \in Members
    BY <1>x, Zenon DEF TypeOK, Members
  <2>2. /\ net' \in Sockets /\ env' \in Outside /\ life' \in Lives /\ queue' \in Queues
        /\ pc' \in [Threads -> Labels] /\ in_handler' \in BOOLEAN
    BY <1>x DEF TypeOK, Queues, Labels
  <2> QED
    BY <2>1, <2>2, TypeKept
<1>2. IoPlaces' /\ WorkPlaces' /\ AccPlaces'
  BY <1>e, <1>f DEF IoPlaces, WorkPlaces, AccPlaces
<1>3. ReadsTrue' /\ OneReader' /\ HandlersTrue' /\ HandlesTrue' /\ OutBounded'
  BY <1>k, ReadsKept, HandlersKept, HandlesKept, OutKept
<1>4. WritesTrue'
  BY <1>bwrites, Terms, Bits, SMTT(30) DEF WritesTrue
<1>5. OutFits' /\ PendingShort' /\ LifeInOrder'
  BY <1>e, <1>f DEF OutFits, PendingShort, LifeInOrder
<1>6. DoneFits'
  BY <1>e, <1>f DEF DoneFits
<1>7. WriteComing'
  BY <1>f DEF WriteComing
<1>8. ClosingKnown'
  BY <1>e, <1>f DEF ClosingKnown, InTask, Runs, OnIo
<1>9. WillClose'
  BY <1>f DEF WillClose, ClosesOn
<1> QED
  BY <1>1, <1>2, <1>3, <1>4, <1>5, <1>6, <1>7, <1>8, <1>9

(* A write is started,                                                     *)
LEMMA WriteStartOpenKeeps ==
    ASSUME ~Shared, IInv, WriteStart,
           net.sock # "closed"
    PROVE  IInv'
<1> USE ServerThreads DEF IInv
<1>e. /\ queue["io"] # <<>> /\ pc["io"] = "writeStart"
      /\ Head(queue["io"]).op \in {"write", "write_ok"}
  BY DEF WriteStart, IoPlaces
<1>w. s.writing
  <2>1. WriteNext = 1 /\ WroteOk <= OnIo("write_ok") /\ WroteEnded <= OnIo("write_end")
    BY <1>e, BitsBelow DEF WriteNext, If
  <2>2. WriteFlag = 1
    BY <2>1, Terms, Bits, SMTT(30) DEF WritesTrue
  <2> QED
    BY <2>2 DEF WriteFlag, If
<1>x. /\ s' = [s EXCEPT !.handle_count = s.handle_count + 1]
      /\ pc' = [pc EXCEPT !["io"] = "idle"] /\ queue' = Pop(queue, "io")
      /\ net' = [net EXCEPT !.writes = Append(net.writes, s.wbuf)]
      /\ UNCHANGED <<env, life, in_handler>>
  BY DEF WriteStart, WriteCounted, StartWrite, Go
<1>o. /\ WroteOk = IF Head(queue["io"]).op = "write_ok" THEN 1 ELSE 0
      /\ WroteEnded = IF Head(queue["io"]).op = "write_end" THEN 1 ELSE 0
  BY <1>e DEF WroteOk, WroteEnded, Taken, InTask, Runs, If
<1>q. queue' \in Queues /\ queue'["io"] = Tail(queue["io"]) /\ queue'["work"] = queue["work"]
  BY <1>e, <1>x, IoPops DEF Ops
<1>n. /\ OnIo("write_ok")' = OnIo("write_ok") - WroteOk
      /\ OnIo("write")' = IF Head(queue["io"]).op = "write"
                          THEN OnIo("write") - 1 ELSE OnIo("write")
      /\ UNCHANGED <<OnIo("read_ok"), OnIo("read_end"), OnIo("read_error"), OnIo("write_end"),
                     OnIo("write_error"), OnIo("close"), OnWork("fire_read"), OnWork("append")>>
  <2>1. /\ OnIo("write_ok")' = IF Head(queue["io"]).op = "write_ok"
                               THEN OnIo("write_ok") - 1 ELSE OnIo("write_ok")
        /\ OnIo("write")' = IF Head(queue["io"]).op = "write"
                            THEN OnIo("write") - 1 ELSE OnIo("write")
        /\ UNCHANGED <<OnIo("read_ok"), OnIo("read_end"), OnIo("read_error"), OnIo("write_end"),
                       OnIo("write_error"), OnIo("close"), OnWork("fire_read"), OnWork("append")>>
    BY <1>e, <1>x, IoPops DEF Ops
  <2> QED
    BY <1>o, <2>1, Terms
<1>f. /\ s'.reading = s.reading /\ s'.writing = s.writing /\ s'.close_flag = s.close_flag
      /\ s'.work_read_count = s.work_read_count /\ s'.handle_count = s.handle_count + 1
      /\ s'.pending = s.pending /\ s'.wbuf = s.wbuf /\ s'.high_water = s.high_water
      /\ pc'["io"] = "idle" /\ pc'["work"] = pc["work"] /\ pc'["acc"] = pc["acc"]
      /\ net'.sock = net.sock /\ net'.reads = net.reads
      /\ net'.writes = Append(net.writes, s.wbuf) /\ env' = env /\ life' = life
      /\ in_handler' = in_handler
  BY <1>x DEF TypeOK, Members, Sockets
<1>v1. s.handle_count + 1 \in Nat
  BY Fields
<1>k. UNCHANGED <<handlerTerms, outTerms>>
  BY <1>f, <1>q, <1>n
  DEF handlerTerms, outTerms, Handlers, HandlerOut, Returned, Runs, Buffered, Appends, Written,
      InTask
<1>breads. /\ Taken("read_ok") = 0 /\ Taken("read_ok")' = 0 /\ Taken("read_end") = 0
      /\ Taken("read_end")' = 0 /\ ReadPassed = 0 /\ ReadPassed' = 0
      /\ UNCHANGED <<ReadFlag, Starting, Reading, ReadsOut, Armed>>
  BY <1>e, <1>f
  DEF ReadFlag, Starting, Reading, Starts, Reads, ReadsOut, Taken, InTask, Runs, ReadPassed,
      HandlesRead, Armed, Resuming, If
<1>bwrites. /\ WriteNext = 1 /\ WriteNext' = 0 /\ WriteFlag' = WriteFlag
      /\ WritesOut' = WritesOut + 1 /\ WroteOk' = 0
      /\ WroteEnded = 0 /\ WroteEnded' = 0
  BY <1>e, <1>f DEF WriteFlag, WriteNext, WritesOut, WroteOk, WroteEnded, InTask, Runs, If
<1>bhandles. /\ Handles' = Handles + 1 /\ WriteHeld = 0 /\ WriteHeld' = 1 /\ Taken("read_ok") = 0
      /\ Taken("read_ok")' = 0 /\ UNCHANGED <<HandlerPast, CloseFlag>>
  BY <1>e, <1>w, <1>f, <1>q
  DEF Handles, HandlerPast, Returned, WriteHeld, Taken, InTask, CloseFlag, Runs, If
<1>1. TypeOK'
  <2>1. s' \in Members
    BY <1>x, <1>v1, Zenon DEF TypeOK, Members
  <2>2. Append(net.writes, s.wbuf) \in Seq(Nat)
    BY Fields
  <2>3. net' \in Sockets
    BY <1>x, <2>2, Zenon DEF TypeOK, Sockets
  <2>4. /\ env' \in Outside /\ life' \in Lives /\ pc' \in [Threads -> Labels]
        /\ in_handler' \in BOOLEAN
    BY <1>x DEF TypeOK, Labels
  <2> QED
    BY <2>1, <2>3, <1>q, <2>4, TypeKept
<1>2. IoPlaces' /\ WorkPlaces' /\ AccPlaces'
  BY <1>f, <1>q DEF IoPlaces, WorkPlaces, AccPlaces
<1>3. HandlersTrue' /\ OutBounded'
  BY <1>k, HandlersKept, OutKept
<1>4. ReadsTrue'
  BY <1>n, <1>breads, Terms, Bits, SMTT(30) DEF ReadsTrue
<1>5. OneReader'
  BY <1>n, <1>breads, Terms, Bits, SMTT(30) DEF OneReader
<1>6. WritesTrue'
  BY <1>n, <1>bwrites, Terms, Bits, SMTT(30) DEF WritesTrue
<1>7. HandlesTrue'
  BY <1>n, <1>bhandles, Terms, Bits, SMTT(30) DEF HandlesTrue, ClosingKnown, CloseFlag, If
<1>8. OutFits' /\ PendingShort' /\ LifeInOrder'
  BY <1>f, Fields DEF OutFits, PendingShort, LifeInOrder, AccPlaces, ClosingKnown
<1>9. DoneFits'
  <2>1. queue["io"] \in Seq(Tasks)
    BY DEF TypeOK
  <2> QED
    BY <1>e, <1>f, <1>q, <2>1, DonePopped
<1>10. WriteComing'
  BY <1>f, <1>w, <1>n DEF WriteComing, PendingShort
<1>11. ClosingKnown'
  BY <1>f, <1>n DEF ClosingKnown, LifeInOrder, InTask
<1>12. WillClose'
  BY <1>f, <1>w, <1>n DEF WillClose, ClosesOn, Left
<1> QED
  BY <1>1, <1>2, <1>3, <1>4, <1>5, <1>6, <1>7, <1>8, <1>9, <1>10, <1>11, <1>12

(* or fails at once on a socket that is closed.                            *)
LEMMA WriteStartClosedKeeps ==
    ASSUME ~Shared, IInv, WriteStart,
           net.sock = "closed"
    PROVE  IInv'
<1> USE ServerThreads DEF IInv
<1>e. /\ queue["io"] # <<>> /\ pc["io"] = "writeStart"
      /\ Head(queue["io"]).op \in {"write", "write_ok"}
  BY DEF WriteStart, IoPlaces
<1>w. s.writing
  <2>1. WriteNext = 1 /\ WroteOk <= OnIo("write_ok") /\ WroteEnded <= OnIo("write_end")
    BY <1>e, BitsBelow DEF WriteNext, If
  <2>2. WriteFlag = 1
    BY <2>1, Terms, Bits, SMTT(30) DEF WritesTrue
  <2> QED
    BY <2>2 DEF WriteFlag, If
<1>x. /\ s' = [s EXCEPT !.handle_count = s.handle_count + 1]
      /\ pc' = [pc EXCEPT !["io"] = "idle"]
      /\ queue' = Post(Pop(queue, "io"), "io", Task("write_error", 0))
      /\ UNCHANGED <<net, env, life, in_handler>>
  BY DEF WriteStart, WriteCounted, StartWrite, Go
<1>o. /\ WroteOk = IF Head(queue["io"]).op = "write_ok" THEN 1 ELSE 0
      /\ WroteEnded = IF Head(queue["io"]).op = "write_end" THEN 1 ELSE 0
  BY <1>e DEF WroteOk, WroteEnded, Taken, InTask, Runs, If
<1>q. /\ queue' \in Queues /\ queue'["io"] = Append(Tail(queue["io"]), Task("write_error", 0))
      /\ queue'["work"] = queue["work"]
  BY <1>e, <1>x, IoPopsPosts DEF Ops
<1>n. /\ OnIo("write_ok")' = OnIo("write_ok") - WroteOk
      /\ OnIo("write_error")' = OnIo("write_error") + 1
      /\ OnIo("write")' = IF Head(queue["io"]).op = "write"
                          THEN OnIo("write") - 1 ELSE OnIo("write")
      /\ UNCHANGED <<OnIo("read_ok"), OnIo("read_end"), OnIo("read_error"), OnIo("write_end"),
                     OnIo("close"), OnWork("fire_read"), OnWork("append")>>
  <2>1. /\ OnIo("write_ok")' = IF Head(queue["io"]).op = "write_ok"
                               THEN OnIo("write_ok") - 1 ELSE OnIo("write_ok")
        /\ OnIo("write_error")' = OnIo("write_error") + 1
        /\ OnIo("write")' = IF Head(queue["io"]).op = "write"
                            THEN OnIo("write") - 1 ELSE OnIo("write")
        /\ UNCHANGED <<OnIo("read_ok"), OnIo("read_end"), OnIo("read_error"), OnIo("write_end"),
                       OnIo("close"), OnWork("fire_read"), OnWork("append")>>
    BY <1>e, <1>x, IoPopsPosts DEF Ops
  <2> QED
    BY <1>o, <2>1, Terms
<1>f. /\ s'.reading = s.reading /\ s'.writing = s.writing /\ s'.close_flag = s.close_flag
      /\ s'.work_read_count = s.work_read_count /\ s'.handle_count = s.handle_count + 1
      /\ s'.pending = s.pending /\ s'.wbuf = s.wbuf /\ s'.high_water = s.high_water
      /\ pc'["io"] = "idle" /\ pc'["work"] = pc["work"] /\ pc'["acc"] = pc["acc"] /\ net' = net
      /\ env' = env /\ life' = life /\ in_handler' = in_handler
  BY <1>x DEF TypeOK, Members
<1>v1. s.handle_count + 1 \in Nat
  BY Fields
<1>k. UNCHANGED <<handlerTerms, outTerms>>
  BY <1>f, <1>q, <1>n
  DEF handlerTerms, outTerms, Handlers, HandlerOut, Returned, Runs, Buffered, Appends, Written,
      InTask
<1>breads. /\ Taken("read_ok") = 0 /\ Taken("read_ok")' = 0 /\ Taken("read_end") = 0
      /\ Taken("read_end")' = 0 /\ ReadPassed = 0 /\ ReadPassed' = 0
      /\ UNCHANGED <<ReadFlag, Starting, Reading, ReadsOut, Armed>>
  BY <1>e, <1>f
  DEF ReadFlag, Starting, Reading, Starts, Reads, ReadsOut, Taken, InTask, Runs, ReadPassed,
      HandlesRead, Armed, Resuming, If
<1>bwrites. /\ WriteNext = 1 /\ WriteNext' = 0 /\ WriteFlag' = WriteFlag
            /\ WroteOk' = 0 /\ WroteEnded = 0 /\ WroteEnded' = 0
      /\ UNCHANGED WritesOut
  BY <1>e, <1>f DEF WriteFlag, WriteNext, WritesOut, WroteOk, WroteEnded, InTask, Runs, If
<1>bhandles. /\ Handles' = Handles + 1 /\ WriteHeld = 0 /\ WriteHeld' = 1 /\ Taken("read_ok") = 0
      /\ Taken("read_ok")' = 0 /\ UNCHANGED <<HandlerPast, CloseFlag>>
  BY <1>e, <1>w, <1>f, <1>q, AppendProperties, HeadTailProperties
  DEF Handles, HandlerPast, Returned, WriteHeld, Taken, InTask, CloseFlag, Runs, If
<1>1. TypeOK'
  <2>1. s' \in Members
    BY <1>x, <1>v1, Zenon DEF TypeOK, Members
  <2>2. /\ net' \in Sockets /\ env' \in Outside /\ life' \in Lives
        /\ pc' \in [Threads -> Labels] /\ in_handler' \in BOOLEAN
    BY <1>x DEF TypeOK, Labels
  <2> QED
    BY <2>1, <1>q, <2>2, TypeKept
<1>2. IoPlaces' /\ WorkPlaces' /\ AccPlaces'
  BY <1>f, <1>q DEF IoPlaces, WorkPlaces, AccPlaces
<1>3. HandlersTrue' /\ OutBounded'
  BY <1>k, HandlersKept, OutKept
<1>4. ReadsTrue'
  BY <1>n, <1>breads, Terms, Bits, SMTT(30) DEF ReadsTrue
<1>5. OneReader'
  BY <1>n, <1>breads, Terms, Bits, SMTT(30) DEF OneReader
<1>6. WritesTrue'
  BY <1>n, <1>bwrites, Terms, Bits, SMTT(30) DEF WritesTrue
<1>7. HandlesTrue'
  BY <1>n, <1>bhandles, Terms, Bits, SMTT(30) DEF HandlesTrue, ClosingKnown, CloseFlag, If
<1>8. OutFits' /\ PendingShort' /\ LifeInOrder'
  BY <1>e, <1>f DEF OutFits, PendingShort, LifeInOrder
<1>9. DoneFits'
  <2>1. queue["io"] \in Seq(Tasks)
    BY DEF TypeOK
  <2>2. /\ Task("write_error", 0) \in Tasks /\ Task("write_error", 0).op = "write_error"
        /\ Task("write_error", 0).n = 0
    BY DEF Task, Tasks, Ops
  <2> QED
    BY <1>e, <1>f, <1>q, <2>1, <2>2, DonePoppedPosted
<1>10. WriteComing'
  BY <1>f, <1>w, <1>n DEF WriteComing, PendingShort
<1>11. ClosingKnown'
  BY <1>f, <1>n DEF ClosingKnown, LifeInOrder
<1>12. WillClose'
  BY <1>f, <1>w, <1>n DEF WillClose, ClosesOn, Left
<1> QED
  BY <1>1, <1>2, <1>3, <1>4, <1>5, <1>6, <1>7, <1>8, <1>9, <1>10, <1>11, <1>12

(* handle_write gives back the handle of the write.                        *)
LEMMA HandleWriteKeeps ==
    ASSUME ~Shared, IInv, HandleWrite
    PROVE  IInv'
<1> USE ServerThreads DEF IInv
<1>e. /\ queue["io"] # <<>> /\ pc["io"] = "idle"
      /\ Head(queue["io"]).op \in {"write_ok", "write_end"}
  BY DEF HandleWrite, Begins, Runs, Goto, Go
<1>x. /\ s' = [s EXCEPT !.handle_count = s.handle_count - 1]
      /\ pc' = [pc EXCEPT !["io"] = IF Head(queue["io"]).op = "write_ok"
                                    THEN "wrote" ELSE "wroteEnd"]
      /\ queue' = queue /\ UNCHANGED <<net, env, life, in_handler>>
  BY DEF HandleWrite, Begins, Runs, Goto, Go
<1>p. OnIo("write_ok") + OnIo("write_end") > 0
  BY <1>e, Heads, Terms
<1>f. /\ s'.reading = s.reading /\ s'.writing = s.writing /\ s'.close_flag = s.close_flag
      /\ s'.work_read_count = s.work_read_count /\ s'.handle_count = s.handle_count - 1
      /\ s'.pending = s.pending /\ s'.wbuf = s.wbuf /\ s'.high_water = s.high_water
      /\ pc'["io"] = IF Head(queue["io"]).op = "write_ok" THEN "wrote" ELSE "wroteEnd"
      /\ pc'["work"] = pc["work"] /\ pc'["acc"] = pc["acc"] /\ net' = net /\ env' = env
      /\ life' = life /\ in_handler' = in_handler /\ queue' = queue
  BY <1>x DEF TypeOK, Members
<1>r0. s.writing
  <2>1. WroteOk = 0 /\ WroteEnded = 0
    BY <1>e DEF WroteOk, WroteEnded, InTask, If
  <2>2. WriteFlag = 1
    BY <1>p, <2>1, Terms, Bits, SMTT(30) DEF WritesTrue
  <2> QED
    BY <2>2 DEF WriteFlag, If
<1>r1. WriteHeld = 1
  BY <1>e, <1>r0 DEF WriteHeld, If
<1>r2. s.handle_count - 1 \in Nat
  <2>1. Handles >= 1
    BY <1>p, <1>r0, <1>r1, Terms, Bits, PastBelow, SMTT(30) DEF HandlesTrue
  <2> QED
    BY <2>1, Terms DEF Handles
<1>k. UNCHANGED <<handlerTerms, outTerms>>
  BY <1>f, <1>r0, <1>r1, <1>r2
  DEF handlerTerms, outTerms, Handlers, HandlerOut, Returned, Runs, Buffered, Appends, Written,
      InTask, OnWork
<1>breads. /\ Taken("read_ok") = 0 /\ Taken("read_ok")' = 0 /\ Taken("read_end") = 0
      /\ Taken("read_end")' = 0 /\ ReadPassed = 0 /\ ReadPassed' = 0
      /\ UNCHANGED <<ReadFlag, Starting, Reading, ReadsOut, OnIo("read_ok"), OnIo("read_end"),
                     OnIo("read_error"), Armed>>
  BY <1>e, <1>f, <1>r0, <1>r1, <1>r2
  DEF ReadFlag, Starting, Reading, Starts, Reads, ReadsOut, Taken, InTask, Runs, ReadPassed,
      HandlesRead, Armed, Resuming, If, OnIo
<1>bwrites. /\ WroteOk = 0 /\ WroteOk' = 0 /\ WroteEnded = 0 /\ WroteEnded' = 0
      /\ UNCHANGED <<WriteFlag, WriteNext, WritesOut, OnIo("write_ok"), OnIo("write_end"),
                     OnIo("write_error")>>
  BY <1>e, <1>f, <1>r0, <1>r1, <1>r2
  DEF WriteFlag, WriteNext, WritesOut, WroteOk, WroteEnded, InTask, Runs, If, OnIo
<1>bhandles. /\ Handles' = Handles - 1 /\ WriteHeld = 1 /\ WriteHeld' = 0 /\ Taken("read_ok") = 0
      /\ Taken("read_ok")' = 0 /\ UNCHANGED <<OnWork("fire_read"), HandlerPast, CloseFlag>>
  BY <1>e, <1>f, <1>r0, <1>r1, <1>r2
  DEF Handles, HandlerPast, Returned, WriteHeld, Taken, InTask, CloseFlag, Runs, If, OnWork
<1>1. TypeOK'
  <2>1. s' \in Members
    BY <1>x, <1>r0, <1>r1, <1>r2, Zenon DEF TypeOK, Members
  <2>2. /\ net' \in Sockets /\ env' \in Outside /\ life' \in Lives /\ queue' \in Queues
        /\ pc' \in [Threads -> Labels] /\ in_handler' \in BOOLEAN
    BY <1>x DEF TypeOK, Queues, Labels
  <2> QED
    BY <2>1, <2>2, TypeKept
<1>2. IoPlaces' /\ WorkPlaces' /\ AccPlaces'
  BY <1>e, <1>f, <1>r0, <1>r1, <1>r2 DEF IoPlaces, WorkPlaces, AccPlaces
<1>3. HandlersTrue' /\ OutBounded'
  BY <1>k, HandlersKept, OutKept
<1>4. ReadsTrue'
  BY <1>p, <1>breads, Terms, Bits, SMTT(30) DEF ReadsTrue
<1>5. OneReader'
  BY <1>p, <1>breads, Terms, Bits, SMTT(30) DEF OneReader
<1>6. WritesTrue'
  BY <1>p, <1>bwrites, Terms, Bits, SMTT(30) DEF WritesTrue
<1>7. HandlesTrue'
  BY <1>p, <1>bhandles, Terms, Bits, SMTT(30) DEF HandlesTrue, ClosingKnown, CloseFlag, If
<1>8. OutFits' /\ PendingShort' /\ LifeInOrder'
  BY <1>e, <1>f, <1>r0, <1>r1, <1>r2 DEF OutFits, PendingShort, LifeInOrder
<1>9. DoneFits'
  BY <1>e, <1>f DEF DoneFits
<1>10. WriteComing'
  BY <1>f, <1>r0, <1>r1, <1>r2 DEF WriteComing, PendingShort
<1>11. ClosingKnown'
  BY <1>e, <1>f, <1>r0, <1>r1, <1>r2 DEF ClosingKnown, LifeInOrder, InTask, Runs, OnIo
<1>12. WillClose'
  BY <1>f, <1>r0, <1>r1, <1>r2 DEF WillClose, ClosesOn, Left
<1> QED
  BY <1>1, <1>2, <1>3, <1>4, <1>5, <1>6, <1>7, <1>8, <1>9, <1>10, <1>11, <1>12

(* handle_write: writing_ and the length of what was written are given     *)
(* back.                                                                   *)
LEMMA WroteKeeps ==
    ASSUME ~Shared, IInv, Wrote
    PROVE  IInv'
<1> USE ServerThreads DEF IInv
<1>e. pc["io"] = "wrote" /\ queue["io"] # <<>> /\ Head(queue["io"]).op = "write_ok"
  BY DEF Wrote, StillPending, Length, Goto, Go, IoPlaces
<1>x. /\ pc' = [pc EXCEPT !["io"] = "pendingTest"]
      /\ s' = [s EXCEPT !.writing = FALSE, !.wbuf = s.wbuf - Head(queue["io"]).n,
                        !.pending = (s.pending - Head(queue["io"]).n) % SizeMod]
      /\ queue' = queue /\ UNCHANGED <<net, env, life, in_handler>>
  BY DEF Wrote, StillPending, Length, Goto, Go
<1>p. OnIo("write_ok") > 0
  BY <1>e, Heads
<1>f. /\ s'.reading = s.reading /\ s'.writing = FALSE /\ s'.close_flag = s.close_flag
      /\ s'.work_read_count = s.work_read_count /\ s'.handle_count = s.handle_count
      /\ s'.pending = (s.pending - Head(queue["io"]).n) % SizeMod
      /\ s'.wbuf = s.wbuf - Head(queue["io"]).n /\ s'.high_water = s.high_water
      /\ pc'["io"] = "pendingTest" /\ pc'["work"] = pc["work"] /\ pc'["acc"] = pc["acc"]
      /\ net' = net /\ env' = env /\ life' = life /\ in_handler' = in_handler /\ queue' = queue
  BY <1>x DEF TypeOK, Members
<1>r1. queue["io"] \in Seq(Tasks)
  BY DEF TypeOK
<1>r2. OnIo("write_ok") = 1 /\ WritesOut = 0
  <2>1. WroteOk = 0 /\ WroteEnded = 0
    BY <1>e DEF WroteOk, WroteEnded, InTask, Runs, If
  <2> QED
    BY <1>p, <2>1, Terms, Bits, SMTT(30) DEF WritesTrue
<1>r3. Head(queue["io"]).n <= s.wbuf /\ Head(queue["io"]).n \in Nat
  <2>1. Head(queue["io"]) = queue["io"][1] /\ 1 \in 1..Len(queue["io"])
    BY <1>e, <1>r1
  <2> QED
    BY <1>e, <2>1, HeadsTyped DEF DoneFits
<1>v2. s.wbuf - Head(queue["io"]).n \in Nat
  BY <1>r3, Fields
<1>v3. (s.pending - Head(queue["io"]).n) % SizeMod \in 0..SizeMod - 1
  <2>1. s.pending - Head(queue["io"]).n \in Int
    BY <1>r3, Fields, SessionAssumption
  <2> QED
    BY <2>1, SizeWraps
<1>k. UNCHANGED <<readTerms, handlerTerms>>
  BY <1>e, <1>f, <1>r1, <1>r2, <1>r3
  DEF readTerms, handlerTerms, ReadFlag, Starting, Reading, Starts, Reads, ReadsOut, Taken, InTask,
      Runs, ReadPassed, HandlesRead, Armed, Resuming, Handlers, HandlerOut, Returned, OnIo, OnWork
<1>bwrites. /\ WriteNext = 0 /\ WriteNext' = 0 /\ WriteFlag' = 0
            /\ WroteOk = 0 /\ WroteOk' = 1 /\ WroteEnded = 0 /\ WroteEnded' = 0
      /\ UNCHANGED <<WritesOut, OnIo("write_ok"), OnIo("write_end"), OnIo("write_error")>>
  BY <1>e, <1>f, <1>r1, <1>r2, <1>r3
  DEF WriteFlag, WriteNext, WritesOut, WroteOk, WroteEnded, InTask, Runs, If, OnIo
<1>bhandles. /\ WriteHeld = 0 /\ WriteHeld' = 0
      /\ UNCHANGED <<Handles, OnWork("fire_read"), HandlerPast, Taken("read_ok"), CloseFlag>>
  BY <1>e, <1>f, <1>r1, <1>r2, <1>r3
  DEF Handles, HandlerPast, Returned, WriteHeld, Taken, InTask, CloseFlag, Runs, If, OnWork
<1>bout. /\ Buffered' = Buffered - Head(queue["io"]).n
      /\ UNCHANGED <<OnWork("append"), Appends, Written>>
  BY <1>f, <1>r1, <1>r2, <1>r3 DEF Buffered, Appends, Written, InTask, Runs, OnWork
<1>1. TypeOK'
  <2>1. s' \in Members
    BY <1>x, <1>v2, <1>v3, <1>r1, <1>r2, <1>r3, Zenon DEF TypeOK, Members
  <2>2. /\ net' \in Sockets /\ env' \in Outside /\ life' \in Lives /\ queue' \in Queues
        /\ pc' \in [Threads -> Labels] /\ in_handler' \in BOOLEAN
    BY <1>x DEF TypeOK, Queues, Labels
  <2> QED
    BY <2>1, <2>2, TypeKept
<1>2. IoPlaces' /\ WorkPlaces' /\ AccPlaces'
  BY <1>e, <1>f, <1>r1, <1>r2, <1>r3 DEF IoPlaces, WorkPlaces, AccPlaces
<1>3. ReadsTrue' /\ OneReader' /\ HandlersTrue'
  BY <1>k, ReadsKept, HandlersKept
<1>4. WritesTrue'
  BY <1>p, <1>bwrites, Terms, Bits, SMTT(30) DEF WritesTrue
<1>5. HandlesTrue'
  BY <1>p, <1>bhandles, Terms, Bits, SMTT(30) DEF HandlesTrue, ClosingKnown, CloseFlag, If
<1>6. OutBounded'
  <2>1. Head(queue["io"]).n >= 0 /\ Buffered' <= Buffered /\ Buffered' \in Nat
    BY <1>r3, <1>f, Fields DEF Buffered
  <2> QED
    BY <1>bout, <2>1, Terms, Bits, SMTT(30) DEF OutBounded
<1>7. LifeInOrder'
  BY <1>e, <1>f, <1>r1, <1>r2, <1>r3 DEF LifeInOrder
<1>8. OutFits'
  <2>1. Len(net.writes) = 0 /\ net' = net
    BY <1>x, <1>r2 DEF WritesOut
  <2> QED
    BY <2>1 DEF OutFits
<1>9. PendingShort'
  <2> DEFINE n == Head(queue["io"]).n
  <2>1. n \in Nat /\ n <= s.wbuf /\ s.wbuf < SizeMod /\ s.wbuf \in Nat /\ SizeMod \in Nat
    BY <1>r3, PendingFacts
  <2>2. s'.wbuf = s.wbuf - n /\ s'.pending = (s.pending - n) % SizeMod /\ pc'["work"] = pc["work"]
    BY <1>f
  <2> HIDE DEF n
  <2>3. CASE pc["work"] # "pend"
    <3>1. s.pending - n = s.wbuf - n /\ s.wbuf - n \in 0..SizeMod - 1
      BY <2>1, <2>3, PendingFacts
    <3> QED
      BY <2>2, <2>3, <3>1, SizeWraps DEF PendingShort
  <2>4. CASE pc["work"] = "pend" /\ s.wbuf = 0
    <3>1. n = 0 /\ s.pending - n = SizeMod - 1 /\ SizeMod - 1 \in 0..SizeMod - 1
      BY <2>1, <2>4, PendingFacts
    <3> QED
      BY <2>1, <2>2, <2>4, <3>1, SizeWraps DEF PendingShort
  <2>5. CASE pc["work"] = "pend" /\ s.wbuf # 0 /\ n = s.wbuf
    <3>1. s.pending - n = -1
      BY <2>1, <2>5, PendingFacts
    <3> QED
      BY <2>1, <2>2, <2>5, <3>1, SizeWraps DEF PendingShort
  <2>6. CASE pc["work"] = "pend" /\ s.wbuf # 0 /\ n # s.wbuf
    <3>1. s.pending - n = s.wbuf - n - 1 /\ s.wbuf - n - 1 \in 0..SizeMod - 1
      BY <2>1, <2>6, PendingFacts
    <3>2. s'.pending = s.wbuf - n - 1 /\ s'.wbuf = s.wbuf - n /\ s.wbuf - n # 0
      BY <2>1, <2>2, <2>6, <3>1, SizeWraps
    <3> QED
      BY <2>2, <2>6, <3>2 DEF PendingShort
  <2> QED
    BY <2>3, <2>4, <2>5, <2>6
<1>10. DoneFits'
  BY <1>e, <1>f, <1>r1, <1>r2, OneDone DEF DoneFits
<1>11. WriteComing'
  BY <1>f, <1>r1, <1>r2, <1>r3 DEF WriteComing, PendingShort
<1>12. ClosingKnown'
  BY <1>e, <1>f, <1>r1, <1>r2, <1>r3 DEF ClosingKnown, LifeInOrder, InTask, Runs, OnIo
<1>13. WillClose'
  BY <1>f, <1>r1, <1>r2, <1>r3 DEF WillClose, ClosesOn, Left
<1> QED
  BY <1>1, <1>2, <1>3, <1>4, <1>5, <1>6, <1>7, <1>8, <1>9, <1>10, <1>11, <1>12, <1>13

(* handle_write with an error sets close_flag_.                            *)
LEMMA WroteEndKeeps ==
    ASSUME ~Shared, IInv, WroteEnd
    PROVE  IInv'
<1> USE ServerThreads DEF IInv
<1>e. pc["io"] = "wroteEnd" /\ queue["io"] # <<>> /\ Head(queue["io"]).op = "write_end"
  BY DEF WroteEnd, Goto, Go, IoPlaces
<1>x. /\ pc' = [pc EXCEPT !["io"] = "flagTest"]
      /\ s' = [s EXCEPT !.writing = FALSE, !.close_flag = TRUE] /\ queue' = queue
      /\ UNCHANGED <<net, env, life, in_handler>>
  BY DEF WroteEnd, Goto, Go
<1>p. OnIo("write_end") > 0
  BY <1>e, Heads
<1>f. /\ s'.reading = s.reading /\ s'.writing = FALSE /\ s'.close_flag = TRUE
      /\ s'.work_read_count = s.work_read_count /\ s'.handle_count = s.handle_count
      /\ s'.pending = s.pending /\ s'.wbuf = s.wbuf /\ s'.high_water = s.high_water
      /\ pc'["io"] = "flagTest" /\ pc'["work"] = pc["work"] /\ pc'["acc"] = pc["acc"]
      /\ net' = net /\ env' = env /\ life' = life /\ in_handler' = in_handler /\ queue' = queue
  BY <1>x DEF TypeOK, Members
<1>k. UNCHANGED <<readTerms, handlerTerms, outTerms>>
  BY <1>e, <1>f
  DEF readTerms, handlerTerms, outTerms, ReadFlag, Starting, Reading, Starts, Reads, ReadsOut,
      Taken, InTask, Runs, ReadPassed, HandlesRead, Armed, Resuming, Handlers, HandlerOut, Returned,
      Buffered, Appends, Written, OnIo, OnWork
<1>bwrites. /\ WriteNext = 0 /\ WriteNext' = 0 /\ WriteFlag' = 0
            /\ WroteOk = 0 /\ WroteOk' = 0 /\ WroteEnded = 0 /\ WroteEnded' = 1
      /\ UNCHANGED <<WritesOut, OnIo("write_ok"), OnIo("write_end"), OnIo("write_error")>>
  BY <1>e, <1>f DEF WriteFlag, WriteNext, WritesOut, WroteOk, WroteEnded, InTask, Runs, If, OnIo
<1>bhandles. /\ WriteHeld = 0 /\ WriteHeld' = 0 /\ CloseFlag' = 1
      /\ UNCHANGED <<Handles, OnWork("fire_read"), HandlerPast, Taken("read_ok")>>
  BY <1>e, <1>f
  DEF Handles, HandlerPast, Returned, WriteHeld, Taken, InTask, CloseFlag, Runs, If, OnWork
<1>1. TypeOK'
  <2>1. s' \in Members
    BY <1>x, Zenon DEF TypeOK, Members
  <2>2. /\ net' \in Sockets /\ env' \in Outside /\ life' \in Lives /\ queue' \in Queues
        /\ pc' \in [Threads -> Labels] /\ in_handler' \in BOOLEAN
    BY <1>x DEF TypeOK, Queues, Labels
  <2> QED
    BY <2>1, <2>2, TypeKept
<1>2. IoPlaces' /\ WorkPlaces' /\ AccPlaces'
  BY <1>e, <1>f DEF IoPlaces, WorkPlaces, AccPlaces
<1>3. ReadsTrue' /\ OneReader' /\ HandlersTrue' /\ OutBounded'
  BY <1>k, ReadsKept, HandlersKept, OutKept
<1>4. WritesTrue'
  BY <1>p, <1>bwrites, Terms, Bits, SMTT(30) DEF WritesTrue
<1>5. HandlesTrue'
  BY <1>p, <1>bhandles, Terms, Bits, SMTT(30) DEF HandlesTrue, ClosingKnown, CloseFlag, If
<1>6. OutFits' /\ PendingShort' /\ LifeInOrder'
  BY <1>e, <1>f DEF OutFits, PendingShort, LifeInOrder
<1>7. DoneFits'
  BY <1>f DEF DoneFits
<1>8. WriteComing'
  BY <1>f DEF WriteComing, PendingShort
<1>9. ClosingKnown'
  BY <1>f DEF ClosingKnown, LifeInOrder
<1>10. WillClose'
  BY <1>f DEF WillClose, ClosesOn, Left
<1> QED
  BY <1>1, <1>2, <1>3, <1>4, <1>5, <1>6, <1>7, <1>8, <1>9, <1>10

(* close_after_last_write shuts the socket down.                           *)
LEMMA FlagTestShutsKeeps ==
    ASSUME ~Shared, IInv, FlagTestShuts
    PROVE  IInv'
<1> USE ServerThreads DEF IInv
<1>e. pc["io"] = "flagTest" /\ net.sock # "closed" /\ s.close_flag
  BY DEF FlagTestShuts, ClosesAfterWrite, ShutdownMayPass, Goto, Go
<1>x. /\ pc' = [pc EXCEPT !["io"] = "readingTest"] /\ net' = [net EXCEPT !.sock = "shut"]
      /\ queue' = queue /\ UNCHANGED <<s, env, life, in_handler>>
  BY DEF FlagTestShuts, ClosesAfterWrite, ShutdownMayPass, Goto, Go
<1>f. /\ s' = s /\ pc'["io"] = "readingTest" /\ pc'["work"] = pc["work"]
      /\ pc'["acc"] = pc["acc"] /\ net'.sock = "shut" /\ net'.reads = net.reads
      /\ net'.writes = net.writes /\ env' = env /\ life' = life /\ in_handler' = in_handler
      /\ queue' = queue
  BY <1>x DEF TypeOK, Sockets
<1>k. UNCHANGED <<readTerms, writeTerms, handlerTerms, handleTerms, outTerms>>
  BY <1>e, <1>f
  DEF readTerms, writeTerms, handlerTerms, handleTerms, outTerms, ReadFlag, Starting, Reading,
      Starts, Reads, ReadsOut, Taken, InTask, Runs, ReadPassed, HandlesRead, Armed, Resuming, If,
      WriteFlag, WriteNext, WritesOut, WroteOk, WroteEnded, Handlers, HandlerOut, Returned, Handles,
      HandlerPast, WriteHeld, CloseFlag, Buffered, Appends, Written, OnIo, OnWork
<1>1. TypeOK'
  <2>1. "shut" \in {"open", "shut", "closed"}
    OBVIOUS
  <2>2. net' \in Sockets
    BY <1>x, <2>1, Zenon DEF TypeOK, Sockets
  <2>3. /\ s' \in Members /\ env' \in Outside /\ life' \in Lives /\ queue' \in Queues
        /\ pc' \in [Threads -> Labels] /\ in_handler' \in BOOLEAN
    BY <1>x DEF TypeOK, Queues, Labels
  <2> QED
    BY <2>2, <2>3, TypeKept
<1>2. IoPlaces' /\ WorkPlaces' /\ AccPlaces'
  BY <1>e, <1>f DEF IoPlaces, WorkPlaces, AccPlaces
<1>3. ReadsTrue' /\ OneReader' /\ WritesTrue' /\ HandlersTrue' /\ HandlesTrue' /\ OutBounded'
  BY <1>k, ReadsKept, WritesKept, HandlersKept, HandlesKept, OutKept
<1>4. OutFits' /\ PendingShort' /\ LifeInOrder'
  BY <1>e, <1>f DEF OutFits, PendingShort, LifeInOrder
<1>5. DoneFits'
  BY <1>f DEF DoneFits
<1>6. WriteComing'
  BY <1>e, <1>f DEF WriteComing, PendingShort
<1>7. ClosingKnown'
  BY <1>e, <1>f DEF ClosingKnown, LifeInOrder
<1>8. WillClose'
  BY <1>f DEF WillClose, ClosesOn, Left
<1> QED
  BY <1>1, <1>2, <1>3, <1>4, <1>5, <1>6, <1>7, <1>8

(* The I/O thread is done with a task and has nothing more to do for it.   *)
LEMMA IoFinishesKeeps ==
    ASSUME ~Shared, IInv, IoFinishes
    PROVE  IInv'
<1> USE ServerThreads DEF IInv
<1>e. /\ queue["io"] # <<>>
      /\ \/ pc["io"] = "idle" /\ Head(queue["io"]).op = "write" /\ (s.writing \/ s.pending = 0)
         \/ /\ pc["io"] = "flagTest"
            /\ Head(queue["io"]).op \in {"write_ok", "write_end"} /\ ~s.close_flag
         \/ /\ pc["io"] = "readingTest"
            /\ Head(queue["io"]).op \in {"write_ok", "write_end"} /\ s.reading
         \/ /\ pc["io"] = "countTest" /\ s.work_read_count # 0 /\ s.close_flag
            /\ Head(queue["io"]).op \in {"read_ok", "read_end", "write_ok", "write_end"}
  BY DEF IoFinishes, Finish, Go, IoPlaces, ClosingKnown
<1>x. /\ pc' = [pc EXCEPT !["io"] = "idle"] /\ queue' = Pop(queue, "io")
      /\ UNCHANGED <<s, net, env, life, in_handler>>
  BY DEF IoFinishes, Finish, Go
<1>o. /\ WroteOk = IF Head(queue["io"]).op = "write_ok" THEN 1 ELSE 0
      /\ WroteEnded = IF Head(queue["io"]).op = "write_end" THEN 1 ELSE 0
      /\ Taken("read_ok") = IF Head(queue["io"]).op = "read_ok" THEN 1 ELSE 0
      /\ Taken("read_end") = IF Head(queue["io"]).op = "read_end" THEN 1 ELSE 0
  BY <1>e DEF WroteOk, WroteEnded, Taken, InTask, Runs, If
<1>q. queue' \in Queues /\ queue'["io"] = Tail(queue["io"]) /\ queue'["work"] = queue["work"]
  BY <1>e, <1>x, IoPops DEF Ops
<1>n. /\ OnIo("read_ok")' = OnIo("read_ok") - Taken("read_ok")
      /\ OnIo("read_end")' = OnIo("read_end") - Taken("read_end")
      /\ OnIo("write_ok")' = OnIo("write_ok") - WroteOk
      /\ OnIo("write_end")' = OnIo("write_end") - WroteEnded
      /\ OnIo("write")' = IF Head(queue["io"]).op = "write"
                          THEN OnIo("write") - 1 ELSE OnIo("write")
      /\ UNCHANGED <<OnIo("read_error"), OnIo("write_error"), OnIo("close"), OnWork("fire_read"),
                     OnWork("append")>>
  <2>1. /\ OnIo("read_ok")' = IF Head(queue["io"]).op = "read_ok"
                              THEN OnIo("read_ok") - 1 ELSE OnIo("read_ok")
        /\ OnIo("read_end")' = IF Head(queue["io"]).op = "read_end"
                               THEN OnIo("read_end") - 1 ELSE OnIo("read_end")
        /\ OnIo("write_ok")' = IF Head(queue["io"]).op = "write_ok"
                               THEN OnIo("write_ok") - 1 ELSE OnIo("write_ok")
        /\ OnIo("write_end")' = IF Head(queue["io"]).op = "write_end"
                                THEN OnIo("write_end") - 1 ELSE OnIo("write_end")
        /\ OnIo("write")' = IF Head(queue["io"]).op = "write"
                            THEN OnIo("write") - 1 ELSE OnIo("write")
        /\ UNCHANGED <<OnIo("read_error"), OnIo("write_error"), OnIo("close"),
                       OnWork("fire_read"), OnWork("append")>>
    BY <1>e, <1>x, IoPops DEF Ops
  <2> QED
    BY <1>o, <2>1, Terms
<1>f. /\ s' = s /\ pc'["io"] = "idle" /\ pc'["work"] = pc["work"] /\ pc'["acc"] = pc["acc"]
      /\ net' = net /\ env' = env /\ life' = life /\ in_handler' = in_handler
  BY <1>x DEF TypeOK
<1>k. UNCHANGED <<handlerTerms, outTerms>>
  BY <1>f, <1>q, <1>n
  DEF handlerTerms, outTerms, Handlers, HandlerOut, Returned, Runs, Buffered, Appends, Written,
      InTask
<1>breads. /\ Taken("read_ok")' = 0 /\ Taken("read_end")' = 0
      /\ ReadPassed = Taken("read_ok") /\ ReadPassed' = 0
      /\ UNCHANGED <<ReadFlag, Starting, Reading, ReadsOut, Armed>>
  BY <1>e, <1>f
  DEF ReadFlag, Starting, Reading, Starts, Reads, ReadsOut, Taken, InTask, ReadPassed, HandlesRead,
      Armed, Resuming, If
<1>bwrites. WroteOk' = 0 /\ WroteEnded' = 0 /\ UNCHANGED <<WriteFlag, WriteNext, WritesOut>>
  BY <1>e, <1>f DEF WriteFlag, WriteNext, WritesOut, WroteOk, WroteEnded, InTask, If
<1>bhandles. /\ Taken("read_ok")' = 0
      /\ CloseFlag' = CloseFlag /\ (Taken("read_ok") = 0 \/ CloseFlag = 1)
      /\ UNCHANGED <<Handles, HandlerPast, WriteHeld>>
  BY <1>e, <1>f, <1>q
  DEF Handles, HandlerPast, Returned, WriteHeld, Taken, InTask, CloseFlag, Runs, If
<1>1. TypeOK'
  <2>1. /\ s' \in Members /\ net' \in Sockets /\ env' \in Outside /\ life' \in Lives
        /\ pc' \in [Threads -> Labels] /\ in_handler' \in BOOLEAN
    BY <1>x DEF TypeOK, Labels
  <2> QED
    BY <1>q, <2>1, TypeKept
<1>2. IoPlaces' /\ WorkPlaces' /\ AccPlaces'
  BY <1>f, <1>q DEF IoPlaces, WorkPlaces, AccPlaces
<1>3. HandlersTrue' /\ OutBounded'
  BY <1>k, HandlersKept, OutKept
<1>4. ReadsTrue'
  BY <1>n, <1>breads, Terms, Bits, SMTT(30) DEF ReadsTrue
<1>5. OneReader'
  BY <1>n, <1>breads, Terms, Bits, SMTT(30) DEF OneReader
<1>6. WritesTrue'
  BY <1>n, <1>bwrites, Terms, Bits, SMTT(30) DEF WritesTrue
<1>7. HandlesTrue'
  BY <1>n, <1>bhandles, Terms, Bits, SMTT(30) DEF HandlesTrue, ClosingKnown, CloseFlag, If
<1>8. OutFits' /\ PendingShort' /\ LifeInOrder'
  BY <1>e, <1>f DEF OutFits, PendingShort, LifeInOrder
<1>9. DoneFits'
  <2>1. queue["io"] \in Seq(Tasks)
    BY DEF TypeOK
  <2> QED
    BY <1>e, <1>f, <1>q, <2>1, DonePopped
<1>10. WriteComing'
  <2>1. CASE pc["io"] = "idle"
    <3>1. s.writing \/ pc["work"] = "pend" \/ ~(s.wbuf > 0)
      BY <1>e, <2>1, PendingFacts
    <3> QED
      BY <1>f, <3>1 DEF WriteComing
  <2>2. CASE pc["io"] # "idle"
    <3>1. OnIo("write")' = OnIo("write")
      BY <1>e, <1>n, <2>2
    <3> QED
      BY <1>e, <1>f, <2>2, <3>1 DEF WriteComing
  <2> QED
    BY <2>1, <2>2
<1>11. ClosingKnown'
  BY <1>f, <1>n DEF ClosingKnown, LifeInOrder, InTask
<1>12. WillClose'
  <2>1. CASE pc["io"] = "idle"
    <3>1. s.writing \/ pc["work"] = "pend" \/ s.wbuf = 0
      BY <1>e, <2>1, PendingFacts
    <3>2. CASE ClosesOn
      BY <1>f, <1>n, <2>1, <3>2 DEF WillClose, ClosesOn
    <3>3. CASE Left
      BY <1>f, <3>1, <3>3 DEF WillClose, ClosesOn, Left
    <3> QED
      BY <1>f, <3>2, <3>3 DEF WillClose
  <2>2. CASE pc["io"] # "idle"
    BY <1>e, <1>f, <2>2 DEF WillClose, ClosesOn
  <2> QED
    BY <2>1, <2>2
<1> QED
  BY <1>1, <1>2, <1>3, <1>4, <1>5, <1>6, <1>7, <1>8, <1>9, <1>10, <1>11, <1>12

(* handle_write ends in a write() that does nothing: a session that is     *)
(* closing may be left so.                                                 *)
LEMMA IoPassesKeeps ==
    ASSUME ~Shared, IInv, IoPasses
    PROVE  IInv'
<1> USE ServerThreads DEF IInv
<1>e. /\ queue["io"] # <<>> /\ pc["io"] = "writeOn" /\ Head(queue["io"]).op = "write_ok"
      /\ s.writing \/ s.pending = 0
  BY DEF IoPasses, IoPlaces
<1>x. /\ pc' = [pc EXCEPT !["io"] = "idle"] /\ queue' = Pop(queue, "io")
      /\ life' = [life EXCEPT !.passed = life.passed \/ s.close_flag]
      /\ UNCHANGED <<s, net, env, in_handler>>
  BY DEF IoPasses, Finish, Go
<1>o. /\ WroteOk = IF Head(queue["io"]).op = "write_ok" THEN 1 ELSE 0
      /\ WroteEnded = IF Head(queue["io"]).op = "write_end" THEN 1 ELSE 0
      /\ Taken("read_ok") = IF Head(queue["io"]).op = "read_ok" THEN 1 ELSE 0
      /\ Taken("read_end") = IF Head(queue["io"]).op = "read_end" THEN 1 ELSE 0
  BY <1>e DEF WroteOk, WroteEnded, Taken, InTask, Runs, If
<1>q. queue' \in Queues /\ queue'["io"] = Tail(queue["io"]) /\ queue'["work"] = queue["work"]
  BY <1>e, <1>x, IoPops DEF Ops
<1>n. /\ OnIo("read_ok")' = OnIo("read_ok") - Taken("read_ok")
      /\ OnIo("read_end")' = OnIo("read_end") - Taken("read_end")
      /\ OnIo("write_ok")' = OnIo("write_ok") - WroteOk
      /\ OnIo("write_end")' = OnIo("write_end") - WroteEnded
      /\ OnIo("write")' = IF Head(queue["io"]).op = "write"
                          THEN OnIo("write") - 1 ELSE OnIo("write")
      /\ UNCHANGED <<OnIo("read_error"), OnIo("write_error"), OnIo("close"), OnWork("fire_read"),
                     OnWork("append")>>
  <2>1. /\ OnIo("read_ok")' = IF Head(queue["io"]).op = "read_ok"
                              THEN OnIo("read_ok") - 1 ELSE OnIo("read_ok")
        /\ OnIo("read_end")' = IF Head(queue["io"]).op = "read_end"
                               THEN OnIo("read_end") - 1 ELSE OnIo("read_end")
        /\ OnIo("write_ok")' = IF Head(queue["io"]).op = "write_ok"
                               THEN OnIo("write_ok") - 1 ELSE OnIo("write_ok")
        /\ OnIo("write_end")' = IF Head(queue["io"]).op = "write_end"
                                THEN OnIo("write_end") - 1 ELSE OnIo("write_end")
        /\ OnIo("write")' = IF Head(queue["io"]).op = "write"
                            THEN OnIo("write") - 1 ELSE OnIo("write")
        /\ UNCHANGED <<OnIo("read_error"), OnIo("write_error"), OnIo("close"),
                       OnWork("fire_read"), OnWork("append")>>
    BY <1>e, <1>x, IoPops DEF Ops
  <2> QED
    BY <1>o, <2>1, Terms
<1>f. /\ s' = s /\ pc'["io"] = "idle" /\ pc'["work"] = pc["work"] /\ pc'["acc"] = pc["acc"]
      /\ net' = net /\ env' = env /\ in_handler' = in_handler
      /\ life'.where = life.where /\ life'.fired = life.fired /\ life'.crashed = life.crashed
      /\ life'.passed = (life.passed \/ s.close_flag)
  BY <1>x DEF TypeOK, Lives
<1>l. s.writing \/ pc["work"] = "pend" \/ s.wbuf = 0
  BY <1>e, PendingFacts
<1>k. UNCHANGED <<handlerTerms, outTerms>>
  BY <1>f, <1>q, <1>n
  DEF handlerTerms, outTerms, Handlers, HandlerOut, Returned, Runs, Buffered, Appends, Written,
      InTask
<1>breads. /\ Taken("read_ok")' = 0 /\ Taken("read_end")' = 0
      /\ ReadPassed = Taken("read_ok") /\ ReadPassed' = 0
      /\ UNCHANGED <<ReadFlag, Starting, Reading, ReadsOut, Armed>>
  BY <1>e, <1>f
  DEF ReadFlag, Starting, Reading, Starts, Reads, ReadsOut, Taken, InTask, ReadPassed, HandlesRead,
      Armed, Resuming, If
<1>bwrites. WroteOk' = 0 /\ WroteEnded' = 0 /\ UNCHANGED <<WriteFlag, WriteNext, WritesOut>>
  BY <1>e, <1>f DEF WriteFlag, WriteNext, WritesOut, WroteOk, WroteEnded, InTask, If
<1>bhandles. /\ Taken("read_ok")' = 0
      /\ CloseFlag' = CloseFlag /\ (Taken("read_ok") = 0 \/ CloseFlag = 1)
      /\ UNCHANGED <<Handles, HandlerPast, WriteHeld>>
  BY <1>e, <1>f, <1>q
  DEF Handles, HandlerPast, Returned, WriteHeld, Taken, InTask, CloseFlag, Runs, If
<1>1. TypeOK'
  <2>1. (life.passed \/ s.close_flag) \in BOOLEAN
    OBVIOUS
  <2>2. life' \in Lives
    BY <1>x, <2>1, Zenon DEF TypeOK, Lives
  <2>3. /\ s' \in Members /\ net' \in Sockets /\ env' \in Outside
        /\ pc' \in [Threads -> Labels] /\ in_handler' \in BOOLEAN
    BY <1>x DEF TypeOK, Labels
  <2> QED
    BY <1>q, <2>2, <2>3, TypeKept
<1>2. IoPlaces' /\ WorkPlaces' /\ AccPlaces'
  BY <1>f, <1>q DEF IoPlaces, WorkPlaces, AccPlaces
<1>3. HandlersTrue' /\ OutBounded'
  BY <1>k, HandlersKept, OutKept
<1>4. ReadsTrue'
  BY <1>n, <1>breads, Terms, Bits, SMTT(30) DEF ReadsTrue
<1>5. OneReader'
  BY <1>n, <1>breads, Terms, Bits, SMTT(30) DEF OneReader
<1>6. WritesTrue'
  BY <1>n, <1>bwrites, Terms, Bits, SMTT(30) DEF WritesTrue
<1>7. HandlesTrue'
  BY <1>n, <1>bhandles, Terms, Bits, SMTT(30) DEF HandlesTrue, ClosingKnown, CloseFlag, If
<1>8. OutFits' /\ PendingShort' /\ LifeInOrder'
  BY <1>e, <1>f DEF OutFits, PendingShort, LifeInOrder
<1>9. DoneFits'
  <2>1. queue["io"] \in Seq(Tasks)
    BY DEF TypeOK
  <2> QED
    BY <1>e, <1>f, <1>q, <2>1, DonePopped
<1>10. WriteComing'
  BY <1>f, <1>l, PendingFacts DEF WriteComing
<1>11. ClosingKnown'
  BY <1>f, <1>n DEF ClosingKnown, LifeInOrder, InTask
<1>12. WillClose'
  BY <1>f, <1>l DEF WillClose, ClosesOn, Left
<1> QED
  BY <1>1, <1>2, <1>3, <1>4, <1>5, <1>6, <1>7, <1>8, <1>9, <1>10, <1>11, <1>12

(* The I/O thread closes the socket, after the last operation or when      *)
(* asked.                                                                  *)
LEMMA IoClosesKeeps ==
    ASSUME ~Shared, IInv, NEW l,
           IoCloses(l)
    PROVE  IInv'
<1> USE ServerThreads DEF IInv
<1>e. /\ queue["io"] # <<>> /\ net.sock # "closed" /\ s.close_flag
      /\ \/ pc["io"] = "closeTest" /\ Head(queue["io"]).op = "read_ok" /\ l = "countTest"
         \/ /\ pc["io"] = "readingTest"
            /\ Head(queue["io"]).op \in {"write_ok", "write_end"} /\ l = "countTest"
         \/ pc["io"] = "idle" /\ Head(queue["io"]).op = "close" /\ l = "remove"
  BY DEF IoCloses, SocketClose, Go, IoPlaces
<1>x. /\ pc' = [pc EXCEPT !["io"] = l] /\ queue' = Aborted(queue)
      /\ net' = [net EXCEPT !.sock = "closed", !.reads = 0, !.writes = <<>>]
      /\ life' = [life EXCEPT !.fired = IF l = "remove" THEN life.fired + 1 ELSE life.fired]
      /\ UNCHANGED <<s, env, in_handler>>
  BY DEF IoCloses, SocketClose, Go
<1>q. /\ queue' \in Queues /\ queue'["io"] = Ends(queue["io"])
      /\ queue["io"] # <<>> => queue'["io"] # <<>> /\ Head(queue'["io"]) = Head(queue["io"])
      /\ queue'["work"] = queue["work"]
  BY <1>x, IoAborts DEF Ops
<1>n. /\ OnIo("read_end")' = OnIo("read_end") + ReadsOut
      /\ OnIo("write_end")' = OnIo("write_end") + WritesOut
      /\ UNCHANGED <<OnIo("read_ok"), OnIo("read_error"), OnIo("write_ok"), OnIo("write_error"),
                     OnIo("write"), OnIo("close"), OnWork("fire_read"), OnWork("append")>>
  BY <1>x, IoAborts
<1>f. /\ s' = s /\ pc'["io"] = l /\ pc'["work"] = pc["work"] /\ pc'["acc"] = pc["acc"]
      /\ net'.sock = "closed" /\ net'.reads = 0 /\ net'.writes = <<>> /\ env' = env
      /\ life'.where = life.where
      /\ life'.fired = IF l = "remove" THEN life.fired + 1 ELSE life.fired
      /\ life'.crashed = life.crashed /\ in_handler' = in_handler
  BY <1>x DEF TypeOK, Sockets
<1>k. UNCHANGED <<handlerTerms, handleTerms, outTerms>>
  BY <1>e, <1>f, <1>q, <1>n
  DEF handlerTerms, handleTerms, outTerms, Handlers, HandlerOut, Returned, Runs, Handles,
      HandlerPast, WriteHeld, Taken, InTask, CloseFlag, Buffered, Appends, Written
<1>breads. /\ ReadsOut' = 0 /\ Taken("read_ok")' = Taken("read_ok") /\ Taken("read_end") = 0
      /\ Taken("read_end")' = 0 /\ ReadPassed = 0 /\ ReadPassed' = Taken("read_ok")
      /\ UNCHANGED <<ReadFlag, Starting, Reading, Armed>>
  BY <1>e, <1>f, <1>q
  DEF ReadFlag, Starting, Reading, Starts, Reads, ReadsOut, Taken, InTask, Runs, ReadPassed,
      HandlesRead, Armed, Resuming, If
<1>bwrites. WritesOut' = 0 /\ UNCHANGED <<WriteFlag, WriteNext, WroteOk, WroteEnded>>
  BY <1>e, <1>f, <1>q DEF WriteFlag, WriteNext, WritesOut, WroteOk, WroteEnded, InTask, Runs
<1>1. TypeOK'
  <2>1. "closed" \in {"open", "shut", "closed"} /\ 0 \in Nat /\ <<>> \in Seq(Nat)
    OBVIOUS
  <2>2. net' \in Sockets
    BY <1>x, <2>1, Zenon DEF TypeOK, Sockets
  <2>3. life.fired + 1 \in Nat
    BY Fields
  <2>4. life' \in Lives
    BY <1>x, <2>3, Zenon DEF TypeOK, Lives
  <2>5. /\ s' \in Members /\ env' \in Outside /\ pc' \in [Threads -> Labels]
        /\ in_handler' \in BOOLEAN
    BY <1>e, <1>x DEF TypeOK, Labels
  <2> QED
    BY <2>2, <2>4, <1>q, <2>5, TypeKept
<1>2. IoPlaces' /\ WorkPlaces' /\ AccPlaces'
  BY <1>e, <1>f, <1>q DEF IoPlaces, WorkPlaces, AccPlaces
<1>3. HandlersTrue' /\ HandlesTrue' /\ OutBounded'
  BY <1>k, HandlersKept, HandlesKept, OutKept
<1>4. ReadsTrue'
  BY <1>n, <1>breads, Terms, Bits, SMTT(30) DEF ReadsTrue
<1>5. OneReader'
  BY <1>n, <1>breads, Terms, Bits, SMTT(30) DEF OneReader
<1>6. WritesTrue'
  BY <1>n, <1>bwrites, Terms, Bits, SMTT(30) DEF WritesTrue
<1>7. OutFits' /\ PendingShort' /\ LifeInOrder'
  BY <1>e, <1>f DEF OutFits, PendingShort, LifeInOrder
<1>8. DoneFits'
  <2>1. queue["io"] \in Seq(Tasks)
    BY DEF TypeOK
  <2> QED
    BY <1>e, <1>f, <1>q, <2>1, DoneAborted
<1>9. WriteComing'
  BY <1>e, <1>f, <1>n DEF WriteComing, PendingShort
<1>10. ClosingKnown'
  BY <1>e, <1>f, <1>n DEF ClosingKnown, LifeInOrder
<1>11. WillClose'
  BY <1>e, <1>f, <1>n DEF WillClose, ClosesOn, Left
<1> QED
  BY <1>1, <1>2, <1>3, <1>4, <1>5, <1>6, <1>7, <1>8, <1>9, <1>10, <1>11

(* fire_closed, by the I/O thread, when no handler is left.                *)
LEMMA CountTestFiresKeeps ==
    ASSUME ~Shared, IInv, CountTest,
           HandlersDone
    PROVE  IInv'
<1> USE ServerThreads DEF IInv
<1>e. /\ pc["io"] = "countTest"
      /\ queue["io"] # <<>>
      /\ Head(queue["io"]).op \in {"read_ok", "read_end", "write_ok", "write_end"}
      /\ s.work_read_count = 0
  BY DEF CountTest, HandlersDone, FireClosed, Goto, Go, IoPlaces
<1>x. /\ pc' = [pc EXCEPT !["io"] = "remove"] /\ life' = [life EXCEPT !.fired = life.fired + 1]
      /\ queue' = queue /\ UNCHANGED <<s, net, env, in_handler>>
  BY DEF CountTest, HandlersDone, FireClosed, Goto, Go
<1>f. /\ s' = s /\ pc'["io"] = "remove" /\ pc'["work"] = pc["work"] /\ pc'["acc"] = pc["acc"]
      /\ net' = net /\ env' = env /\ life'.where = life.where /\ life'.fired = life.fired + 1
      /\ life'.crashed = life.crashed /\ in_handler' = in_handler /\ queue' = queue
  BY <1>x DEF TypeOK
<1>k. UNCHANGED <<readTerms, writeTerms, handlerTerms, handleTerms, outTerms>>
  BY <1>e, <1>f
  DEF readTerms, writeTerms, handlerTerms, handleTerms, outTerms, ReadFlag, Starting, Reading,
      Starts, Reads, ReadsOut, Taken, InTask, Runs, ReadPassed, HandlesRead, Armed, Resuming,
      WriteFlag, WriteNext, WritesOut, WroteOk, WroteEnded, Handlers, HandlerOut, Returned, Handles,
      HandlerPast, WriteHeld, CloseFlag, Buffered, Appends, Written, OnIo, OnWork
<1>1. TypeOK'
  <2>1. life.fired + 1 \in Nat
    BY Fields
  <2>2. life' \in Lives
    BY <1>x, <2>1, Zenon DEF TypeOK, Lives
  <2>3. /\ s' \in Members /\ net' \in Sockets /\ env' \in Outside /\ queue' \in Queues
        /\ pc' \in [Threads -> Labels] /\ in_handler' \in BOOLEAN
    BY <1>x DEF TypeOK, Queues, Labels
  <2> QED
    BY <2>2, <2>3, TypeKept
<1>2. IoPlaces' /\ WorkPlaces' /\ AccPlaces'
  BY <1>e, <1>f DEF IoPlaces, WorkPlaces, AccPlaces
<1>3. ReadsTrue' /\ OneReader' /\ WritesTrue' /\ HandlersTrue' /\ HandlesTrue' /\ OutBounded'
  BY <1>k, ReadsKept, WritesKept, HandlersKept, HandlesKept, OutKept
<1>4. OutFits' /\ PendingShort' /\ LifeInOrder'
  BY <1>e, <1>f DEF OutFits, PendingShort, LifeInOrder
<1>5. DoneFits'
  BY <1>f DEF DoneFits
<1>6. WriteComing'
  BY <1>e, <1>f DEF WriteComing, PendingShort, OnIo
<1>7. ClosingKnown'
  BY <1>e, <1>f DEF ClosingKnown, LifeInOrder
<1>8. WillClose'
  BY <1>f DEF WillClose, ClosesOn, Left
<1> QED
  BY <1>1, <1>2, <1>3, <1>4, <1>5, <1>6, <1>7, <1>8

(* close_handler_: the server lets go of the session.                      *)
LEMMA CloseHandlerKeeps ==
    ASSUME ~Shared, IInv, CloseHandler
    PROVE  IInv'
<1> USE ServerThreads DEF IInv
<1>e. /\ pc["io"] = "remove"
      /\ queue["io"] # <<>>
      /\ Head(queue["io"]).op \in {"read_ok", "read_end", "write_ok", "write_end", "close"}
      /\ pc["acc"] \in {"readSet", "readStart", "idle"}
  BY DEF CloseHandler, Finish, Goto, Go, IoPlaces
<1>x. /\ pc' = [pc EXCEPT !["io"] = "idle"] /\ life' = [life EXCEPT !.where = "none"]
      /\ queue' = Pop(queue, "io") /\ UNCHANGED <<s, net, env, in_handler>>
  BY DEF CloseHandler, Finish, Goto, Go
<1>o. /\ WroteOk = IF Head(queue["io"]).op = "write_ok" THEN 1 ELSE 0
      /\ WroteEnded = IF Head(queue["io"]).op = "write_end" THEN 1 ELSE 0
      /\ Taken("read_ok") = IF Head(queue["io"]).op = "read_ok" THEN 1 ELSE 0
      /\ Taken("read_end") = IF Head(queue["io"]).op = "read_end" THEN 1 ELSE 0
  BY <1>e DEF WroteOk, WroteEnded, Taken, InTask, Runs, If
<1>q. queue' \in Queues /\ queue'["io"] = Tail(queue["io"]) /\ queue'["work"] = queue["work"]
  BY <1>e, <1>x, IoPops DEF Ops
<1>n. /\ OnIo("read_ok")' = OnIo("read_ok") - Taken("read_ok")
      /\ OnIo("read_end")' = OnIo("read_end") - Taken("read_end")
      /\ OnIo("write_ok")' = OnIo("write_ok") - WroteOk
      /\ OnIo("write_end")' = OnIo("write_end") - WroteEnded /\ OnIo("close")' <= OnIo("close")
      /\ UNCHANGED <<OnIo("read_error"), OnIo("write_error"), OnIo("write"), OnWork("fire_read"),
                     OnWork("append")>>
  <2>1. /\ OnIo("read_ok")' = IF Head(queue["io"]).op = "read_ok"
                              THEN OnIo("read_ok") - 1 ELSE OnIo("read_ok")
        /\ OnIo("read_end")' = IF Head(queue["io"]).op = "read_end"
                               THEN OnIo("read_end") - 1 ELSE OnIo("read_end")
        /\ OnIo("write_ok")' = IF Head(queue["io"]).op = "write_ok"
                               THEN OnIo("write_ok") - 1 ELSE OnIo("write_ok")
        /\ OnIo("write_end")' = IF Head(queue["io"]).op = "write_end"
                                THEN OnIo("write_end") - 1 ELSE OnIo("write_end")
        /\ OnIo("close")' = IF Head(queue["io"]).op = "close"
                            THEN OnIo("close") - 1 ELSE OnIo("close")
        /\ UNCHANGED <<OnIo("read_error"), OnIo("write_error"), OnIo("write"),
                       OnWork("fire_read"), OnWork("append")>>
    BY <1>e, <1>x, IoPops DEF Ops
  <2> QED
    BY <1>o, <2>1, Terms
<1>f. /\ s' = s /\ pc'["io"] = "idle" /\ pc'["work"] = pc["work"] /\ pc'["acc"] = pc["acc"]
      /\ net' = net /\ env' = env /\ life'.where = "none" /\ life'.fired = life.fired
      /\ life'.crashed = life.crashed /\ in_handler' = in_handler
  BY <1>x DEF TypeOK
<1>r0. s.close_flag
  BY <1>e DEF ClosingKnown
<1>k. UNCHANGED <<handlerTerms, outTerms>>
  BY <1>f, <1>r0, <1>q, <1>n
  DEF handlerTerms, outTerms, Handlers, HandlerOut, Returned, Runs, Buffered, Appends, Written,
      InTask
<1>breads. /\ Taken("read_ok")' = 0 /\ Taken("read_end")' = 0
      /\ ReadPassed = Taken("read_ok") /\ ReadPassed' = 0
      /\ UNCHANGED <<ReadFlag, Starting, Reading, ReadsOut, Armed>>
  BY <1>e, <1>f, <1>r0
  DEF ReadFlag, Starting, Reading, Starts, Reads, ReadsOut, Taken, InTask, ReadPassed, HandlesRead,
      Armed, Resuming, If
<1>bwrites. WroteOk' = 0 /\ WroteEnded' = 0 /\ UNCHANGED <<WriteFlag, WriteNext, WritesOut>>
  BY <1>e, <1>f, <1>r0 DEF WriteFlag, WriteNext, WritesOut, WroteOk, WroteEnded, InTask, If
<1>bhandles. /\ Taken("read_ok")' = 0 /\ CloseFlag = 1 /\ CloseFlag' = 1
      /\ UNCHANGED <<Handles, HandlerPast, WriteHeld>>
  BY <1>e, <1>f, <1>r0, <1>q
  DEF Handles, HandlerPast, Returned, WriteHeld, Taken, InTask, CloseFlag, Runs, If
<1>1. TypeOK'
  <2>1. "none" \in {"session_map", "wait_remove", "none", "client"}
    OBVIOUS
  <2>2. life' \in Lives
    BY <1>x, <2>1, Zenon DEF TypeOK, Lives
  <2>3. /\ s' \in Members /\ net' \in Sockets /\ env' \in Outside /\ pc' \in [Threads -> Labels]
        /\ in_handler' \in BOOLEAN
    BY <1>x DEF TypeOK, Labels
  <2> QED
    BY <2>2, <1>q, <2>3, TypeKept
<1>2. IoPlaces' /\ WorkPlaces' /\ AccPlaces'
  BY <1>e, <1>f, <1>r0, <1>q DEF IoPlaces, WorkPlaces, AccPlaces
<1>3. HandlersTrue' /\ OutBounded'
  BY <1>k, HandlersKept, OutKept
<1>4. ReadsTrue'
  BY <1>n, <1>breads, Terms, Bits, SMTT(30) DEF ReadsTrue
<1>5. OneReader'
  BY <1>n, <1>breads, Terms, Bits, SMTT(30) DEF OneReader
<1>6. WritesTrue'
  BY <1>n, <1>bwrites, Terms, Bits, SMTT(30) DEF WritesTrue
<1>7. HandlesTrue'
  BY <1>n, <1>bhandles, Terms, Bits, SMTT(30) DEF HandlesTrue, ClosingKnown, CloseFlag, If
<1>8. OutFits' /\ PendingShort' /\ LifeInOrder'
  BY <1>e, <1>f, <1>r0 DEF OutFits, PendingShort, LifeInOrder
<1>9. DoneFits'
  <2>1. queue["io"] \in Seq(Tasks)
    BY DEF TypeOK
  <2> QED
    BY <1>e, <1>f, <1>q, <2>1, DonePopped
<1>10. WriteComing'
  BY <1>f, <1>r0, <1>n DEF WriteComing, PendingShort
<1>11. ClosingKnown'
  BY <1>f, <1>r0, <1>n DEF ClosingKnown, LifeInOrder
<1>12. WillClose'
  BY <1>f, <1>r0, <1>n DEF WillClose, ClosesOn, Left
<1> QED
  BY <1>1, <1>2, <1>3, <1>4, <1>5, <1>6, <1>7, <1>8, <1>9, <1>10, <1>11, <1>12

-----------------------------------------------------------------------------
(* The steps of the work thread, the accept thread, the peer, the kernel.  *)

(* The work thread enters the posted fire_read.                            *)
LEMMA FireReadKeeps ==
    ASSUME ~Shared, IInv, FireRead
    PROVE  IInv'
<1> USE ServerThreads DEF IInv
<1>e. pc["work"] = "idle" /\ queue["work"] # <<>> /\ Head(queue["work"]).op = "fire_read"
  BY DEF FireRead, Begins, Runs
<1>x. /\ pc' = [pc EXCEPT !["work"] = "user"] /\ in_handler' = TRUE /\ queue' = queue
      /\ UNCHANGED <<s, net, env, life>>
  BY DEF FireRead, Begins
<1>f. /\ s' = s /\ pc'["io"] = pc["io"] /\ pc'["work"] = "user" /\ pc'["acc"] = pc["acc"]
      /\ net' = net /\ env' = env /\ life' = life /\ in_handler' = TRUE /\ queue' = queue
  BY <1>x DEF TypeOK
<1>k. UNCHANGED <<readTerms, writeTerms, handlerTerms, handleTerms, outTerms>>
  BY <1>e, <1>f
  DEF readTerms, writeTerms, handlerTerms, handleTerms, outTerms, ReadFlag, Starting, Reading,
      Starts, Reads, ReadsOut, Taken, InTask, Runs, ReadPassed, HandlesRead, Armed, Resuming,
      WriteFlag, WriteNext, WritesOut, WroteOk, WroteEnded, Handlers, HandlerOut, Returned, Handles,
      HandlerPast, WriteHeld, CloseFlag, Buffered, Appends, Written, OnIo, OnWork
<1>1. TypeOK'
  <2>1. /\ s' \in Members /\ net' \in Sockets /\ env' \in Outside /\ life' \in Lives
        /\ queue' \in Queues /\ pc' \in [Threads -> Labels] /\ in_handler' \in BOOLEAN
    BY <1>x DEF TypeOK, Queues, Labels
  <2> QED
    BY <2>1, TypeKept
<1>2. IoPlaces' /\ WorkPlaces' /\ AccPlaces'
  BY <1>e, <1>f DEF IoPlaces, WorkPlaces, AccPlaces
<1>3. ReadsTrue' /\ OneReader' /\ WritesTrue' /\ HandlersTrue' /\ HandlesTrue' /\ OutBounded'
  BY <1>k, ReadsKept, WritesKept, HandlersKept, HandlesKept, OutKept
<1>4. OutFits' /\ PendingShort' /\ LifeInOrder'
  BY <1>e, <1>f DEF OutFits, PendingShort, LifeInOrder
<1>5. DoneFits'
  BY <1>f DEF DoneFits
<1>6. WriteComing'
  BY <1>e, <1>f DEF WriteComing, PendingShort, OnIo
<1>7. ClosingKnown'
  BY <1>f DEF ClosingKnown, LifeInOrder, InTask, Runs, OnIo
<1>8. WillClose'
  BY <1>e, <1>f DEF WillClose, ClosesOn, Left, OnIo
<1> QED
  BY <1>1, <1>2, <1>3, <1>4, <1>5, <1>6, <1>7, <1>8

(* The consumer finds the notification armed and will read.                *)
LEMMA NotifyTestYesKeeps ==
    ASSUME ~Shared, IInv, NotifyTest,
           MustNotify
    PROVE  IInv'
<1> USE ServerThreads DEF IInv
<1>e. pc["work"] = "notifyTest" /\ s.high_water # 0
  BY DEF NotifyTest, MustNotify, Test, Goto, Go, TypeOK, Members
<1>x. /\ pc' = [pc EXCEPT !["work"] = "readSet"] /\ queue' = queue
      /\ UNCHANGED <<s, net, env, life, in_handler>>
  BY DEF NotifyTest, MustNotify, Test, Goto, Go
<1>f. /\ s' = s /\ pc'["io"] = pc["io"] /\ pc'["work"] = "readSet" /\ pc'["acc"] = pc["acc"]
      /\ net' = net /\ env' = env /\ life' = life /\ in_handler' = in_handler /\ queue' = queue
  BY <1>x DEF TypeOK
<1>k. UNCHANGED <<writeTerms, handlerTerms, handleTerms, outTerms>>
  BY <1>e, <1>f
  DEF writeTerms, handlerTerms, handleTerms, outTerms, WriteFlag, WriteNext, WritesOut, WroteOk,
      WroteEnded, InTask, Runs, Handlers, HandlerOut, Returned, Handles, HandlerPast, WriteHeld,
      Taken, CloseFlag, Buffered, Appends, Written, OnIo, OnWork
<1>breads. /\ Reading' = Reading + 1 /\ Armed = 1 /\ Armed' = 0
      /\ UNCHANGED <<ReadFlag, Starting, ReadsOut, OnIo("read_ok"), OnIo("read_end"),
                     OnIo("read_error"), Taken("read_ok"), Taken("read_end"), ReadPassed>>
  BY <1>e, <1>f
  DEF ReadFlag, Starting, Reading, Starts, Reads, ReadsOut, Taken, InTask, Runs, ReadPassed,
      HandlesRead, Armed, Resuming, If, OnIo
<1>1. TypeOK'
  <2>1. /\ s' \in Members /\ net' \in Sockets /\ env' \in Outside /\ life' \in Lives
        /\ queue' \in Queues /\ pc' \in [Threads -> Labels] /\ in_handler' \in BOOLEAN
    BY <1>x DEF TypeOK, Queues, Labels
  <2> QED
    BY <2>1, TypeKept
<1>2. IoPlaces' /\ WorkPlaces' /\ AccPlaces'
  BY <1>e, <1>f DEF IoPlaces, WorkPlaces, AccPlaces
<1>3. WritesTrue' /\ HandlersTrue' /\ HandlesTrue' /\ OutBounded'
  BY <1>k, WritesKept, HandlersKept, HandlesKept, OutKept
<1>4. ReadsTrue'
  BY <1>breads, Terms, Bits, SMTT(30) DEF ReadsTrue
<1>5. OneReader'
  BY <1>breads, Terms, Bits, SMTT(30) DEF OneReader
<1>6. OutFits' /\ PendingShort' /\ LifeInOrder'
  BY <1>e, <1>f DEF OutFits, PendingShort, LifeInOrder
<1>7. DoneFits'
  BY <1>f DEF DoneFits
<1>8. WriteComing'
  BY <1>e, <1>f DEF WriteComing, PendingShort, OnIo
<1>9. ClosingKnown'
  BY <1>f DEF ClosingKnown, LifeInOrder, InTask, Runs, OnIo
<1>10. WillClose'
  BY <1>e, <1>f DEF WillClose, ClosesOn, Left, OnIo
<1> QED
  BY <1>1, <1>2, <1>3, <1>4, <1>5, <1>6, <1>7, <1>8, <1>9, <1>10

(* The consumer takes the notification down.                               *)
LEMMA DisarmMaskKeeps ==
    ASSUME ~Shared, IInv, Disarm,
           pc["work"] = "clear2"
    PROVE  IInv'
<1> USE ServerThreads DEF IInv
<1>e. pc["work"] = "clear2"
  BY DEF Disarm, Goto, Go
<1>x. /\ pc' = [pc EXCEPT !["work"] = "user"] /\ s' = [s EXCEPT !.high_water = 0]
      /\ queue' = queue /\ UNCHANGED <<net, env, life, in_handler>>
  BY DEF Disarm, Goto, Go
<1>f. /\ s'.reading = s.reading /\ s'.writing = s.writing /\ s'.close_flag = s.close_flag
      /\ s'.work_read_count = s.work_read_count /\ s'.handle_count = s.handle_count
      /\ s'.pending = s.pending /\ s'.wbuf = s.wbuf /\ s'.high_water = 0 /\ pc'["io"] = pc["io"]
      /\ pc'["work"] = "user" /\ pc'["acc"] = pc["acc"] /\ net' = net /\ env' = env
      /\ life' = life /\ in_handler' = in_handler /\ queue' = queue
  BY <1>x DEF TypeOK, Members
<1>k. UNCHANGED <<writeTerms, handlerTerms, handleTerms, outTerms>>
  BY <1>f
  DEF writeTerms, handlerTerms, handleTerms, outTerms, WriteFlag, WriteNext, WritesOut, WroteOk,
      WroteEnded, InTask, Runs, Handlers, HandlerOut, Returned, Handles, HandlerPast, WriteHeld,
      Taken, CloseFlag, Buffered, Appends, Written, OnIo, OnWork
<1>breads. /\ Armed = 0 /\ Armed' = 0
      /\ UNCHANGED <<ReadFlag, Starting, Reading, ReadsOut, OnIo("read_ok"), OnIo("read_end"),
                     OnIo("read_error"), Taken("read_ok"), Taken("read_end"), ReadPassed>>
  BY <1>f
  DEF ReadFlag, Starting, Reading, Starts, Reads, ReadsOut, Taken, InTask, Runs, ReadPassed,
      HandlesRead, Armed, Resuming, If, OnIo
<1>1. TypeOK'
  <2>1. s' \in Members
    BY <1>x, Zenon DEF TypeOK, Members
  <2>2. /\ net' \in Sockets /\ env' \in Outside /\ life' \in Lives /\ queue' \in Queues
        /\ pc' \in [Threads -> Labels] /\ in_handler' \in BOOLEAN
    BY <1>x DEF TypeOK, Queues, Labels
  <2> QED
    BY <2>1, <2>2, TypeKept
<1>2. IoPlaces' /\ WorkPlaces' /\ AccPlaces'
  BY <1>f DEF IoPlaces, WorkPlaces, AccPlaces
<1>3. WritesTrue' /\ HandlersTrue' /\ HandlesTrue' /\ OutBounded'
  BY <1>k, WritesKept, HandlersKept, HandlesKept, OutKept
<1>4. ReadsTrue'
  BY <1>breads, Terms, Bits, SMTT(30) DEF ReadsTrue
<1>5. OneReader'
  BY <1>breads, Terms, Bits, SMTT(30) DEF OneReader
<1>6. OutFits' /\ PendingShort' /\ LifeInOrder'
  BY <1>f DEF OutFits, PendingShort, LifeInOrder
<1>7. DoneFits'
  BY <1>f DEF DoneFits
<1>8. WriteComing'
  BY <1>f DEF WriteComing, PendingShort, OnIo
<1>9. ClosingKnown'
  BY <1>f DEF ClosingKnown, LifeInOrder, InTask, Runs, OnIo
<1>10. WillClose'
  BY <1>f DEF WillClose, ClosesOn, Left, OnIo
<1> QED
  BY <1>1, <1>2, <1>3, <1>4, <1>5, <1>6, <1>7, <1>8, <1>9, <1>10

(* A handler appends to the write buffer, ahead of notify_write.           *)
LEMMA AppendByHandlerKeeps ==
    ASSUME ~Shared, IInv, AppendBytes,
           pc["work"] = "user"
    PROVE  IInv'
<1> USE ServerThreads DEF IInv
<1>e. pc["work"] = "user" /\ env.written < MaxOut
  BY DEF AppendBytes, Begins, Goto, Go
<1>x. /\ pc' = [pc EXCEPT !["work"] = "pend"] /\ env' = [env EXCEPT !.written = env.written + 1]
      /\ s' = [s EXCEPT !.wbuf = s.wbuf + 1] /\ queue' = queue
      /\ UNCHANGED <<net, life, in_handler>>
  BY DEF AppendBytes, Begins, Goto, Go
<1>f. /\ s'.reading = s.reading /\ s'.writing = s.writing /\ s'.close_flag = s.close_flag
      /\ s'.work_read_count = s.work_read_count /\ s'.handle_count = s.handle_count
      /\ s'.pending = s.pending /\ s'.wbuf = s.wbuf + 1 /\ s'.high_water = s.high_water
      /\ pc'["io"] = pc["io"] /\ pc'["work"] = "pend" /\ pc'["acc"] = pc["acc"] /\ net' = net
      /\ env'.received = env.received /\ env'.written = env.written + 1 /\ life' = life
      /\ in_handler' = in_handler /\ queue' = queue
  BY <1>x DEF TypeOK, Members, Outside
<1>v1. s.wbuf + 1 \in Nat
  BY Fields
<1>k. UNCHANGED <<readTerms, writeTerms, handlerTerms, handleTerms>>
  BY <1>f
  DEF readTerms, writeTerms, handlerTerms, handleTerms, ReadFlag, Starting, Reading, Starts, Reads,
      ReadsOut, Taken, InTask, Runs, ReadPassed, HandlesRead, Armed, Resuming, WriteFlag,
      WriteNext, WritesOut, WroteOk, WroteEnded, Handlers, HandlerOut, Returned, Handles,
      HandlerPast, WriteHeld, CloseFlag, OnIo, OnWork
<1>bout. /\ Buffered' = Buffered + 1 /\ Written' = Written + 1
      /\ UNCHANGED <<OnWork("append"), Appends>>
  BY <1>f DEF Buffered, Appends, Written, InTask, Runs, OnWork
<1>1. TypeOK'
  <2>1. s' \in Members
    BY <1>x, <1>v1, Zenon DEF TypeOK, Members
  <2>2. env.written + 1 \in Nat
    BY Fields
  <2>3. env' \in Outside
    BY <1>x, <2>2, Zenon DEF TypeOK, Outside
  <2>4. /\ net' \in Sockets /\ life' \in Lives /\ queue' \in Queues
        /\ pc' \in [Threads -> Labels] /\ in_handler' \in BOOLEAN
    BY <1>x DEF TypeOK, Queues, Labels
  <2> QED
    BY <2>1, <2>3, <2>4, TypeKept
<1>2. IoPlaces' /\ WorkPlaces' /\ AccPlaces'
  BY <1>f DEF IoPlaces, WorkPlaces, AccPlaces
<1>3. ReadsTrue' /\ OneReader' /\ WritesTrue' /\ HandlersTrue' /\ HandlesTrue'
  BY <1>k, ReadsKept, WritesKept, HandlersKept, HandlesKept
<1>4. OutBounded'
  <2>1. Written < MaxOut /\ MaxOut \in Nat
    BY <1>e, SessionAssumption DEF Written
  <2> QED
    BY <1>bout, <2>1, Terms, Bits, SMTT(30) DEF OutBounded
<1>5. OutFits' /\ LifeInOrder'
  BY <1>f, Fields DEF OutFits, LifeInOrder, AccPlaces, ClosingKnown
<1>6. PendingShort'
  <2>1. s.pending = s.wbuf /\ s.wbuf \in Nat
    BY Fields DEF PendingShort
  <2> QED
    BY <1>f, <2>1 DEF PendingShort
<1>7. DoneFits'
  <2>1. \A i \in 1..Len(queue["io"]) : queue["io"][i] \in Tasks
    BY DEF TypeOK
  <2>2. \A i \in 1..Len(queue["io"]) : queue["io"][i].n \in Nat
    BY <2>1 DEF Tasks
  <2>3. s'.wbuf >= s.wbuf /\ s.wbuf \in Nat /\ s'.wbuf \in Nat
    BY <1>f, Fields
  <2> QED
    BY <1>f, <2>2, <2>3 DEF DoneFits
<1>8. WriteComing'
  BY <1>f DEF WriteComing, PendingShort
<1>9. ClosingKnown'
  BY <1>f DEF ClosingKnown, LifeInOrder, InTask, Runs, OnIo
<1>10. WillClose'
  BY <1>f DEF WillClose, ClosesOn, Left, OnIo
<1> QED
  BY <1>1, <1>2, <1>3, <1>4, <1>5, <1>6, <1>7, <1>8, <1>9, <1>10

(* So does the task that session::write posted.                            *)
LEMMA AppendByTaskKeeps ==
    ASSUME ~Shared, IInv, AppendBytes,
           Begins("work", "append")
    PROVE  IInv'
<1> USE ServerThreads DEF IInv
<1>e. pc["work"] = "idle" /\ queue["work"] # <<>> /\ Head(queue["work"]).op = "append"
  BY DEF AppendBytes, Begins, Runs, Goto, Go
<1>x. /\ pc' = [pc EXCEPT !["work"] = "pend"] /\ s' = [s EXCEPT !.wbuf = s.wbuf + 1]
      /\ queue' = queue /\ UNCHANGED <<env, net, life, in_handler>>
  BY DEF AppendBytes, Begins, Goto, Go
<1>p. OnWork("append") > 0
  BY <1>e, Heads
<1>f. /\ s'.reading = s.reading /\ s'.writing = s.writing /\ s'.close_flag = s.close_flag
      /\ s'.work_read_count = s.work_read_count /\ s'.handle_count = s.handle_count
      /\ s'.pending = s.pending /\ s'.wbuf = s.wbuf + 1 /\ s'.high_water = s.high_water
      /\ pc'["io"] = pc["io"] /\ pc'["work"] = "pend" /\ pc'["acc"] = pc["acc"] /\ net' = net
      /\ env' = env /\ life' = life /\ in_handler' = in_handler /\ queue' = queue
  BY <1>x DEF TypeOK, Members
<1>v1. s.wbuf + 1 \in Nat
  BY Fields
<1>k. UNCHANGED <<readTerms, writeTerms, handlerTerms, handleTerms>>
  BY <1>e, <1>f
  DEF readTerms, writeTerms, handlerTerms, handleTerms, ReadFlag, Starting, Reading, Starts, Reads,
      ReadsOut, Taken, InTask, Runs, ReadPassed, HandlesRead, Armed, Resuming, WriteFlag,
      WriteNext, WritesOut, WroteOk, WroteEnded, Handlers, HandlerOut, Returned, Handles,
      HandlerPast, WriteHeld, CloseFlag, OnIo, OnWork
<1>bout. /\ Buffered' = Buffered + 1 /\ Appends = 0 /\ Appends' = 1
      /\ UNCHANGED <<OnWork("append"), Written>>
  BY <1>e, <1>f DEF Buffered, Appends, Written, InTask, Runs, If, OnWork
<1>1. TypeOK'
  <2>1. s' \in Members
    BY <1>x, <1>v1, Zenon DEF TypeOK, Members
  <2>2. /\ net' \in Sockets /\ env' \in Outside /\ life' \in Lives /\ queue' \in Queues
        /\ pc' \in [Threads -> Labels] /\ in_handler' \in BOOLEAN
    BY <1>x DEF TypeOK, Queues, Labels
  <2> QED
    BY <2>1, <2>2, TypeKept
<1>2. IoPlaces' /\ WorkPlaces' /\ AccPlaces'
  BY <1>e, <1>f DEF IoPlaces, WorkPlaces, AccPlaces
<1>3. ReadsTrue' /\ OneReader' /\ WritesTrue' /\ HandlersTrue' /\ HandlesTrue'
  BY <1>k, ReadsKept, WritesKept, HandlersKept, HandlesKept
<1>4. OutBounded'
  BY <1>p, <1>bout, Terms, Bits, SMTT(30) DEF OutBounded
<1>5. OutFits' /\ LifeInOrder'
  BY <1>e, <1>f, Fields, SMTT(40) DEF OutFits, LifeInOrder, AccPlaces, ClosingKnown
<1>6. PendingShort'
  <2>1. s.pending = s.wbuf /\ s.wbuf \in Nat
    BY <1>e, Fields DEF PendingShort
  <2> QED
    BY <1>f, <2>1 DEF PendingShort
<1>7. DoneFits'
  <2>1. \A i \in 1..Len(queue["io"]) : queue["io"][i] \in Tasks
    BY DEF TypeOK
  <2>2. \A i \in 1..Len(queue["io"]) : queue["io"][i].n \in Nat
    BY <2>1 DEF Tasks
  <2>3. s'.wbuf >= s.wbuf /\ s.wbuf \in Nat /\ s'.wbuf \in Nat
    BY <1>f, Fields
  <2> QED
    BY <1>f, <2>2, <2>3 DEF DoneFits
<1>8. WriteComing'
  BY <1>f DEF WriteComing, PendingShort
<1>9. ClosingKnown'
  BY <1>f DEF ClosingKnown, LifeInOrder, InTask, Runs, OnIo
<1>10. WillClose'
  BY <1>e, <1>f DEF WillClose, ClosesOn, Left, OnIo
<1> QED
  BY <1>1, <1>2, <1>3, <1>4, <1>5, <1>6, <1>7, <1>8, <1>9, <1>10

(* notify_write counts what was appended.                                  *)
LEMMA PendKeeps ==
    ASSUME ~Shared, IInv, Pend
    PROVE  IInv'
<1> USE ServerThreads DEF IInv
<1>e. pc["work"] = "pend"
  BY DEF Pend, Goto, Go
<1>x. /\ pc' = [pc EXCEPT !["work"] = "postWrite"]
      /\ s' = [s EXCEPT !.pending = (s.pending + 1) % SizeMod] /\ queue' = queue
      /\ UNCHANGED <<net, env, life, in_handler>>
  BY DEF Pend, Goto, Go
<1>f. /\ s'.reading = s.reading /\ s'.writing = s.writing /\ s'.close_flag = s.close_flag
      /\ s'.work_read_count = s.work_read_count /\ s'.handle_count = s.handle_count
      /\ s'.pending = (s.pending + 1) % SizeMod /\ s'.wbuf = s.wbuf
      /\ s'.high_water = s.high_water /\ pc'["io"] = pc["io"] /\ pc'["work"] = "postWrite"
      /\ pc'["acc"] = pc["acc"] /\ net' = net /\ env' = env /\ life' = life
      /\ in_handler' = in_handler /\ queue' = queue
  BY <1>x DEF TypeOK, Members
<1>v1. (s.pending + 1) % SizeMod \in 0..SizeMod - 1
  <2>1. s.pending + 1 \in Int
    BY Fields, SessionAssumption
  <2> QED
    BY <2>1, SizeWraps
<1>k. UNCHANGED <<readTerms, writeTerms, handlerTerms, handleTerms, outTerms>>
  BY <1>e, <1>f
  DEF readTerms, writeTerms, handlerTerms, handleTerms, outTerms, ReadFlag, Starting, Reading,
      Starts, Reads, ReadsOut, Taken, InTask, Runs, ReadPassed, HandlesRead, Armed, Resuming,
      WriteFlag, WriteNext, WritesOut, WroteOk, WroteEnded, Handlers, HandlerOut, Returned, Handles,
      HandlerPast, WriteHeld, CloseFlag, Buffered, Appends, Written, OnIo, OnWork
<1>1. TypeOK'
  <2>1. s' \in Members
    BY <1>x, <1>v1, Zenon DEF TypeOK, Members
  <2>2. /\ net' \in Sockets /\ env' \in Outside /\ life' \in Lives /\ queue' \in Queues
        /\ pc' \in [Threads -> Labels] /\ in_handler' \in BOOLEAN
    BY <1>x DEF TypeOK, Queues, Labels
  <2> QED
    BY <2>1, <2>2, TypeKept
<1>2. IoPlaces' /\ WorkPlaces' /\ AccPlaces'
  BY <1>e, <1>f DEF IoPlaces, WorkPlaces, AccPlaces
<1>3. ReadsTrue' /\ OneReader' /\ WritesTrue' /\ HandlersTrue' /\ HandlesTrue' /\ OutBounded'
  BY <1>k, ReadsKept, WritesKept, HandlersKept, HandlesKept, OutKept
<1>4. OutFits' /\ LifeInOrder'
  BY <1>f DEF OutFits, LifeInOrder
<1>5. PendingShort'
  <2>1. s.wbuf < SizeMod /\ s.wbuf \in Nat /\ SizeMod \in Nat
    BY PendingFacts
  <2>2. s'.wbuf = s.wbuf /\ s'.pending = (s.pending + 1) % SizeMod /\ pc'["work"] = "postWrite"
    BY <1>f
  <2>3. s.pending + 1 = IF s.wbuf = 0 THEN SizeMod ELSE s.wbuf
    BY <1>e, <2>1, PendingFacts
  <2>4. (s.pending + 1) % SizeMod = s.wbuf
    BY <2>1, <2>3, SizeWraps
  <2> QED
    BY <2>2, <2>4 DEF PendingShort
<1>6. DoneFits'
  BY <1>f DEF DoneFits
<1>7. WriteComing'
  BY <1>f DEF WriteComing, PendingShort
<1>8. ClosingKnown'
  BY <1>f DEF ClosingKnown, LifeInOrder, InTask, Runs, OnIo
<1>9. WillClose'
  BY <1>e, <1>f DEF WillClose, ClosesOn, Left, OnIo
<1> QED
  BY <1>1, <1>2, <1>3, <1>4, <1>5, <1>6, <1>7, <1>8, <1>9

(* A write, or the close of a session, is posted by a call of a handler    *)
LEMMA PostsKeeps ==
    ASSUME ~Shared, IInv, NEW th \in {"work", "acc"},
           NEW op \in {"write", "close"},
           Posts(th, op)
    PROVE  IInv'
<1> USE ServerThreads DEF IInv
<1>e. /\ th = "work" => in_handler
      /\ \/ th = "work" /\ op = "write" /\ pc["work"] = "postWrite"
         \/ op = "close" /\ pc[th] = "cnReading"
  BY DEF Posts
<1>x. /\ pc' = [pc EXCEPT ![th] = IF th = "acc" THEN "erase" ELSE "user"]
      /\ queue' = Post(queue, "io", Task(op, 0)) /\ UNCHANGED <<s, net, env, life, in_handler>>
  BY DEF Posts
<1>q. /\ queue' \in Queues /\ queue'["io"] = Append(queue["io"], Task(op, 0))
      /\ queue["io"] # <<>> => queue'["io"] # <<>> /\ Head(queue'["io"]) = Head(queue["io"])
      /\ queue'["work"] = queue["work"]
  BY <1>x, IoPosts DEF Ops
<1>n. /\ OnIo("write")' = IF op = "write" THEN OnIo("write") + 1 ELSE OnIo("write")
      /\ OnIo("close")' = IF op = "close" THEN OnIo("close") + 1 ELSE OnIo("close")
      /\ UNCHANGED <<OnIo("read_ok"), OnIo("read_end"), OnIo("read_error"), OnIo("write_ok"),
                     OnIo("write_end"), OnIo("write_error"), OnWork("fire_read"), OnWork("append")>>
  BY <1>x, IoPosts DEF Ops
<1>f. /\ s' = s /\ pc'["io"] = pc["io"]
      /\ pc'["work"] = IF th = "work" THEN "user" ELSE pc["work"]
      /\ pc'["acc"] = IF th = "acc" THEN "erase" ELSE pc["acc"]
      /\ net' = net /\ env' = env /\ life' = life /\ in_handler' = in_handler
  BY <1>x DEF TypeOK
<1>k. UNCHANGED <<readTerms, writeTerms, handlerTerms, handleTerms, outTerms>>
  BY <1>e, <1>f, <1>q, <1>n
  DEF readTerms, writeTerms, handlerTerms, handleTerms, outTerms, ReadFlag, Starting, Reading,
      Starts, Reads, ReadsOut, Taken, InTask, Runs, ReadPassed, HandlesRead, Armed, Resuming, If,
      WriteFlag, WriteNext, WritesOut, WroteOk, WroteEnded, Handlers, HandlerOut, Returned, Handles,
      HandlerPast, WriteHeld, CloseFlag, Buffered, Appends, Written, IoPlaces
<1>1. TypeOK'
  <2>1. /\ s' \in Members /\ net' \in Sockets /\ env' \in Outside /\ life' \in Lives
        /\ pc' \in [Threads -> Labels] /\ in_handler' \in BOOLEAN
    BY <1>x DEF TypeOK, Labels
  <2> QED
    BY <1>q, <2>1, TypeKept
<1>2. IoPlaces' /\ WorkPlaces' /\ AccPlaces'
  BY <1>e, <1>f, <1>q DEF IoPlaces, WorkPlaces, AccPlaces
<1>3. ReadsTrue' /\ OneReader' /\ WritesTrue' /\ HandlersTrue' /\ HandlesTrue' /\ OutBounded'
  BY <1>k, ReadsKept, WritesKept, HandlersKept, HandlesKept, OutKept
<1>4. OutFits' /\ PendingShort' /\ LifeInOrder'
  BY <1>e, <1>f DEF OutFits, PendingShort, LifeInOrder
<1>5. DoneFits'
  <2>1. queue["io"] \in Seq(Tasks)
    BY DEF TypeOK
  <2>2. Task(op, 0) \in Tasks /\ Task(op, 0).op = op /\ Task(op, 0).n = 0
    BY DEF Task, Tasks, Ops
  <2> QED
    BY <1>f, <1>q, <2>1, <2>2, DonePosted
<1>6. WriteComing'
  <2>1. CASE op = "write"
    <3>1. OnIo("write")' > 0
      BY <1>n, <2>1, Terms
    <3> QED
      BY <3>1 DEF WriteComing
  <2>2. CASE op = "close"
    BY <1>e, <1>f, <1>n, <2>2 DEF WriteComing
  <2> QED
    BY <2>1, <2>2
<1>7. ClosingKnown'
  BY <1>e, <1>f, <1>q, <1>n DEF ClosingKnown, LifeInOrder, InTask, Runs, IoPlaces
<1>8. WillClose'
  <2>1. CASE op = "write"
    <3>1. OnIo("write")' > 0
      BY <1>n, <2>1, Terms
    <3> QED
      BY <1>e, <1>f, <1>n, <2>1, <3>1 DEF WillClose, ClosesOn, Left
  <2>2. CASE op = "close"
    <3>1. OnIo("close")' > 0
      BY <1>n, <2>2, Terms
    <3> QED
      BY <3>1 DEF WillClose, ClosesOn, Left
  <2> QED
    BY <2>1, <2>2
<1> QED
  BY <1>1, <1>2, <1>3, <1>4, <1>5, <1>6, <1>7, <1>8

(* or by the last call of a task.                                          *)
LEMMA PostsLastKeeps ==
    ASSUME ~Shared, IInv, NEW op \in {"write", "close"},
           PostsLast(op)
    PROVE  IInv'
<1> USE ServerThreads DEF IInv
<1>e. /\ ~in_handler /\ queue["work"] # <<>>
      /\ \/ op = "write" /\ pc["work"] = "postWrite" /\ Head(queue["work"]).op = "append"
         \/ op = "close" /\ pc["work"] = "cnReading" /\ Head(queue["work"]).op = "fire_read"
  BY DEF PostsLast, WorkPlaces
<1>x. /\ pc' = [pc EXCEPT !["work"] = "idle"]
      /\ queue' = Pop(Post(queue, "io", Task(op, 0)), "work")
      /\ UNCHANGED <<s, net, env, life, in_handler>>
  BY DEF PostsLast
<1>o. /\ HandlerOut = IF Head(queue["work"]).op = "fire_read" THEN 1 ELSE 0
      /\ HandlerPast = IF Head(queue["work"]).op = "fire_read" THEN 1 ELSE 0
      /\ Appends = IF Head(queue["work"]).op = "append" THEN 1 ELSE 0
  BY <1>e DEF HandlerOut, HandlerPast, Returned, Appends, InTask, Runs, If
<1>q. /\ queue' \in Queues /\ queue'["io"] = Append(queue["io"], Task(op, 0))
      /\ queue["io"] # <<>> => queue'["io"] # <<>> /\ Head(queue'["io"]) = Head(queue["io"])
  BY <1>e, <1>x, IoPostsWorkPops DEF Ops
<1>n. /\ OnIo("write")' = IF op = "write" THEN OnIo("write") + 1 ELSE OnIo("write")
      /\ OnIo("close")' = IF op = "close" THEN OnIo("close") + 1 ELSE OnIo("close")
      /\ OnWork("fire_read")' = OnWork("fire_read") - HandlerOut
      /\ OnWork("append")' = OnWork("append") - Appends
      /\ UNCHANGED <<OnIo("read_ok"), OnIo("read_end"), OnIo("read_error"), OnIo("write_ok"),
                     OnIo("write_end"), OnIo("write_error")>>
  <2>1. /\ OnIo("write")' = IF op = "write" THEN OnIo("write") + 1 ELSE OnIo("write")
        /\ OnIo("close")' = IF op = "close" THEN OnIo("close") + 1 ELSE OnIo("close")
        /\ OnWork("fire_read")' = IF Head(queue["work"]).op = "fire_read"
                                  THEN OnWork("fire_read") - 1 ELSE OnWork("fire_read")
        /\ OnWork("append")' = IF Head(queue["work"]).op = "append"
                               THEN OnWork("append") - 1 ELSE OnWork("append")
        /\ UNCHANGED <<OnIo("read_ok"), OnIo("read_end"), OnIo("read_error"), OnIo("write_ok"),
                       OnIo("write_end"), OnIo("write_error")>>
    BY <1>e, <1>x, IoPostsWorkPops DEF Ops
  <2> QED
    BY <1>o, <2>1, Terms
<1>f. /\ s' = s /\ pc'["io"] = pc["io"] /\ pc'["work"] = "idle" /\ pc'["acc"] = pc["acc"]
      /\ net' = net /\ env' = env /\ life' = life /\ in_handler' = in_handler
  BY <1>x DEF TypeOK
<1>k. UNCHANGED <<readTerms, writeTerms>>
  BY <1>e, <1>f, <1>q, <1>n, SMTT(40)
  DEF readTerms, writeTerms, ReadFlag, Starting, Reading, Starts, Reads, ReadsOut, Taken, InTask,
      Runs, ReadPassed, HandlesRead, Armed, Resuming, WriteFlag, WriteNext, WritesOut, WroteOk,
      WroteEnded, IoPlaces
<1>bhandlers. HandlerOut' = 0 /\ UNCHANGED Handlers
  BY <1>f DEF Handlers, HandlerOut, Returned, If
<1>bhandles. /\ HandlerPast = HandlerOut /\ HandlerPast' = 0
      /\ UNCHANGED <<Handles, WriteHeld, Taken("read_ok"), CloseFlag>>
  BY <1>f, <1>q, <1>o
  DEF Handles, HandlerPast, Returned, WriteHeld, Taken, InTask, CloseFlag, Runs, If, IoPlaces
<1>bout. Appends' = 0 /\ UNCHANGED <<Buffered, Written>>
  BY <1>f DEF Buffered, Appends, Written, InTask, If
<1>1. TypeOK'
  <2>1. /\ s' \in Members /\ net' \in Sockets /\ env' \in Outside /\ life' \in Lives
        /\ pc' \in [Threads -> Labels] /\ in_handler' \in BOOLEAN
    BY <1>x DEF TypeOK, Labels
  <2> QED
    BY <1>q, <2>1, TypeKept
<1>2. IoPlaces' /\ WorkPlaces' /\ AccPlaces'
  BY <1>e, <1>f, <1>q DEF IoPlaces, WorkPlaces, AccPlaces
<1>3. ReadsTrue' /\ OneReader' /\ WritesTrue'
  BY <1>k, ReadsKept, WritesKept
<1>4. HandlersTrue'
  BY <1>n, <1>bhandlers, Terms, Bits, SMTT(30) DEF HandlersTrue
<1>5. HandlesTrue'
  BY <1>n, <1>bhandles, Terms, Bits, SMTT(30) DEF HandlesTrue, ClosingKnown, CloseFlag, If
<1>6. OutBounded'
  BY <1>n, <1>bout, Terms, Bits, SMTT(30) DEF OutBounded
<1>7. OutFits' /\ PendingShort' /\ LifeInOrder'
  BY <1>e, <1>f DEF OutFits, PendingShort, LifeInOrder
<1>8. DoneFits'
  <2>1. queue["io"] \in Seq(Tasks)
    BY DEF TypeOK
  <2>2. Task(op, 0) \in Tasks /\ Task(op, 0).op = op /\ Task(op, 0).n = 0
    BY DEF Task, Tasks, Ops
  <2> QED
    BY <1>f, <1>q, <2>1, <2>2, DonePosted
<1>9. WriteComing'
  <2>1. CASE op = "write"
    <3>1. OnIo("write")' > 0
      BY <1>n, <2>1, Terms
    <3> QED
      BY <3>1 DEF WriteComing
  <2>2. CASE op = "close"
    BY <1>e, <1>f, <1>n, <2>2 DEF WriteComing
  <2> QED
    BY <2>1, <2>2
<1>10. ClosingKnown'
  BY <1>e, <1>f, <1>q, <1>n DEF ClosingKnown, LifeInOrder, InTask, Runs, IoPlaces
<1>11. WillClose'
  <2>1. CASE op = "write"
    <3>1. OnIo("write")' > 0
      BY <1>n, <2>1, Terms
    <3> QED
      BY <1>e, <1>f, <1>n, <2>1, <3>1 DEF WillClose, ClosesOn, Left
  <2>2. CASE op = "close"
    <3>1. OnIo("close")' > 0
      BY <1>n, <2>2, Terms
    <3> QED
      BY <3>1 DEF WillClose, ClosesOn, Left
  <2> QED
    BY <2>1, <2>2
<1> QED
  BY <1>1, <1>2, <1>3, <1>4, <1>5, <1>6, <1>7, <1>8, <1>9, <1>10, <1>11

(* close() sets close_flag_.                                               *)
LEMMA SetsCloseKeeps ==
    ASSUME ~Shared, IInv, NEW th \in {"work", "acc"},
           SetsClose(th)
    PROVE  IInv'
<1> USE ServerThreads DEF IInv
<1>e. /\ \/ th = "work" /\ pc["work"] = "user"
         \/ th = "acc" /\ pc["acc"] = "idleClose"
  BY DEF SetsClose
<1>x. /\ pc' = [pc EXCEPT ![th] = "cnFlag"] /\ s' = [s EXCEPT !.close_flag = TRUE]
      /\ queue' = queue /\ UNCHANGED <<net, env, life, in_handler>>
  BY DEF SetsClose
<1>f. /\ s'.reading = s.reading /\ s'.writing = s.writing /\ s'.close_flag = TRUE
      /\ s'.work_read_count = s.work_read_count /\ s'.handle_count = s.handle_count
      /\ s'.pending = s.pending /\ s'.wbuf = s.wbuf /\ s'.high_water = s.high_water
      /\ pc'["io"] = pc["io"]
      /\ pc'["work"] = IF th = "work" THEN "cnFlag" ELSE pc["work"]
      /\ pc'["acc"] = IF th = "acc" THEN "cnFlag" ELSE pc["acc"]
      /\ net' = net /\ env' = env /\ life' = life /\ in_handler' = in_handler /\ queue' = queue
  BY <1>x DEF TypeOK, Members
<1>k. UNCHANGED <<readTerms, writeTerms, handlerTerms, outTerms>>
  BY <1>e, <1>f
  DEF readTerms, writeTerms, handlerTerms, outTerms, ReadFlag, Starting, Reading, Starts, Reads,
      ReadsOut, Taken, InTask, Runs, ReadPassed, HandlesRead, Armed, Resuming, WriteFlag,
      WriteNext, WritesOut, WroteOk, WroteEnded, Handlers, HandlerOut, Returned, Buffered,
      Appends, Written, OnIo, OnWork, WorkPlaces
<1>bhandles. /\ CloseFlag' = 1
      /\ UNCHANGED <<Handles, OnWork("fire_read"), HandlerPast, WriteHeld, Taken("read_ok")>>
  BY <1>e, <1>f
  DEF Handles, HandlerPast, Returned, WriteHeld, Taken, InTask, CloseFlag, Runs, If, OnWork,
      WorkPlaces
<1>1. TypeOK'
  <2>1. s' \in Members
    BY <1>x, Zenon DEF TypeOK, Members
  <2>2. /\ net' \in Sockets /\ env' \in Outside /\ life' \in Lives /\ queue' \in Queues
        /\ pc' \in [Threads -> Labels] /\ in_handler' \in BOOLEAN
    BY <1>x DEF TypeOK, Queues, Labels
  <2> QED
    BY <2>1, <2>2, TypeKept
<1>2. IoPlaces' /\ WorkPlaces' /\ AccPlaces'
  BY <1>e, <1>f DEF IoPlaces, WorkPlaces, AccPlaces
<1>3. ReadsTrue' /\ OneReader' /\ WritesTrue' /\ HandlersTrue' /\ OutBounded'
  BY <1>k, ReadsKept, WritesKept, HandlersKept, OutKept
<1>4. HandlesTrue'
  BY <1>bhandles, Terms, Bits, SMTT(30) DEF HandlesTrue, ClosingKnown, CloseFlag, If
<1>5. OutFits' /\ PendingShort' /\ LifeInOrder'
  BY <1>e, <1>f DEF OutFits, PendingShort, LifeInOrder
<1>6. DoneFits'
  BY <1>f DEF DoneFits
<1>7. WriteComing'
  BY <1>f DEF WriteComing, PendingShort
<1>8. ClosingKnown'
  BY <1>f DEF ClosingKnown, LifeInOrder
<1>9. WillClose'
  BY <1>f DEF WillClose, ClosesOn, Left
<1> QED
  BY <1>1, <1>2, <1>3, <1>4, <1>5, <1>6, <1>7, <1>8, <1>9

(* fire_read returns to the posted task,                                   *)
LEMMA FireReadReturnsKeeps ==
    ASSUME ~Shared, IInv, FireReadReturns
    PROVE  IInv'
<1> USE ServerThreads DEF IInv
<1>e. pc["work"] = "user"
  BY DEF FireReadReturns
<1>x. /\ pc' = [pc EXCEPT !["work"] = "endHandle"] /\ in_handler' = FALSE /\ queue' = queue
      /\ UNCHANGED <<s, net, env, life>>
  BY DEF FireReadReturns
<1>f. /\ s' = s /\ pc'["io"] = pc["io"] /\ pc'["work"] = "endHandle" /\ pc'["acc"] = pc["acc"]
      /\ net' = net /\ env' = env /\ life' = life /\ in_handler' = FALSE /\ queue' = queue
  BY <1>x DEF TypeOK
<1>k. UNCHANGED <<readTerms, writeTerms, handlerTerms, handleTerms, outTerms>>
  BY <1>e, <1>f
  DEF readTerms, writeTerms, handlerTerms, handleTerms, outTerms, ReadFlag, Starting, Reading,
      Starts, Reads, ReadsOut, Taken, InTask, Runs, ReadPassed, HandlesRead, Armed, Resuming,
      WriteFlag, WriteNext, WritesOut, WroteOk, WroteEnded, Handlers, HandlerOut, Returned, Handles,
      HandlerPast, WriteHeld, CloseFlag, Buffered, Appends, Written, OnIo, OnWork
<1>1. TypeOK'
  <2>1. /\ s' \in Members /\ net' \in Sockets /\ env' \in Outside /\ life' \in Lives
        /\ queue' \in Queues /\ pc' \in [Threads -> Labels] /\ in_handler' \in BOOLEAN
    BY <1>x DEF TypeOK, Queues, Labels
  <2> QED
    BY <2>1, TypeKept
<1>2. IoPlaces' /\ WorkPlaces' /\ AccPlaces'
  BY <1>e, <1>f DEF IoPlaces, WorkPlaces, AccPlaces
<1>3. ReadsTrue' /\ OneReader' /\ WritesTrue' /\ HandlersTrue' /\ HandlesTrue' /\ OutBounded'
  BY <1>k, ReadsKept, WritesKept, HandlersKept, HandlesKept, OutKept
<1>4. OutFits' /\ PendingShort' /\ LifeInOrder'
  BY <1>e, <1>f DEF OutFits, PendingShort, LifeInOrder
<1>5. DoneFits'
  BY <1>f DEF DoneFits
<1>6. WriteComing'
  BY <1>e, <1>f DEF WriteComing, PendingShort, OnIo
<1>7. ClosingKnown'
  BY <1>f DEF ClosingKnown, LifeInOrder, InTask, Runs, OnIo
<1>8. WillClose'
  BY <1>e, <1>f DEF WillClose, ClosesOn, Left, OnIo
<1> QED
  BY <1>1, <1>2, <1>3, <1>4, <1>5, <1>6, <1>7, <1>8

(* which gives back the handle of the read                                 *)
LEMMA EndHandleKeeps ==
    ASSUME ~Shared, IInv, EndTask,
           pc["work"] = "endHandle"
    PROVE  IInv'
<1> USE ServerThreads DEF IInv
<1>e. /\ pc["work"] = "endHandle"
      /\ queue["work"] # <<>> /\ Head(queue["work"]).op = "fire_read"
  BY DEF EndTask, Goto, Go, WorkPlaces
<1>x. /\ pc' = [pc EXCEPT !["work"] = "endCount"]
      /\ s' = [s EXCEPT !.handle_count = s.handle_count - 1] /\ queue' = queue
      /\ UNCHANGED <<net, env, life, in_handler>>
  BY DEF EndTask, Goto, Go
<1>p. OnWork("fire_read") > 0
  BY <1>e, Heads
<1>f. /\ s'.reading = s.reading /\ s'.writing = s.writing /\ s'.close_flag = s.close_flag
      /\ s'.work_read_count = s.work_read_count /\ s'.handle_count = s.handle_count - 1
      /\ s'.pending = s.pending /\ s'.wbuf = s.wbuf /\ s'.high_water = s.high_water
      /\ pc'["io"] = pc["io"] /\ pc'["work"] = "endCount" /\ pc'["acc"] = pc["acc"]
      /\ net' = net /\ env' = env /\ life' = life /\ in_handler' = in_handler /\ queue' = queue
  BY <1>x DEF TypeOK, Members
<1>r0. HandlerPast = 0
  BY DEF HandlerPast, Returned, If
<1>r1. s.handle_count - 1 \in Nat
  <2>1. Handles >= 1
    BY <1>p, <1>r0, Terms, Bits, PastBelow, SMTT(30) DEF HandlesTrue
  <2> QED
    BY <2>1, Terms DEF Handles
<1>k. UNCHANGED <<readTerms, writeTerms, handlerTerms, outTerms>>
  BY <1>f, <1>r0, <1>r1
  DEF readTerms, writeTerms, handlerTerms, outTerms, ReadFlag, Starting, Reading, Starts, Reads,
      ReadsOut, Taken, InTask, Runs, ReadPassed, HandlesRead, Armed, Resuming, WriteFlag,
      WriteNext, WritesOut, WroteOk, WroteEnded, Handlers, HandlerOut, Returned, Buffered,
      Appends, Written, OnIo, OnWork
<1>bhandles. /\ Handles' = Handles - 1 /\ HandlerPast = 0 /\ HandlerPast' = 1
      /\ UNCHANGED <<OnWork("fire_read"), WriteHeld, Taken("read_ok"), CloseFlag>>
  BY <1>f, <1>r0, <1>r1
  DEF Handles, HandlerPast, Returned, WriteHeld, Taken, InTask, CloseFlag, Runs, If, OnWork
<1>1. TypeOK'
  <2>1. s' \in Members
    BY <1>x, <1>r0, <1>r1, Zenon DEF TypeOK, Members
  <2>2. /\ net' \in Sockets /\ env' \in Outside /\ life' \in Lives /\ queue' \in Queues
        /\ pc' \in [Threads -> Labels] /\ in_handler' \in BOOLEAN
    BY <1>x DEF TypeOK, Queues, Labels
  <2> QED
    BY <2>1, <2>2, TypeKept
<1>2. IoPlaces' /\ WorkPlaces' /\ AccPlaces'
  BY <1>f, <1>r0, <1>r1 DEF IoPlaces, WorkPlaces, AccPlaces
<1>3. ReadsTrue' /\ OneReader' /\ WritesTrue' /\ HandlersTrue' /\ OutBounded'
  BY <1>k, ReadsKept, WritesKept, HandlersKept, OutKept
<1>4. HandlesTrue'
  BY <1>p, <1>bhandles, Terms, Bits, SMTT(30) DEF HandlesTrue, ClosingKnown, CloseFlag, If
<1>5. OutFits' /\ PendingShort' /\ LifeInOrder'
  BY <1>f, <1>r0, <1>r1 DEF OutFits, PendingShort, LifeInOrder
<1>6. DoneFits'
  BY <1>f DEF DoneFits
<1>7. WriteComing'
  BY <1>f, <1>r0, <1>r1 DEF WriteComing, PendingShort, OnIo
<1>8. ClosingKnown'
  BY <1>f, <1>r0, <1>r1 DEF ClosingKnown, LifeInOrder, InTask, Runs, OnIo
<1>9. WillClose'
  BY <1>f, <1>r0, <1>r1 DEF WillClose, ClosesOn, Left, OnIo
<1> QED
  BY <1>1, <1>2, <1>3, <1>4, <1>5, <1>6, <1>7, <1>8, <1>9

(* and then counts the handler out.                                        *)
LEMMA EndCountKeeps ==
    ASSUME ~Shared, IInv, EndTask,
           pc["work"] = "endCount"
    PROVE  IInv'
<1> USE ServerThreads DEF IInv
<1>e. /\ pc["work"] = "endCount" /\ queue["work"] # <<>> /\ Head(queue["work"]).op = "fire_read"
      /\ ~in_handler
  BY DEF EndTask, HandlerCounted, Goto, Go, WorkPlaces
<1>x. /\ pc' = [pc EXCEPT !["work"] = "cnFlag"]
      /\ s' = [s EXCEPT !.work_read_count = s.work_read_count - 1] /\ queue' = queue
      /\ UNCHANGED <<net, env, life, in_handler>>
  BY DEF EndTask, HandlerCounted, Goto, Go
<1>p. OnWork("fire_read") > 0
  BY <1>e, Heads
<1>f. /\ s'.reading = s.reading /\ s'.writing = s.writing /\ s'.close_flag = s.close_flag
      /\ s'.work_read_count = s.work_read_count - 1 /\ s'.handle_count = s.handle_count
      /\ s'.pending = s.pending /\ s'.wbuf = s.wbuf /\ s'.high_water = s.high_water
      /\ pc'["io"] = pc["io"] /\ pc'["work"] = "cnFlag" /\ pc'["acc"] = pc["acc"] /\ net' = net
      /\ env' = env /\ life' = life /\ in_handler' = in_handler /\ queue' = queue
  BY <1>x DEF TypeOK, Members
<1>r0. HandlerOut = 0
  BY DEF HandlerOut, Returned, If
<1>r1. s.work_read_count - 1 \in Nat
  <2>1. Handlers >= 1
    BY <1>p, <1>r0, Terms, Bits, SMTT(30) DEF HandlersTrue
  <2> QED
    BY <2>1, Terms DEF Handlers
<1>k. UNCHANGED <<readTerms, writeTerms, outTerms>>
  BY <1>f, <1>r0, <1>r1
  DEF readTerms, writeTerms, outTerms, ReadFlag, Starting, Reading, Starts, Reads, ReadsOut, Taken,
      InTask, Runs, ReadPassed, HandlesRead, Armed, Resuming, WriteFlag, WriteNext, WritesOut,
      WroteOk, WroteEnded, Buffered, Appends, Written, OnIo, OnWork
<1>bhandlers. /\ Handlers' = Handlers - 1 /\ HandlerOut = 0 /\ HandlerOut' = 1
      /\ UNCHANGED OnWork("fire_read")
  BY <1>e, <1>f, <1>r0, <1>r1 DEF Handlers, HandlerOut, Returned, Runs, If, OnWork
<1>bhandles. /\ HandlerPast = 1 /\ HandlerPast' = 1
      /\ UNCHANGED <<Handles, OnWork("fire_read"), WriteHeld, Taken("read_ok"), CloseFlag>>
  BY <1>e, <1>f, <1>r0, <1>r1
  DEF Handles, HandlerPast, Returned, WriteHeld, Taken, InTask, CloseFlag, Runs, If, OnWork
<1>1. TypeOK'
  <2>1. s' \in Members
    BY <1>x, <1>r0, <1>r1, Zenon DEF TypeOK, Members
  <2>2. /\ net' \in Sockets /\ env' \in Outside /\ life' \in Lives /\ queue' \in Queues
        /\ pc' \in [Threads -> Labels] /\ in_handler' \in BOOLEAN
    BY <1>x DEF TypeOK, Queues, Labels
  <2> QED
    BY <2>1, <2>2, TypeKept
<1>2. IoPlaces' /\ WorkPlaces' /\ AccPlaces'
  BY <1>f, <1>r0, <1>r1 DEF IoPlaces, WorkPlaces, AccPlaces
<1>3. ReadsTrue' /\ OneReader' /\ WritesTrue' /\ OutBounded'
  BY <1>k, ReadsKept, WritesKept, OutKept
<1>4. HandlersTrue'
  BY <1>p, <1>bhandlers, Terms, Bits, SMTT(30) DEF HandlersTrue
<1>5. HandlesTrue'
  BY <1>p, <1>bhandles, Terms, Bits, SMTT(30) DEF HandlesTrue, ClosingKnown, CloseFlag, If
<1>6. OutFits' /\ PendingShort' /\ LifeInOrder'
  BY <1>f, <1>r0, <1>r1 DEF OutFits, PendingShort, LifeInOrder
<1>7. DoneFits'
  BY <1>f DEF DoneFits
<1>8. WriteComing'
  BY <1>f, <1>r0, <1>r1 DEF WriteComing, PendingShort, OnIo
<1>9. ClosingKnown'
  BY <1>f, <1>r0, <1>r1 DEF ClosingKnown, LifeInOrder, InTask, Runs, OnIo
<1>10. WillClose'
  BY <1>f, <1>r0, <1>r1 DEF WillClose, ClosesOn, Left
<1> QED
  BY <1>1, <1>2, <1>3, <1>4, <1>5, <1>6, <1>7, <1>8, <1>9, <1>10

(* close_if_necessary, last in the task, leaves the close to others.       *)
LEMMA CloseLeftAtEndKeeps ==
    ASSUME ~Shared, IInv, CloseIfNecessary("work"),
           pc["work"] \in {"cnFlag", "cnCount"},
           s.close_flag => s.writing \/ ~HandlersDone,
           pc["work"] = "cnFlag" => ~(s.close_flag /\ ~s.writing),
           pc["work"] = "cnCount" => ~HandlersDone,
           ~in_handler
    PROVE  IInv'
<1> USE ServerThreads DEF IInv
<1>e. /\ pc["work"] \in {"cnFlag", "cnCount"} /\ ~in_handler
      /\ queue["work"] # <<>> /\ Head(queue["work"]).op = "fire_read"
      /\ s.close_flag => s.writing \/ s.work_read_count # 0
  BY DEF CloseIfNecessary, HandlersDone, Return, Goto, Go, WorkPlaces
<1>x. /\ pc' = [pc EXCEPT !["work"] = "idle"] /\ queue' = Pop(queue, "work")
      /\ UNCHANGED <<s, net, env, life, in_handler>>
  BY DEF CloseIfNecessary, HandlersDone, Return, Goto, Go
<1>p. OnWork("fire_read") > 0
  BY <1>e, Heads
<1>q. queue' \in Queues /\ queue'["io"] = queue["io"]
  BY <1>e, <1>x, WorkPops
<1>n. /\ OnWork("fire_read")' = OnWork("fire_read") - 1
      /\ UNCHANGED <<OnIo("read_ok"), OnIo("read_end"), OnIo("read_error"), OnIo("write_ok"),
                     OnIo("write_end"), OnIo("write_error"), OnIo("write"), OnIo("close"),
                     OnWork("append")>>
  BY <1>e, <1>x, WorkPops
<1>f. /\ s' = s /\ pc'["io"] = pc["io"] /\ pc'["work"] = "idle" /\ pc'["acc"] = pc["acc"]
      /\ net' = net /\ env' = env /\ life' = life /\ in_handler' = in_handler
  BY <1>x DEF TypeOK
<1>k. UNCHANGED <<readTerms, writeTerms>>
  BY <1>f, <1>q, <1>n
  DEF readTerms, writeTerms, ReadFlag, Starting, Reading, Starts, Reads, ReadsOut, Taken, InTask,
      Runs, ReadPassed, HandlesRead, Armed, Resuming, WriteFlag, WriteNext, WritesOut, WroteOk,
      WroteEnded
<1>bhandlers. HandlerOut = 1 /\ HandlerOut' = 0 /\ UNCHANGED Handlers
  BY <1>e, <1>f DEF Handlers, HandlerOut, Returned, Runs, If
<1>bhandles. /\ HandlerPast = 1 /\ HandlerPast' = 0
      /\ UNCHANGED <<Handles, WriteHeld, Taken("read_ok"), CloseFlag>>
  BY <1>e, <1>f, <1>q
  DEF Handles, HandlerPast, Returned, WriteHeld, Taken, InTask, CloseFlag, Runs, If
<1>bout. Appends = 0 /\ Appends' = 0 /\ UNCHANGED <<Buffered, Written>>
  BY <1>e, <1>f DEF Buffered, Appends, Written, InTask, Runs, If
<1>1. TypeOK'
  <2>1. /\ s' \in Members /\ net' \in Sockets /\ env' \in Outside /\ life' \in Lives
        /\ pc' \in [Threads -> Labels] /\ in_handler' \in BOOLEAN
    BY <1>x DEF TypeOK, Labels
  <2> QED
    BY <1>q, <2>1, TypeKept
<1>2. IoPlaces' /\ WorkPlaces' /\ AccPlaces'
  BY <1>f, <1>q DEF IoPlaces, WorkPlaces, AccPlaces
<1>3. ReadsTrue' /\ OneReader' /\ WritesTrue'
  BY <1>k, ReadsKept, WritesKept
<1>4. HandlersTrue'
  BY <1>p, <1>n, <1>bhandlers, Terms, Bits, SMTT(30) DEF HandlersTrue
<1>5. HandlesTrue'
  BY <1>p, <1>n, <1>bhandles, Terms, Bits, SMTT(30) DEF HandlesTrue, ClosingKnown, CloseFlag, If
<1>6. OutBounded'
  BY <1>p, <1>n, <1>bout, Terms, Bits, SMTT(30) DEF OutBounded
<1>7. OutFits' /\ PendingShort' /\ LifeInOrder'
  BY <1>f DEF OutFits, PendingShort, LifeInOrder
<1>8. DoneFits'
  BY <1>f, <1>q DEF DoneFits
<1>9. WriteComing'
  BY <1>f, <1>n DEF WriteComing, PendingShort
<1>10. ClosingKnown'
  BY <1>f, <1>q, <1>n DEF ClosingKnown, LifeInOrder, InTask, Runs
<1>11. WillClose'
  BY <1>e, <1>f, <1>n DEF WillClose, ClosesOn, Left
<1> QED
  BY <1>1, <1>2, <1>3, <1>4, <1>5, <1>6, <1>7, <1>8, <1>9, <1>10, <1>11

(* close_if_necessary, last in the task, cancels the operations.           *)
LEMMA CancelAtEndKeeps ==
    ASSUME ~Shared, IInv, pc["work"] = "cnCancel",
           net.sock # "closed",
           CancelAll("work"),
           UNCHANGED <<s, env, life>>,
           ~in_handler
    PROVE  IInv'
<1> USE ServerThreads DEF IInv
<1>e. /\ pc["work"] = "cnCancel" /\ ~in_handler
      /\ queue["work"] # <<>> /\ Head(queue["work"]).op = "fire_read"
  BY DEF CancelAll, Return, Goto, Go, WorkPlaces
<1>x. /\ pc' = [pc EXCEPT !["work"] = "idle"] /\ queue' = Pop(Aborted(queue), "work")
      /\ net' = [net EXCEPT !.reads = 0, !.writes = <<>>]
      /\ UNCHANGED <<s, env, life, in_handler>>
  BY DEF CancelAll, Return, Goto, Go
<1>p. OnWork("fire_read") > 0
  BY <1>e, Heads
<1>q. /\ queue' \in Queues /\ queue'["io"] = Ends(queue["io"])
      /\ queue["io"] # <<>> => queue'["io"] # <<>> /\ Head(queue'["io"]) = Head(queue["io"])
  BY <1>e, <1>x, IoAbortsWorkPops
<1>n. /\ OnIo("read_end")' = OnIo("read_end") + ReadsOut
      /\ OnIo("write_end")' = OnIo("write_end") + WritesOut
      /\ OnWork("fire_read")' = OnWork("fire_read") - 1
      /\ UNCHANGED <<OnIo("read_ok"), OnIo("read_error"), OnIo("write_ok"), OnIo("write_error"),
                     OnIo("write"), OnIo("close"), OnWork("append")>>
  BY <1>e, <1>x, IoAbortsWorkPops
<1>f. /\ s' = s /\ pc'["io"] = pc["io"] /\ pc'["work"] = "idle" /\ pc'["acc"] = pc["acc"]
      /\ net'.sock = net.sock /\ net'.reads = 0 /\ net'.writes = <<>> /\ env' = env
      /\ life' = life /\ in_handler' = in_handler
  BY <1>x DEF TypeOK, Sockets
<1>breads. /\ ReadsOut' = 0
      /\ UNCHANGED <<ReadFlag, Starting, Reading, Taken("read_ok"), Taken("read_end"), ReadPassed,
                     Armed>>
  BY <1>f, <1>q
  DEF ReadFlag, Starting, Reading, Starts, Reads, ReadsOut, Taken, InTask, Runs, ReadPassed,
      HandlesRead, Armed, Resuming, IoPlaces
<1>bwrites. WritesOut' = 0 /\ UNCHANGED <<WriteFlag, WriteNext, WroteOk, WroteEnded>>
  BY <1>f, <1>q DEF WriteFlag, WriteNext, WritesOut, WroteOk, WroteEnded, InTask, Runs, IoPlaces
<1>bhandlers. HandlerOut = 1 /\ HandlerOut' = 0 /\ UNCHANGED Handlers
  BY <1>e, <1>f DEF Handlers, HandlerOut, Returned, Runs, If
<1>bhandles. /\ HandlerPast = 1 /\ HandlerPast' = 0
      /\ UNCHANGED <<Handles, WriteHeld, Taken("read_ok"), CloseFlag>>
  BY <1>e, <1>f, <1>q
  DEF Handles, HandlerPast, Returned, WriteHeld, Taken, InTask, CloseFlag, Runs, If, IoPlaces
<1>bout. Appends = 0 /\ Appends' = 0 /\ UNCHANGED <<Buffered, Written>>
  BY <1>e, <1>f DEF Buffered, Appends, Written, InTask, Runs, If
<1>1. TypeOK'
  <2>1. 0 \in Nat /\ <<>> \in Seq(Nat)
    OBVIOUS
  <2>2. net' \in Sockets
    BY <1>x, <2>1, Zenon DEF TypeOK, Sockets
  <2>3. /\ s' \in Members /\ env' \in Outside /\ life' \in Lives /\ pc' \in [Threads -> Labels]
        /\ in_handler' \in BOOLEAN
    BY <1>x DEF TypeOK, Labels
  <2> QED
    BY <2>2, <1>q, <2>3, TypeKept
<1>2. IoPlaces' /\ WorkPlaces' /\ AccPlaces'
  BY <1>f, <1>q DEF IoPlaces, WorkPlaces, AccPlaces
<1>3. ReadsTrue'
  BY <1>p, <1>n, <1>breads, Terms, Bits, SMTT(30) DEF ReadsTrue
<1>4. OneReader'
  BY <1>p, <1>n, <1>breads, Terms, Bits, SMTT(30) DEF OneReader
<1>5. WritesTrue'
  BY <1>p, <1>n, <1>bwrites, Terms, Bits, SMTT(30) DEF WritesTrue
<1>6. HandlersTrue'
  BY <1>p, <1>n, <1>bhandlers, Terms, Bits, SMTT(30) DEF HandlersTrue
<1>7. HandlesTrue'
  BY <1>p, <1>n, <1>bhandles, Terms, Bits, SMTT(30) DEF HandlesTrue, ClosingKnown, CloseFlag, If
<1>8. OutBounded'
  BY <1>p, <1>n, <1>bout, Terms, Bits, SMTT(30) DEF OutBounded
<1>9. OutFits' /\ PendingShort' /\ LifeInOrder'
  BY <1>f DEF OutFits, PendingShort, LifeInOrder
<1>10. DoneFits'
  <2>1. queue["io"] \in Seq(Tasks)
    BY DEF TypeOK
  <2> QED
    BY <1>f, <1>q, <2>1, DoneAborted
<1>11. WriteComing'
  BY <1>f, <1>n DEF WriteComing, PendingShort
<1>12. ClosingKnown'
  BY <1>n DEF ClosingKnown, LifeInOrder
<1>13. WillClose'
  BY <1>f, <1>n DEF WillClose, ClosesOn, Left
<1> QED
  BY <1>1, <1>2, <1>3, <1>4, <1>5, <1>6, <1>7, <1>8, <1>9, <1>10, <1>11, <1>12, <1>13

(* close_if_necessary cancels the operations for a handler or the sweep.   *)
LEMMA CancelsKeeps ==
    ASSUME ~Shared, IInv, NEW th \in {"work", "acc"},
           Cancels(th)
    PROVE  IInv'
<1> USE ServerThreads DEF IInv
<1>e. /\ th = "work" => in_handler
      /\ pc[th] = "cnCancel"
  BY DEF Cancels
<1>x. /\ pc' = [pc EXCEPT ![th] = IF th = "acc" THEN "erase" ELSE "user"]
      /\ queue' = Aborted(queue) /\ net' = [net EXCEPT !.reads = 0, !.writes = <<>>]
      /\ UNCHANGED <<s, env, life, in_handler>>
  BY DEF Cancels
<1>q. /\ queue' \in Queues /\ queue'["io"] = Ends(queue["io"])
      /\ queue["io"] # <<>> => queue'["io"] # <<>> /\ Head(queue'["io"]) = Head(queue["io"])
      /\ queue'["work"] = queue["work"]
  BY <1>x, IoAborts
<1>n. /\ OnIo("read_end")' = OnIo("read_end") + ReadsOut
      /\ OnIo("write_end")' = OnIo("write_end") + WritesOut
      /\ UNCHANGED <<OnIo("read_ok"), OnIo("read_error"), OnIo("write_ok"), OnIo("write_error"),
                     OnIo("write"), OnIo("close"), OnWork("fire_read"), OnWork("append")>>
  BY <1>x, IoAborts
<1>f. /\ s' = s /\ pc'["io"] = pc["io"]
      /\ pc'["work"] = IF th = "work" THEN "user" ELSE pc["work"]
      /\ pc'["acc"] = IF th = "acc" THEN "erase" ELSE pc["acc"]
      /\ net'.sock = net.sock /\ net'.reads = 0 /\ net'.writes = <<>> /\ env' = env
      /\ life' = life /\ in_handler' = in_handler
  BY <1>x DEF TypeOK, Sockets
<1>k. UNCHANGED <<handlerTerms, handleTerms, outTerms>>
  BY <1>e, <1>f, <1>q, <1>n
  DEF handlerTerms, handleTerms, outTerms, Handlers, HandlerOut, Returned, Runs, Handles,
      HandlerPast, WriteHeld, Taken, InTask, CloseFlag, Buffered, Appends, Written, IoPlaces
<1>breads. /\ ReadsOut' = 0
      /\ UNCHANGED <<ReadFlag, Starting, Reading, Taken("read_ok"), Taken("read_end"), ReadPassed,
                     Armed>>
  BY <1>e, <1>f, <1>q
  DEF ReadFlag, Starting, Reading, Starts, Reads, ReadsOut, Taken, InTask, Runs, ReadPassed,
      HandlesRead, Armed, Resuming, IoPlaces
<1>bwrites. WritesOut' = 0 /\ UNCHANGED <<WriteFlag, WriteNext, WroteOk, WroteEnded>>
  BY <1>f, <1>q DEF WriteFlag, WriteNext, WritesOut, WroteOk, WroteEnded, InTask, Runs, IoPlaces
<1>1. TypeOK'
  <2>1. 0 \in Nat /\ <<>> \in Seq(Nat)
    OBVIOUS
  <2>2. net' \in Sockets
    BY <1>x, <2>1, Zenon DEF TypeOK, Sockets
  <2>3. /\ s' \in Members /\ env' \in Outside /\ life' \in Lives /\ pc' \in [Threads -> Labels]
        /\ in_handler' \in BOOLEAN
    BY <1>x DEF TypeOK, Labels
  <2> QED
    BY <2>2, <1>q, <2>3, TypeKept
<1>2. IoPlaces' /\ WorkPlaces' /\ AccPlaces'
  BY <1>e, <1>f, <1>q DEF IoPlaces, WorkPlaces, AccPlaces
<1>3. HandlersTrue' /\ HandlesTrue' /\ OutBounded'
  BY <1>k, HandlersKept, HandlesKept, OutKept
<1>4. ReadsTrue'
  BY <1>n, <1>breads, Terms, Bits, SMTT(30) DEF ReadsTrue
<1>5. OneReader'
  BY <1>n, <1>breads, Terms, Bits, SMTT(30) DEF OneReader
<1>6. WritesTrue'
  BY <1>n, <1>bwrites, Terms, Bits, SMTT(30) DEF WritesTrue
<1>7. OutFits' /\ PendingShort' /\ LifeInOrder'
  BY <1>e, <1>f DEF OutFits, PendingShort, LifeInOrder
<1>8. DoneFits'
  <2>1. queue["io"] \in Seq(Tasks)
    BY DEF TypeOK
  <2> QED
    BY <1>f, <1>q, <2>1, DoneAborted
<1>9. WriteComing'
  BY <1>e, <1>f, <1>n DEF WriteComing, PendingShort
<1>10. ClosingKnown'
  BY <1>e, <1>f, <1>n DEF ClosingKnown, LifeInOrder
<1>11. WillClose'
  BY <1>e, <1>f, <1>n DEF WillClose, ClosesOn, Left
<1> QED
  BY <1>1, <1>2, <1>3, <1>4, <1>5, <1>6, <1>7, <1>8, <1>9, <1>10, <1>11

(* The sweep moves an idle session from one map of the server to the       *)
(* other.                                                                  *)
LEMMA EraseKeeps ==
    ASSUME ~Shared, IInv, Erase
    PROVE  IInv'
<1> USE ServerThreads DEF IInv
<1>e. pc["acc"] = "erase" /\ life.where = "session_map"
  BY DEF Erase, Goto, Go, AccPlaces
<1>x. /\ pc' = [pc EXCEPT !["acc"] = "idle"] /\ life' = [life EXCEPT !.where = "wait_remove"]
      /\ queue' = queue /\ UNCHANGED <<s, net, env, in_handler>>
  BY DEF Erase, Goto, Go
<1>f. /\ s' = s /\ pc'["io"] = pc["io"] /\ pc'["work"] = pc["work"] /\ pc'["acc"] = "idle"
      /\ net' = net /\ env' = env /\ life'.where = "wait_remove" /\ life'.fired = life.fired
      /\ life'.crashed = life.crashed /\ life'.passed = life.passed
      /\ in_handler' = in_handler /\ queue' = queue
  BY <1>x DEF TypeOK, Lives
<1>k. UNCHANGED <<readTerms, writeTerms, handlerTerms, handleTerms, outTerms>>
  BY <1>e, <1>f
  DEF readTerms, writeTerms, handlerTerms, handleTerms, outTerms, ReadFlag, Starting, Reading,
      Starts, Reads, ReadsOut, Taken, InTask, Runs, ReadPassed, HandlesRead, Armed, Resuming,
      WriteFlag, WriteNext, WritesOut, WroteOk, WroteEnded, Handlers, HandlerOut, Returned, Handles,
      HandlerPast, WriteHeld, CloseFlag, Buffered, Appends, Written, OnIo, OnWork
<1>1. TypeOK'
  <2>1. "wait_remove" \in {"session_map", "wait_remove", "none", "client"}
    OBVIOUS
  <2>2. life' \in Lives
    BY <1>x, <2>1, Zenon DEF TypeOK, Lives
  <2>3. /\ s' \in Members /\ net' \in Sockets /\ env' \in Outside /\ queue' \in Queues
        /\ pc' \in [Threads -> Labels] /\ in_handler' \in BOOLEAN
    BY <1>x DEF TypeOK, Queues, Labels
  <2> QED
    BY <2>2, <2>3, TypeKept
<1>2. IoPlaces' /\ WorkPlaces' /\ AccPlaces'
  BY <1>f DEF IoPlaces, WorkPlaces, AccPlaces
<1>3. ReadsTrue' /\ OneReader' /\ WritesTrue' /\ HandlersTrue' /\ HandlesTrue' /\ OutBounded'
  BY <1>k, ReadsKept, WritesKept, HandlersKept, HandlesKept, OutKept
<1>4. OutFits' /\ PendingShort' /\ LifeInOrder'
  BY <1>e, <1>f DEF OutFits, PendingShort, LifeInOrder
<1>5. DoneFits'
  BY <1>f DEF DoneFits
<1>6. WriteComing'
  BY <1>f DEF WriteComing, PendingShort, OnIo
<1>7. ClosingKnown'
  BY <1>f DEF ClosingKnown, LifeInOrder, InTask, Runs, OnIo
<1>8. WillClose'
  BY <1>e, <1>f DEF WillClose, ClosesOn, Left, OnIo
<1> QED
  BY <1>1, <1>2, <1>3, <1>4, <1>5, <1>6, <1>7, <1>8

(* A read completes, ends or fails.                                        *)
LEMMA ReadLeavesKeeps ==
    ASSUME ~Shared, IInv, NEW op \in {"read_ok", "read_end", "read_error"},
           NEW n \in 0..MaxIn,
           ReadLeaves(op, n)
    PROVE  IInv'
<1> USE ServerThreads DEF IInv
<1>e. net.reads > 0
  BY DEF ReadLeaves, Completes, Go
<1>x. /\ pc' = pc /\ net' = [net EXCEPT !.reads = net.reads - 1]
      /\ \E m \in Nat : env' = [env EXCEPT !.received = m]
      /\ queue' = Post(queue, "io", Task(op, n)) /\ UNCHANGED <<s, life, in_handler>>
  BY DEF ReadLeaves, Completes, Go, TypeOK
<1>q. /\ queue' \in Queues /\ queue'["io"] = Append(queue["io"], Task(op, n))
      /\ queue["io"] # <<>> => queue'["io"] # <<>> /\ Head(queue'["io"]) = Head(queue["io"])
      /\ queue'["work"] = queue["work"]
  BY <1>x, IoPosts DEF Ops
<1>n. /\ OnIo("read_ok")' = IF op = "read_ok" THEN OnIo("read_ok") + 1 ELSE OnIo("read_ok")
      /\ OnIo("read_end")' = IF op = "read_end" THEN OnIo("read_end") + 1 ELSE OnIo("read_end")
      /\ OnIo("read_error")' = IF op = "read_error"
                               THEN OnIo("read_error") + 1 ELSE OnIo("read_error")
      /\ UNCHANGED <<OnIo("write_ok"), OnIo("write_end"), OnIo("write_error"), OnIo("write"),
                     OnIo("close"), OnWork("fire_read"), OnWork("append")>>
  BY <1>x, IoPosts DEF Ops
<1>f. /\ s' = s /\ pc'["io"] = pc["io"] /\ pc'["work"] = pc["work"] /\ pc'["acc"] = pc["acc"]
      /\ net'.sock = net.sock /\ net'.reads = net.reads - 1 /\ net'.writes = net.writes
      /\ env'.written = env.written /\ life' = life /\ in_handler' = in_handler
  BY <1>x DEF Sockets, Outside
<1>k. UNCHANGED <<writeTerms, handlerTerms, handleTerms, outTerms>>
  BY <1>f, <1>q, <1>n
  DEF writeTerms, handlerTerms, handleTerms, outTerms, WriteFlag, WriteNext, WritesOut, WroteOk,
      WroteEnded, InTask, Runs, Handlers, HandlerOut, Returned, Handles, HandlerPast, WriteHeld,
      Taken, CloseFlag, Buffered, Appends, Written, IoPlaces
<1>breads. /\ ReadsOut' = ReadsOut - 1
      /\ UNCHANGED <<ReadFlag, Starting, Reading, Taken("read_ok"), Taken("read_end"), ReadPassed,
                     Armed>>
  BY <1>f, <1>q, AppendProperties, HeadTailProperties
  DEF ReadFlag, Starting, Reading, Starts, Reads, ReadsOut, Taken, InTask, Runs, ReadPassed,
      HandlesRead, Armed, Resuming, IoPlaces
<1>1. TypeOK'
  <2>1. net.reads - 1 \in Nat
    BY <1>e, Fields
  <2>2. net' \in Sockets
    BY <1>x, <2>1, Zenon DEF TypeOK, Sockets
  <2>3. env' \in Outside
    <3> PICK m \in Nat : env' = [env EXCEPT !.received = m]
      BY <1>x
    <3> QED
      BY Zenon DEF TypeOK, Outside
  <2>4. /\ s' \in Members /\ life' \in Lives /\ pc' \in [Threads -> Labels]
        /\ in_handler' \in BOOLEAN
    BY <1>x DEF TypeOK
  <2> QED
    BY <2>2, <2>3, <1>q, <2>4, TypeKept
<1>2. IoPlaces' /\ WorkPlaces' /\ AccPlaces'
  BY <1>f, <1>q DEF IoPlaces, WorkPlaces, AccPlaces
<1>3. WritesTrue' /\ HandlersTrue' /\ HandlesTrue' /\ OutBounded'
  BY <1>k, WritesKept, HandlersKept, HandlesKept, OutKept
<1>4. ReadsTrue'
  BY <1>n, <1>breads, Terms, Bits, SMTT(30) DEF ReadsTrue
<1>5. OneReader'
  BY <1>n, <1>breads, Terms, Bits, SMTT(30) DEF OneReader
<1>6. OutFits' /\ PendingShort' /\ LifeInOrder'
  BY <1>f DEF OutFits, PendingShort, LifeInOrder
<1>7. DoneFits'
  <2>1. queue["io"] \in Seq(Tasks)
    BY DEF TypeOK
  <2>2. Task(op, n) \in Tasks /\ Task(op, n).op = op /\ Task(op, n).n = n
    BY DEF Task, Tasks, Ops
  <2> QED
    BY <1>f, <1>q, <2>1, <2>2, DonePosted
<1>8. WriteComing'
  BY <1>f, <1>n DEF WriteComing, PendingShort
<1>9. ClosingKnown'
  BY <1>f, <1>q, <1>n DEF ClosingKnown, LifeInOrder, InTask, Runs, IoPlaces
<1>10. WillClose'
  BY <1>f, <1>n DEF WillClose, ClosesOn, Left
<1> QED
  BY <1>1, <1>2, <1>3, <1>4, <1>5, <1>6, <1>7, <1>8, <1>9, <1>10

(* A write completes or fails.                                             *)
LEMMA WriteLeavesKeeps ==
    ASSUME ~Shared, IInv, NEW op \in {"write_ok", "write_error"},
           NEW n \in 0..Head(net.writes),
           WriteLeaves(op, n)
    PROVE  IInv'
<1> USE ServerThreads DEF IInv
<1>e. net.writes # <<>>
  BY DEF WriteLeaves, Completes, Go
<1>x. /\ pc' = pc /\ net' = [net EXCEPT !.writes = Tail(net.writes)]
      /\ queue' = Post(queue, "io", Task(op, n)) /\ UNCHANGED <<s, env, life, in_handler>>
  BY DEF WriteLeaves, Completes, Go, TypeOK
<1>m. n \in Nat /\ n <= s.wbuf
  <2>1. net.writes \in Seq(Nat) /\ s.wbuf \in Nat
    BY Fields
  <2>2. Head(net.writes) \in Nat /\ Head(net.writes) = net.writes[1] /\ 1 \in 1..Len(net.writes)
    BY <1>e, <2>1
  <2> QED
    BY <2>1, <2>2 DEF OutFits
<1>q. /\ queue' \in Queues /\ queue'["io"] = Append(queue["io"], Task(op, n))
      /\ queue["io"] # <<>> => queue'["io"] # <<>> /\ Head(queue'["io"]) = Head(queue["io"])
      /\ queue'["work"] = queue["work"]
  BY <1>x, IoPosts DEF Ops
<1>n. /\ OnIo("write_ok")' = IF op = "write_ok" THEN OnIo("write_ok") + 1 ELSE OnIo("write_ok")
      /\ OnIo("write_error")' = IF op = "write_error"
                                THEN OnIo("write_error") + 1 ELSE OnIo("write_error")
      /\ UNCHANGED <<OnIo("read_ok"), OnIo("read_end"), OnIo("read_error"), OnIo("write_end"),
                     OnIo("write"), OnIo("close"), OnWork("fire_read"), OnWork("append")>>
  BY <1>x, IoPosts DEF Ops
<1>f. /\ s' = s /\ pc'["io"] = pc["io"] /\ pc'["work"] = pc["work"] /\ pc'["acc"] = pc["acc"]
      /\ net'.sock = net.sock /\ net'.reads = net.reads /\ net'.writes = Tail(net.writes)
      /\ env' = env /\ life' = life /\ in_handler' = in_handler
  BY <1>x DEF Sockets
<1>k. UNCHANGED <<readTerms, handlerTerms, handleTerms, outTerms>>
  BY <1>f, <1>q, <1>n
  DEF readTerms, handlerTerms, handleTerms, outTerms, ReadFlag, Starting, Reading, Starts, Reads,
      ReadsOut, Taken, InTask, Runs, ReadPassed, HandlesRead, Armed, Resuming, Handlers, HandlerOut,
      Returned, Handles, HandlerPast, WriteHeld, CloseFlag, Buffered, Appends, Written, IoPlaces
<1>bwrites. WritesOut' = WritesOut - 1 /\ UNCHANGED <<WriteFlag, WriteNext, WroteOk, WroteEnded>>
  <2>1. Len(Tail(net.writes)) = Len(net.writes) - 1
    BY <1>e
  <2>2. WritesOut' = WritesOut - 1
    BY <1>f, <2>1 DEF WritesOut
  <2>3. UNCHANGED <<WriteFlag, WriteNext, WroteOk, WroteEnded>>
    BY <1>f, <1>q DEF WriteFlag, WriteNext, WroteOk, WroteEnded, InTask, Runs, IoPlaces
  <2> QED
    BY <2>2, <2>3
<1>1. TypeOK'
  <2>1. Tail(net.writes) \in Seq(Nat)
    BY <1>e, Fields
  <2>2. net' \in Sockets
    BY <1>x, <2>1, Zenon DEF TypeOK, Sockets
  <2>3. /\ s' \in Members /\ env' \in Outside /\ life' \in Lives /\ pc' \in [Threads -> Labels]
        /\ in_handler' \in BOOLEAN
    BY <1>x DEF TypeOK
  <2> QED
    BY <2>2, <1>q, <2>3, TypeKept
<1>2. IoPlaces' /\ WorkPlaces' /\ AccPlaces'
  BY <1>f, <1>q DEF IoPlaces, WorkPlaces, AccPlaces
<1>3. ReadsTrue' /\ OneReader' /\ HandlersTrue' /\ HandlesTrue' /\ OutBounded'
  BY <1>k, ReadsKept, HandlersKept, HandlesKept, OutKept
<1>4. WritesTrue'
  <2>1. WritesOut >= 1
    BY <1>e DEF WritesOut
  <2> QED
    BY <1>n, <1>bwrites, <2>1, Terms, Bits, SMTT(30) DEF WritesTrue
<1>5. PendingShort' /\ LifeInOrder'
  BY <1>f DEF PendingShort, LifeInOrder
<1>6. OutFits'
  <2>1. /\ Len(net.writes) \in Nat /\ Len(Tail(net.writes)) = Len(net.writes) - 1
        /\ \A i \in 1..Len(Tail(net.writes)) : Tail(net.writes)[i] = net.writes[i + 1]
    BY <1>e
  <2>2. \A i \in 1..Len(Tail(net.writes)) : i + 1 \in 1..Len(net.writes)
    BY <2>1
  <2> QED
    BY <1>f, <2>1, <2>2 DEF OutFits
<1>7. DoneFits'
  <2>1. queue["io"] \in Seq(Tasks)
    BY DEF TypeOK
  <2>2. Task(op, n) \in Tasks /\ Task(op, n).op = op /\ Task(op, n).n = n
    BY DEF Task, Tasks, Ops
  <2> QED
    BY <1>f, <1>q, <1>m, <2>1, <2>2, DonePosted
<1>8. WriteComing'
  BY <1>f, <1>n DEF WriteComing, PendingShort
<1>9. ClosingKnown'
  BY <1>f, <1>q, <1>n DEF ClosingKnown, LifeInOrder, InTask, Runs, IoPlaces
<1>10. WillClose'
  BY <1>f, <1>n DEF WillClose, ClosesOn, Left
<1> QED
  BY <1>1, <1>2, <1>3, <1>4, <1>5, <1>6, <1>7, <1>8, <1>9, <1>10

(* The peer closes or resets the connection.                               *)
LEMMA PeerClosesKeeps ==
    ASSUME ~Shared, IInv, PeerCloses
    PROVE  IInv'
<1> USE ServerThreads DEF IInv
<1>x. /\ pc' = pc
      /\ \E p \in {"fin", "reset"} : env' = [env EXCEPT !.peer = p]
      /\ queue' = queue /\ UNCHANGED <<s, net, life, in_handler>>
  BY DEF PeerCloses
<1>f. /\ s' = s /\ pc'["io"] = pc["io"] /\ pc'["work"] = pc["work"] /\ pc'["acc"] = pc["acc"]
      /\ net' = net /\ env'.received = env.received /\ env'.written = env.written
      /\ life' = life /\ in_handler' = in_handler /\ queue' = queue
  BY <1>x DEF Outside
<1>k. UNCHANGED <<readTerms, writeTerms, handlerTerms, handleTerms, outTerms>>
  BY <1>f
  DEF readTerms, writeTerms, handlerTerms, handleTerms, outTerms, ReadFlag, Starting, Reading,
      Starts, Reads, ReadsOut, Taken, InTask, Runs, ReadPassed, HandlesRead, Armed, Resuming,
      WriteFlag, WriteNext, WritesOut, WroteOk, WroteEnded, Handlers, HandlerOut, Returned, Handles,
      HandlerPast, WriteHeld, CloseFlag, Buffered, Appends, Written, OnIo, OnWork
<1>1. TypeOK'
  <2>1. /\ s' \in Members /\ net' \in Sockets /\ env' \in Outside /\ life' \in Lives
        /\ queue' \in Queues /\ pc' \in [Threads -> Labels] /\ in_handler' \in BOOLEAN
    BY <1>x DEF TypeOK, Queues, Outside
  <2> QED
    BY <2>1, TypeKept
<1>2. IoPlaces' /\ WorkPlaces' /\ AccPlaces'
  BY <1>f DEF IoPlaces, WorkPlaces, AccPlaces
<1>3. ReadsTrue' /\ OneReader' /\ WritesTrue' /\ HandlersTrue' /\ HandlesTrue' /\ OutBounded'
  BY <1>k, ReadsKept, WritesKept, HandlersKept, HandlesKept, OutKept
<1>4. OutFits' /\ PendingShort' /\ LifeInOrder'
  BY <1>f DEF OutFits, PendingShort, LifeInOrder
<1>5. DoneFits'
  BY <1>f DEF DoneFits
<1>6. WriteComing'
  BY <1>f DEF WriteComing, PendingShort, OnIo
<1>7. ClosingKnown'
  BY <1>f DEF ClosingKnown, LifeInOrder, InTask, Runs, OnIo
<1>8. WillClose'
  BY <1>f DEF WillClose, ClosesOn, Left, OnIo
<1> QED
  BY <1>1, <1>2, <1>3, <1>4, <1>5, <1>6, <1>7, <1>8

(* session::write from a thread of the user.                               *)
LEMMA WritePostsKeeps ==
    ASSUME ~Shared, IInv, WritePosts
    PROVE  IInv'
<1> USE ServerThreads DEF IInv
<1>e. env.written < MaxOut
  BY DEF WritePosts, Go, Work
<1>x. /\ pc' = pc /\ env' = [env EXCEPT !.written = env.written + 1]
      /\ queue' = Post(queue, "work", Task("append", 1))
      /\ UNCHANGED <<s, net, life, in_handler>>
  BY DEF WritePosts, Go, TypeOK, Work
<1>q. /\ queue' \in Queues
      /\ queue["work"] # <<>> => queue'["work"] # <<>> /\ Head(queue'["work"]) = Head(queue["work"])
      /\ queue'["io"] = queue["io"]
  BY <1>x, WorkPosts DEF Ops
<1>n. /\ OnWork("append")' = OnWork("append") + 1
      /\ UNCHANGED <<OnIo("read_ok"), OnIo("read_end"), OnIo("read_error"), OnIo("write_ok"),
                     OnIo("write_end"), OnIo("write_error"), OnIo("write"), OnIo("close"),
                     OnWork("fire_read")>>
  BY <1>x, WorkPosts DEF Ops
<1>f. /\ s' = s /\ pc'["io"] = pc["io"] /\ pc'["work"] = pc["work"] /\ pc'["acc"] = pc["acc"]
      /\ net' = net /\ env'.received = env.received /\ env'.written = env.written + 1
      /\ life' = life /\ in_handler' = in_handler
  BY <1>x DEF Outside
<1>k. UNCHANGED <<readTerms, writeTerms, handlerTerms, handleTerms>>
  BY <1>f, <1>q, <1>n
  DEF readTerms, writeTerms, handlerTerms, handleTerms, ReadFlag, Starting, Reading, Starts, Reads,
      ReadsOut, Taken, InTask, Runs, ReadPassed, HandlesRead, Armed, Resuming, WriteFlag,
      WriteNext, WritesOut, WroteOk, WroteEnded, Handlers, HandlerOut, Returned, Handles,
      HandlerPast, WriteHeld, CloseFlag, WorkPlaces
<1>bout. Written' = Written + 1 /\ UNCHANGED <<Buffered, Appends>>
  BY <1>f, <1>q DEF Buffered, Appends, Written, InTask, Runs, WorkPlaces
<1>1. TypeOK'
  <2>1. env.written + 1 \in Nat
    BY Fields
  <2>2. env' \in Outside
    BY <1>x, <2>1, Zenon DEF TypeOK, Outside
  <2>3. /\ s' \in Members /\ net' \in Sockets /\ life' \in Lives /\ pc' \in [Threads -> Labels]
        /\ in_handler' \in BOOLEAN
    BY <1>x DEF TypeOK
  <2> QED
    BY <2>2, <1>q, <2>3, TypeKept
<1>2. IoPlaces' /\ WorkPlaces' /\ AccPlaces'
  BY <1>f, <1>q DEF IoPlaces, WorkPlaces, AccPlaces
<1>3. ReadsTrue' /\ OneReader' /\ WritesTrue' /\ HandlersTrue' /\ HandlesTrue'
  BY <1>k, ReadsKept, WritesKept, HandlersKept, HandlesKept
<1>4. OutBounded'
  <2>1. Written < MaxOut /\ MaxOut \in Nat
    BY <1>e, SessionAssumption DEF Written
  <2> QED
    BY <1>n, <1>bout, <2>1, Terms, Bits, SMTT(30) DEF OutBounded
<1>5. OutFits' /\ PendingShort' /\ LifeInOrder'
  BY <1>f DEF OutFits, PendingShort, LifeInOrder
<1>6. DoneFits'
  BY <1>f, <1>q DEF DoneFits
<1>7. WriteComing'
  BY <1>f, <1>n DEF WriteComing, PendingShort
<1>8. ClosingKnown'
  BY <1>f, <1>q, <1>n DEF ClosingKnown, LifeInOrder, InTask, Runs
<1>9. WillClose'
  BY <1>f, <1>n DEF WillClose, ClosesOn, Left
<1> QED
  BY <1>1, <1>2, <1>3, <1>4, <1>5, <1>6, <1>7, <1>8, <1>9

(* A thread goes on to its next place: the tests of close_if_necessary     *)
(* and of the notification, and what only the read buffer knows of.        *)
LEMMA MovesKeep ==
    ASSUME ~Shared, IInv, NEW th \in Threads, NEW l, NEW m, Moves(th, l, m), MovesTo(th, m)
    PROVE  IInv'
<1> USE ServerThreads DEF IInv
<1>e. pc[th] = l
  BY DEF Moves
<1>f. /\ s'.reading = s.reading /\ s'.writing = s.writing /\ s'.close_flag = s.close_flag
      /\ s'.work_read_count = s.work_read_count /\ s'.handle_count = s.handle_count
      /\ s'.pending = s.pending /\ s'.wbuf = s.wbuf /\ s'.high_water = s.high_water
      /\ pc'["io"] = IF th = "io" THEN m ELSE pc["io"]
      /\ pc'["work"] = IF th = "work" THEN m ELSE pc["work"]
      /\ pc'["acc"] = IF th = "acc" THEN m ELSE pc["acc"]
      /\ net' = net /\ env' = env /\ life' = life /\ in_handler' = in_handler /\ queue' = queue
  BY DEF MovesTo, TypeOK
<1>k. UNCHANGED <<readTerms, writeTerms, handlerTerms, handleTerms, outTerms>>
  <2>1. UNCHANGED readTerms
    BY <1>f
    DEF Moves, readTerms, ReadFlag, Starting, Reading, Starts, Reads, ReadsOut, OnIo, Taken, InTask,
        Runs, ReadPassed, HandlesRead, Armed, Resuming
  <2>2. UNCHANGED <<writeTerms, handlerTerms>>
    BY <1>f
    DEF Moves, writeTerms, WriteFlag, WriteNext, WritesOut, WroteOk, WroteEnded, OnIo,
        handlerTerms, Handlers, HandlerOut, Returned, OnWork, InTask, Runs
  <2>3. UNCHANGED <<handleTerms, outTerms>>
    BY <1>f
    DEF Moves, handleTerms, Handles, HandlerPast, Returned, WriteHeld, CloseFlag, outTerms,
        Buffered, Appends, Written, Taken, OnWork, InTask, Runs
  <2> QED
    BY <2>1, <2>2, <2>3
<1>1. TypeOK'
  <2>1. pc' \in [Threads -> Labels]
    BY DEF MovesTo, Moves, TypeOK, Labels
  <2> QED
    BY <2>1, TypeKept DEF MovesTo, TypeOK, Queues
<1>2. IoPlaces' /\ WorkPlaces' /\ AccPlaces'
  BY <1>f DEF Moves, IoPlaces, WorkPlaces, AccPlaces
<1>3. ReadsTrue' /\ OneReader' /\ WritesTrue' /\ HandlersTrue' /\ HandlesTrue' /\ OutBounded'
  BY <1>k, ReadsKept, WritesKept, HandlersKept, HandlesKept, OutKept
<1>4. OutFits' /\ PendingShort' /\ LifeInOrder'
  BY <1>f DEF Moves, OutFits, PendingShort, LifeInOrder
<1>5. DoneFits'
  BY <1>f DEF Moves, DoneFits
<1>6. WriteComing'
  <2>1. CASE pc["io"] = "pendingTest" /\ th = "io" /\ m = "flagTest"
    <3>1. s.pending = 0
      BY <2>1 DEF Moves
    <3>2. pc["work"] = "pend" \/ ~(s.wbuf > 0)
      BY <3>1, PendingFacts
    <3> QED
      BY <1>f, <2>1, <3>2 DEF WriteComing
  <2>2. CASE ~(pc["io"] = "pendingTest" /\ th = "io" /\ m = "flagTest")
    BY <1>f, <2>2 DEF Moves, WriteComing, OnIo
  <2> QED
    BY <2>1, <2>2
<1>7. ClosingKnown'
  BY <1>f DEF Moves, ClosingKnown, InTask, Runs, OnIo
<1>8. WillClose'
  BY <1>f DEF Moves, WillClose, ClosesOn, Left, OnIo
<1> QED
  BY <1>1, <1>2, <1>3, <1>4, <1>5, <1>6, <1>7, <1>8

(* The process ends: by an exception nobody catches, by LOGF(FATAL), or by *)
(* a task that meets the session destroyed.  Only life.crashed changes.    *)
LEMMA CrashKeeps ==
    ASSUME ~Shared, IInv, NEW how \in {"throw", "fatal", "use after free"}, Crash(how)
    PROVE  IInv'
<1> USE ServerThreads DEF IInv
<1>x. life' = [life EXCEPT !.crashed = how] /\ UNCHANGED <<s, net, env, queue, pc, in_handler>>
  BY DEF Crash
<1>f. /\ life'.where = life.where /\ life'.fired = life.fired /\ life'.crashed # "no"
      /\ s' = s /\ net' = net /\ env' = env /\ queue' = queue /\ pc' = pc
      /\ in_handler' = in_handler
  BY <1>x DEF TypeOK, Lives
<1>k. UNCHANGED <<readTerms, writeTerms, handlerTerms, handleTerms, outTerms>>
  BY <1>f
  DEF readTerms, ReadFlag, Starting, Reading, Starts, Reads, ReadsOut, OnIo, Taken, InTask, Runs,
      ReadPassed, HandlesRead, Armed, Resuming, writeTerms, WriteFlag, WriteNext, WritesOut,
      WroteOk, WroteEnded, handlerTerms, Handlers, OnWork, HandlerOut, Returned, handleTerms,
      Handles, HandlerPast, WriteHeld, CloseFlag, outTerms, Buffered, Appends, Written
<1>1. TypeOK'
  <2>1. life' \in Lives
    BY <1>x, Zenon DEF TypeOK, Lives
  <2> QED
    BY <1>f, <2>1 DEF TypeOK
<1>2. IoPlaces' /\ WorkPlaces' /\ AccPlaces'
  <2>1. IoPlaces'
    BY <1>f DEF IoPlaces
  <2>2. WorkPlaces'
    BY <1>f DEF WorkPlaces
  <2>3. AccPlaces'
    BY <1>f DEF AccPlaces
  <2> QED
    BY <2>1, <2>2, <2>3
<1>3. ReadsTrue' /\ OneReader' /\ WritesTrue' /\ HandlersTrue' /\ HandlesTrue' /\ OutBounded'
  BY <1>k, ReadsKept, WritesKept, HandlersKept, HandlesKept, OutKept
<1>4. OutFits' /\ DoneFits' /\ PendingShort' /\ LifeInOrder'
  BY <1>f DEF OutFits, DoneFits, PendingShort, LifeInOrder
<1>5. WriteComing' /\ ClosingKnown'
  BY <1>f DEF WriteComing, ClosingKnown, OnIo, InTask, Runs
<1>6. WillClose'
  BY <1>f DEF WillClose
<1> QED
  BY <1>1, <1>2, <1>3, <1>4, <1>5, <1>6

(* A step that changes nothing. *)
LEMMA StutterKeeps == ASSUME ~Shared, IInv, UNCHANGED vars PROVE IInv'
<1> USE ServerThreads DEF IInv, vars
<1>1. TypeOK' /\ IoPlaces' /\ WorkPlaces' /\ AccPlaces'
  BY DEF TypeOK, IoPlaces, WorkPlaces, AccPlaces
<1>2. UNCHANGED <<readTerms, writeTerms, handlerTerms, handleTerms, outTerms>>
  BY DEF readTerms, ReadFlag, Starting, Reading, Starts, Reads, ReadsOut, OnIo, Taken, InTask, Runs,
         ReadPassed, HandlesRead, Armed, Resuming, writeTerms, WriteFlag, WriteNext, WritesOut,
         WroteOk, WroteEnded, handlerTerms, Handlers, OnWork, HandlerOut, Returned, handleTerms,
         Handles, HandlerPast, WriteHeld, CloseFlag, outTerms, Buffered, Appends, Written
<1>3. ReadsTrue' /\ OneReader' /\ WritesTrue' /\ HandlersTrue' /\ HandlesTrue' /\ OutBounded'
  BY <1>2, ReadsKept, WritesKept, HandlersKept, HandlesKept, OutKept
<1>4. OutFits' /\ DoneFits' /\ PendingShort' /\ LifeInOrder' /\ WriteComing'
  BY DEF OutFits, DoneFits, PendingShort, LifeInOrder, WriteComing, OnIo
<1>5. ClosingKnown' /\ WillClose'
  BY DEF ClosingKnown, OnIo, InTask, Runs, WillClose, ClosesOn, Left
<1> QED
  BY <1>1, <1>3, <1>4, <1>5

(* The invariant holds when server::handle_accept starts the session.      *)
LEMMA InitInv == ASSUME ~Shared, Init PROVE IInv
<1> USE ServerThreads
<1>1. PICK g \in {0, 1} \cap 0..MaxOut :
        /\ s = Greeted(NewSession, g)
        /\ net = [sock |-> "open", reads |-> 0, writes |-> <<>>]
        /\ env = [peer |-> "open", received |-> 0, written |-> g]
        /\ queue = [th \in Runners |->
                      IF th = "io" THEN Repeat(Task("write", 0), g) ELSE <<>>]
        /\ pc = [th \in Threads |-> IF th = "acc" THEN "readSet" ELSE "idle"]
        /\ in_handler = FALSE
        /\ life = [where |-> "session_map", fired |-> 0, passed |-> FALSE,
                 crashed |-> "no"]
  BY DEF Init
<1>2. g \in {0, 1} /\ g \in Nat /\ g <= MaxOut /\ MaxOut \in Nat /\ SizeMod \in Nat /\ SizeMod > 2
  BY SessionAssumption
<1>3. /\ s.reading = FALSE /\ s.writing = FALSE /\ s.close_flag = FALSE
      /\ s.work_read_count = 0 /\ s.handle_count = 0 /\ s.pending = g /\ s.wbuf = g
      /\ s.high_water = 0 /\ s.rbuf = 0 /\ s.notify = FALSE
      /\ s = [reading |-> FALSE, writing |-> FALSE, close_flag |-> FALSE,
              work_read_count |-> 0, handle_count |-> 0, pending |-> g,
              rbuf |-> 0, wbuf |-> g, notify |-> FALSE, high_water |-> 0]
  <2>1. 0 + g = g
    BY <1>2
  <2>2. s = [NewSession EXCEPT !.pending = 0 + g, !.wbuf = 0 + g]
    BY <1>1 DEF Greeted, NewSession
  <2> QED
    BY <2>1, <2>2 DEF NewSession
<1>4. /\ net.sock = "open" /\ net.reads = 0 /\ net.writes = <<>> /\ env.written = g
      /\ pc["io"] = "idle" /\ pc["work"] = "idle" /\ pc["acc"] = "readSet"
      /\ ~in_handler /\ life.where = "session_map" /\ life.fired = 0
  BY <1>1
<1>5. queue["io"] = Repeat(Task("write", 0), g) /\ queue["work"] = <<>>
  BY <1>1
<1>6. Task("write", 0) \in Tasks /\ Task("write", 0).op = "write"
  BY DEF Task, Tasks, Ops
<1>7. /\ Repeat(Task("write", 0), g) \in Seq(Tasks) /\ Len(Repeat(Task("write", 0), g)) = g
      /\ \A i \in 1..g : Repeat(Task("write", 0), g)[i] = Task("write", 0)
  BY <1>2, <1>6 DEF Repeat
<1>8. TypeOK
  <2>1. s \in Members
    BY <1>2, <1>3 DEF Members
  <2>2. net \in Sockets /\ env \in Outside /\ life \in Lives
    <3>1. <<>> \in Seq(Nat)
      OBVIOUS
    <3> QED
      BY <1>1, <1>2, <3>1 DEF Sockets, Outside, Lives
  <2>3. queue \in [Runners -> Seq(Tasks)]
    BY <1>1, <1>7
  <2>4. pc \in [Threads -> Labels]
    BY <1>1 DEF Labels
  <2> QED
    BY <1>1, <2>1, <2>2, <2>3, <2>4 DEF TypeOK
<1>9. /\ OnIo("read_ok") = 0 /\ OnIo("read_end") = 0 /\ OnIo("read_error") = 0
      /\ OnIo("write_ok") = 0 /\ OnIo("write_end") = 0 /\ OnIo("write_error") = 0
      /\ OnIo("close") = 0
      /\ OnIo("write") = g /\ OnWork("fire_read") = 0 /\ OnWork("append") = 0
  <2>1. ASSUME NEW op \in Ops
        PROVE  Num(Repeat(Task("write", 0), g), op) = IF op = "write" THEN g ELSE 0
    <3> DEFINE r == Repeat(Task("write", 0), g)
    <3>1. /\ {i \in DOMAIN r : r[i].op = op} = IF op = "write" THEN 1..g ELSE {}
          /\ 0 \in Int /\ g \in Int /\ 1 \in Int
      BY <1>2, <1>6 DEF Repeat
    <3>2. Cardinality({}) = 0 /\ Cardinality(1..g) = IF 1 > g THEN 0 ELSE g - 1 + 1
      BY <1>2, <3>1, FS_EmptySet, FS_Interval
    <3>3. Num(r, op) = Cardinality(IF op = "write" THEN 1..g ELSE {})
      BY <3>1 DEF Num
    <3>4. Cardinality(1..g) = g
      BY <1>2, <3>2
    <3> QED
      BY <3>2, <3>3, <3>4
  <2>2. \A op \in Ops : Num(<<>>, op) = 0
    BY NumEmpty
  <2> QED
    BY <1>5, <2>1, <2>2 DEF OnIo, OnWork, Ops
<1>10. /\ ReadFlag = 0 /\ Starting = 0 /\ Reading = 1 /\ ReadsOut = 0 /\ Taken("read_ok") = 0
       /\ Taken("read_end") = 0 /\ ReadPassed = 0 /\ Armed = 0
       /\ WriteFlag = 0 /\ WriteNext = 0 /\ WritesOut = 0 /\ WroteOk = 0 /\ WroteEnded = 0
       /\ Handlers = 0 /\ HandlerOut = 0 /\ Handles = 0 /\ HandlerPast = 0 /\ WriteHeld = 0
       /\ Buffered = g /\ Appends = 0 /\ Written = g
  BY <1>3, <1>4
  DEF ReadFlag, Starting, Reading, Starts, Reads, ReadsOut, Taken, InTask, ReadPassed, Armed, If,
      WriteFlag, WriteNext, WritesOut, WroteOk, WroteEnded, Handlers, HandlerOut, Returned, Handles,
      HandlerPast, WriteHeld, Buffered, Appends, Written
<1>11. ReadsTrue /\ OneReader /\ WritesTrue /\ HandlersTrue /\ HandlesTrue /\ OutBounded
  BY <1>2, <1>9, <1>10 DEF ReadsTrue, OneReader, WritesTrue, HandlersTrue, HandlesTrue, OutBounded
<1>12. IoPlaces /\ WorkPlaces /\ AccPlaces
  BY <1>4 DEF IoPlaces, WorkPlaces, AccPlaces
<1>13. OutFits /\ PendingShort /\ LifeInOrder
  BY <1>3, <1>4 DEF OutFits, PendingShort, LifeInOrder
<1>14. DoneFits
  BY <1>5, <1>6, <1>7 DEF DoneFits
<1>15. WriteComing
  BY <1>2, <1>3, <1>9 DEF WriteComing
<1>16. ClosingKnown
  BY <1>4, <1>9 DEF ClosingKnown, InTask
<1>17. WillClose
  BY <1>3 DEF WillClose
<1> QED
  BY <1>8, <1>11, <1>12, <1>13, <1>14, <1>15, <1>16, <1>17 DEF IInv

-----------------------------------------------------------------------------
(* Every step of the I/O thread keeps the invariant. *)
LEMMA IoStepKeeps == ASSUME ~Shared, IInv, IoStep PROVE IInv'
<1> USE ServerThreads
<1>0. TypeOK /\ ClosingKnown /\ LifeInOrder
  BY DEF IInv
<1>1. CASE HandleRead
  BY <1>1, HandleReadKeeps
<1>2. CASE HandleReadEnd
  BY <1>2, HandleReadEndWritingKeeps, HandleReadEndClosesKeeps
<1>3. CASE HandleReadEndThrows \/ HandleError
  BY <1>3, CrashKeeps DEF HandleReadEndThrows, HandleError
<1>4. CASE CloseAfterLastRead
  <2>1. CASE Test("io", "closeTest", FALSE, "", "maskTest")
    <3>1. Moves("io", "closeTest", "maskTest") /\ MovesTo("io", "maskTest")
      BY <1>0, <2>1 DEF Test, Goto, Go, Moves, MovesTo, TypeOK
    <3> QED
      BY <3>1, MovesKeep
  <2>2. CASE Crash("throw")
    BY <2>2, CrashKeeps
  <2>3. CASE /\ pc["io"] = "closeTest" /\ s.close_flag
             /\ ShutdownMayPass /\ CloseAndGo("countTest") /\ UNCHANGED <<s, env, life>>
    <3>1. life = [life EXCEPT !.fired = life.fired]
      BY <1>0 DEF TypeOK, Lives
    <3>2. IoCloses("countTest")
      BY <2>3, <3>1 DEF IoCloses, ShutdownMayPass, CloseAndGo
    <3> QED
      BY <3>2, IoClosesKeeps
  <2> QED
    BY <1>4, <2>1, <2>2, <2>3 DEF CloseAfterLastRead
<1>5. CASE MaskTest
  <2>1. CASE BelowMask
    BY <1>5, <2>1, MaskTestBelowKeeps
  <2>2. CASE ~BelowMask
    <3>1. Moves("io", "maskTest", "arm1") /\ MovesTo("io", "arm1")
      BY <1>0, <1>5, <2>2 DEF MaskTest, Test, Goto, Go, Moves, MovesTo, TypeOK
    <3> QED
      BY <3>1, MovesKeep
  <2> QED
    BY <2>1, <2>2
<1>6. CASE Arm
  <2>1. CASE pc["io"] = "arm1"
    <3>1. /\ pc' = [pc EXCEPT !["io"] = "arm2"] /\ s' = [s EXCEPT !.notify = TRUE]
          /\ UNCHANGED <<net, env, life, queue, in_handler>>
      BY <1>6, <2>1 DEF Arm, Goto, Go
    <3>2. s' \in Members
      BY <1>0, <3>1, Zenon DEF TypeOK, Members
    <3>3. Moves("io", "arm1", "arm2") /\ MovesTo("io", "arm2")
      BY <1>0, <2>1, <3>1, <3>2 DEF Moves, MovesTo
    <3> QED
      BY <3>3, MovesKeep
  <2>2. CASE pc["io"] = "arm2"
    BY <1>6, <2>2, ArmMaskKeeps
  <2> QED
    BY <1>6, <2>1, <2>2 DEF Arm
<1>7. CASE PostFireRead
  BY <1>7, PostFireReadKeeps
<1>8. CASE Write
  <2>1. CASE MayWrite
    <3>1. /\ \/ Moves("io", "idle", "writeSet") \/ Moves("io", "writeOn", "writeSet")
          /\ MovesTo("io", "writeSet")
      BY <1>0, <1>8, <2>1
      DEF Write, Begins, Runs, MayWrite, Goto, Go, Moves, MovesTo, TypeOK
    <3> QED
      BY <3>1, MovesKeep
  <2>2. CASE ~MayWrite /\ pc["io"] = "writeOn"
    <3>1. IoPasses
      BY <1>8, <2>2 DEF Write, Passes, MayWrite, IoPasses
    <3> QED
      BY <3>1, IoPassesKeeps
  <2>3. CASE ~MayWrite /\ pc["io"] # "writeOn"
    <3>1. life.passed \in BOOLEAN /\ ~Passes
      BY <1>0, <2>3 DEF TypeOK, Lives, Passes
    <3>2. life' = [life EXCEPT !.passed = life.passed]
      BY <1>8, <2>3, <3>1 DEF Write
    <3>3. life' = life
      BY <1>0, <3>2 DEF TypeOK, Lives
    <3>4. IoFinishes
      BY <1>8, <2>3, <3>3 DEF Write, Begins, Runs, MayWrite, IoFinishes
    <3> QED
      BY <3>4, IoFinishesKeeps
  <2> QED
    BY <2>1, <2>2, <2>3
<1>9. CASE HandleWrite
  BY <1>9, HandleWriteKeeps
<1>10. CASE Wrote \/ WroteEnd
  BY <1>10, WroteKeeps, WroteEndKeeps
<1>11. CASE PendingTest
  <2>1. CASE ~WritesOn
    <3>1. Moves("io", "pendingTest", "flagTest") /\ MovesTo("io", "flagTest")
      BY <1>0, <1>11, <2>1
      DEF PendingTest, Test, Goto, Go, Moves, MovesTo, TypeOK, WritesOn
    <3> QED
      BY <3>1, MovesKeep
  <2>2. CASE WritesOn
    <3>1. Moves("io", "pendingTest", "writeOn") /\ MovesTo("io", "writeOn")
      BY <1>0, <1>11, <2>2 DEF PendingTest, Test, Goto, Go, Moves, MovesTo, TypeOK
    <3> QED
      BY <3>1, MovesKeep
  <2> QED
    BY <2>1, <2>2
<1>12. CASE FlagTest
  <2>1. Crash("throw") \/ FlagTestShuts \/ IoFinishes
    BY <1>12 DEF FlagTest, FlagTestShuts, IoFinishes, ClosesAfterWrite
  <2> QED
    BY <2>1, CrashKeeps, FlagTestShutsKeeps, IoFinishesKeeps
<1>13. CASE ReadingTest
  <2>1. CASE s.reading
    <3>1. IoFinishes
      BY <1>13, <2>1 DEF ReadingTest, IoFinishes
    <3> QED
      BY <3>1, IoFinishesKeeps
  <2>2. CASE ~s.reading
    <3>1. life = [life EXCEPT !.fired = life.fired]
      BY <1>0 DEF TypeOK, Lives
    <3>2. s.close_flag /\ net.sock # "closed"
      BY <1>0, <1>13 DEF ReadingTest, ClosingKnown, LifeInOrder
    <3>3. IoCloses("countTest")
      BY <1>13, <2>2, <3>1, <3>2 DEF ReadingTest, IoCloses, CloseAndGo
    <3> QED
      BY <3>3, IoClosesKeeps
  <2> QED
    BY <2>1, <2>2
<1>14. CASE CountTest
  <2>1. CASE HandlersDone
    BY <1>14, <2>1, CountTestFiresKeeps
  <2>2. CASE ~HandlersDone
    <3>1. IoFinishes
      BY <1>14, <2>2 DEF CountTest, HandlersDone, IoFinishes
    <3> QED
      BY <3>1, IoFinishesKeeps
  <2> QED
    BY <2>1, <2>2
<1>15. CASE CloseLambda
  <2>1. CASE Crash("throw")
    BY <2>1, CrashKeeps
  <2>2. CASE /\ Begins("io", "close") /\ ShutdownMayPass
             /\ CloseAndGo("remove") /\ FireClosed /\ UNCHANGED <<s, env>>
    <3>1. OnIo("close") > 0
      BY <1>0, <2>2, Heads DEF Begins, Runs
    <3>2. s.close_flag
      BY <1>0, <3>1 DEF ClosingKnown
    <3>3. IoCloses("remove")
      BY <2>2, <3>2 DEF Begins, Runs, ShutdownMayPass, CloseAndGo, FireClosed, IoCloses
    <3> QED
      BY <3>3, IoClosesKeeps
  <2> QED
    BY <1>15, <2>1, <2>2 DEF CloseLambda
<1>16. CASE CloseHandler
  BY <1>16, CloseHandlerKeeps
<1>17. CASE WriteSet \/ WriteStart
  BY <1>17, WriteSetKeeps, WriteStartOpenKeeps, WriteStartClosedKeeps
<1> QED
  BY <1>1, <1>2, <1>3, <1>4, <1>5, <1>6, <1>7, <1>8, <1>9, <1>10, <1>11, <1>12, <1>13, <1>14,
     <1>15, <1>16, <1>17
  DEF IoStep

(* Every step of the work thread's task and of the handlers in it. *)
LEMMA WorkStepKeeps == ASSUME ~Shared, IInv, WorkStep PROVE IInv'
<1> USE ServerThreads
<1>0. TypeOK
  BY DEF IInv
<1>1. CASE FireRead
  BY <1>1, FireReadKeeps
<1>2. ASSUME NEW k \in 1..MaxIn, Retrieve(k) PROVE IInv'
  <2>1. /\ pc["work"] = "user" /\ k <= s.rbuf /\ s' = [s EXCEPT !.rbuf = s.rbuf - k]
        /\ pc' = [pc EXCEPT !["work"] = "notifyTest"]
        /\ UNCHANGED <<net, env, life, queue, in_handler>>
    BY <1>2 DEF Retrieve, Goto, Go
  <2>2. s.rbuf - k \in Nat
    BY <1>0, <2>1, Fields
  <2>3. s' \in Members
    BY <1>0, <2>1, <2>2, Zenon DEF TypeOK, Members
  <2>4. Moves("work", "user", "notifyTest") /\ MovesTo("work", "notifyTest")
    BY <1>0, <2>1, <2>3 DEF Moves, MovesTo
  <2> QED
    BY <2>4, MovesKeep
<1>3. CASE NotifyTest
  <2>1. CASE MustNotify
    BY <1>3, <2>1, NotifyTestYesKeeps
  <2>2. CASE ~MustNotify
    <3>1. Moves("work", "notifyTest", "user") /\ MovesTo("work", "user")
      BY <1>0, <1>3, <2>2 DEF NotifyTest, Test, Goto, Go, Moves, MovesTo, TypeOK
    <3> QED
      BY <3>1, MovesKeep
  <2> QED
    BY <2>1, <2>2
<1>4. CASE Disarm
  <2>1. CASE pc["work"] = "clear1"
    <3>1. /\ pc' = [pc EXCEPT !["work"] = "clear2"] /\ s' = [s EXCEPT !.notify = FALSE]
          /\ UNCHANGED <<net, env, life, queue, in_handler>>
      BY <1>4, <2>1 DEF Disarm, Goto, Go
    <3>2. s' \in Members
      BY <1>0, <3>1, Zenon DEF TypeOK, Members
    <3>3. Moves("work", "clear1", "clear2") /\ MovesTo("work", "clear2")
      BY <1>0, <2>1, <3>1, <3>2 DEF Moves, MovesTo
    <3> QED
      BY <3>3, MovesKeep
  <2>2. CASE pc["work"] = "clear2"
    BY <1>4, <2>2, DisarmMaskKeeps
  <2> QED
    BY <1>4, <2>1, <2>2 DEF Disarm
<1>5. CASE AppendBytes
  BY <1>5, AppendByHandlerKeeps, AppendByTaskKeeps DEF AppendBytes
<1>6. CASE Pend
  BY <1>6, PendKeeps
<1>7. CASE PostWrite
  <2>1. Posts("work", "write") \/ PostsLast("write")
    BY <1>7 DEF PostWrite, Return, Go, Posts, PostsLast
  <2> QED
    BY <2>1, PostsKeeps, PostsLastKeeps
<1>8. CASE Close
  <2>1. SetsClose("work")
    BY <1>8 DEF Close, Goto, Go, SetsClose
  <2> QED
    BY <2>1, SetsCloseKeeps
<1>9. CASE FireReadReturns
  BY <1>9, FireReadReturnsKeeps
<1>10. CASE EndTask
  BY <1>10, EndHandleKeeps, EndCountKeeps DEF EndTask
<1> QED
  BY <1>1, <1>2, <1>3, <1>4, <1>5, <1>6, <1>7, <1>8, <1>9, <1>10 DEF WorkStep

(* Every step of the sweep for idle sessions.                              *)
LEMMA AcceptStepKeeps == ASSUME ~Shared, IInv, AcceptStep PROVE IInv'
<1> USE ServerThreads
<1>0. TypeOK
  BY DEF IInv
<1>1. CASE CheckIdle
  <2>1. Moves("acc", "idle", "idleClose") /\ MovesTo("acc", "idleClose")
    BY <1>0, <1>1 DEF CheckIdle, Goto, Go, Moves, MovesTo, TypeOK
  <2> QED
    BY <2>1, MovesKeep
<1>2. CASE IdleClose
  <2>1. SetsClose("acc")
    BY <1>2 DEF IdleClose, Goto, Go, SetsClose
  <2> QED
    BY <2>1, SetsCloseKeeps
<1>3. CASE Erase
  BY <1>3, EraseKeeps
<1> QED
  BY <1>1, <1>2, <1>3 DEF AcceptStep

(* Every step of the peer, of the kernel and of the user's own threads.    *)
LEMMA EnvStepKeeps == ASSUME ~Shared, IInv, EnvStep PROVE IInv'
<1>0. TypeOK /\ 0 \in 0..MaxIn /\ \A n \in 1..MaxIn : n \in 0..MaxIn
  BY SessionAssumption DEF IInv
<1>1. ASSUME NEW n \in 1..MaxIn, ReadCompletes(n) PROVE IInv'
  <2>1. env.received + n \in Nat
    BY <1>0, Fields, SessionAssumption
  <2>2. ReadLeaves("read_ok", n)
    BY <1>1, <2>1 DEF ReadCompletes, ReadLeaves
  <2> QED
    BY <1>0, <2>2, ReadLeavesKeeps
<1>2. CASE ReadEnds
  <2>1. env.received \in Nat /\ env = [env EXCEPT !.received = env.received]
    BY <1>0 DEF TypeOK, Outside
  <2>2. ReadLeaves("read_end", 0) \/ ReadLeaves("read_error", 0)
    BY <1>2, <2>1 DEF ReadEnds, ReadLeaves
  <2> QED
    BY <1>0, <2>2, ReadLeavesKeeps
<1>3. CASE WriteEnds
  <2>1. net.writes # <<>> /\ Head(net.writes) \in Nat
    BY <1>0, <1>3, Fields DEF WriteEnds
  <2>2. 0 \in 0..Head(net.writes) /\ \A n \in 1..Head(net.writes) : n \in 0..Head(net.writes)
    BY <2>1
  <2>3. \/ \E n \in 0..Head(net.writes) : WriteLeaves("write_ok", n)
        \/ WriteLeaves("write_error", 0)
    BY <1>3, <2>2 DEF WriteEnds, WriteLeaves
  <2> QED
    BY <2>2, <2>3, WriteLeavesKeeps
<1>4. CASE PeerCloses
  BY <1>4, PeerClosesKeeps
<1>5. CASE WritePosts
  BY <1>5, WritePostsKeeps
<1> QED
  BY <1>1, <1>2, <1>3, <1>4, <1>5 DEF EnvStep

(* The calls any thread may be in: read, close_if_necessary, cancel.  The  *)
(* I/O thread of a server is never in the last two.                        *)
LEMMA AnyStepKeeps == ASSUME ~Shared, IInv, NEW th \in Threads, AnyStep(th) PROVE IInv'
<1> USE ServerThreads
<1>0. TypeOK /\ ClosingKnown /\ IoPlaces /\ WorkPlaces
  BY DEF IInv
<1>1. CASE ReadSet(th)
  BY <1>1, ReadSetKeeps
<1>2. CASE ReadStart(th)
  BY <1>2, ReadStartOpenKeeps, ReadStartClosedKeeps
<1>3. CASE CloseIfNecessary(th)
  <2>0. th # "io" /\ th \in {"work", "acc"} /\ pc[th] \in {"cnFlag", "cnCount", "cnReading"}
    BY <1>0, <1>3 DEF CloseIfNecessary, IoPlaces
  <2>1. CASE pc[th] = "cnFlag" /\ s.close_flag /\ ~s.writing
    <3>1. Moves(th, "cnFlag", "cnCount") /\ MovesTo(th, "cnCount")
      BY <1>0, <1>3, <2>0, <2>1 DEF CloseIfNecessary, Goto, Go, Moves, MovesTo, TypeOK
    <3> QED
      BY <3>1, MovesKeep
  <2>2. CASE pc[th] = "cnCount" /\ HandlersDone
    <3>1. Moves(th, "cnCount", "cnReading") /\ MovesTo(th, "cnReading")
      BY <1>0, <1>3, <2>0, <2>2 DEF CloseIfNecessary, Goto, Go, Moves, MovesTo, TypeOK
    <3> QED
      BY <3>1, MovesKeep
  <2>3. CASE \/ pc[th] = "cnFlag" /\ ~(s.close_flag /\ ~s.writing)
             \/ pc[th] = "cnCount" /\ ~HandlersDone
    <3>1. Return(th, queue) /\ UNCHANGED <<s, net, env, life>>
      BY <1>3, <2>3 DEF CloseIfNecessary
    <3>2. s.close_flag => s.writing \/ s.work_read_count # 0
      BY <2>3 DEF HandlersDone
    <3>3. CASE th = "acc"
      <4>1. Moves(th, pc[th], "erase") /\ MovesTo(th, "erase")
        BY <1>0, <2>3, <3>1, <3>2, <3>3 DEF Return, Go, Moves, MovesTo, TypeOK
      <4> QED
        BY <4>1, MovesKeep
    <3>4. CASE th = "work" /\ in_handler
      <4>1. Moves(th, pc[th], "user") /\ MovesTo(th, "user")
        BY <1>0, <2>3, <3>1, <3>2, <3>4 DEF Return, Go, Moves, MovesTo, TypeOK
      <4> QED
        BY <4>1, MovesKeep
    <3>5. CASE th = "work" /\ ~in_handler
      BY <1>3, <2>3, <3>5, CloseLeftAtEndKeeps
    <3> QED
      BY <2>0, <3>3, <3>4, <3>5
  <2>4. CASE pc[th] = "cnReading" /\ s.reading
    <3>1. Moves(th, "cnReading", "cnCancel") /\ MovesTo(th, "cnCancel")
      BY <1>0, <1>3, <2>0, <2>4 DEF CloseIfNecessary, Goto, Go, Moves, MovesTo, TypeOK
    <3> QED
      BY <3>1, MovesKeep
  <2>5. CASE pc[th] = "cnReading" /\ ~s.reading
    <3>1. Return(th, Post(queue, "io", Task("close", 0))) /\ UNCHANGED <<s, net, env, life>>
      BY <1>3, <2>5 DEF CloseIfNecessary
    <3>2. Posts(th, "close") \/ (th = "work" /\ PostsLast("close"))
      BY <2>0, <2>5, <3>1 DEF Return, Go, Posts, PostsLast
    <3> QED
      BY <2>0, <3>2, PostsKeeps, PostsLastKeeps
  <2> QED
    BY <2>0, <2>1, <2>2, <2>3, <2>4, <2>5
<1>4. CASE Cancel(th)
  <2>0. th \in {"work", "acc"}
    BY <1>0, <1>4 DEF Cancel, IoPlaces
  <2>1. CASE Crash("throw")
    BY <2>1, CrashKeeps
  <2>2. CASE ~Crash("throw") /\ (th = "work" => in_handler)
    <3>1. Cancels(th)
      BY <1>4, <2>0, <2>2 DEF Cancel, CancelAll, Return, Go, Cancels
    <3> QED
      BY <2>0, <3>1, CancelsKeeps
  <2>3. CASE ~Crash("throw") /\ th = "work" /\ ~in_handler
    BY <1>4, <2>3, CancelAtEndKeeps DEF Cancel
  <2> QED
    BY <2>0, <2>1, <2>2, <2>3
<1> QED
  BY <1>1, <1>2, <1>3, <1>4 DEF AnyStep

(* Every step of the specification, and a step of others, keeps the        *)
(* invariant.                                                              *)
LEMMA NextKeeps == ASSUME ~Shared, IInv, [Next]_vars PROVE IInv'
<1>1. CASE UseAfterFree
  BY <1>1, CrashKeeps DEF UseAfterFree
<1>2. CASE UNCHANGED vars
  BY <1>2, StutterKeeps
<1> QED
  BY <1>1, <1>2, IoStepKeeps, WorkStepKeeps, AcceptStepKeeps, EnvStepKeeps, AnyStepKeeps DEF Next

(* The inductive invariant holds in every state of a server's session.     *)
THEOREM Invariant == ASSUME ~Shared PROVE Spec => []IInv
<1>1. Init => IInv
  BY InitInv
<1>2. IInv /\ [Next]_vars => IInv'
  BY NextKeeps
<1> QED
  BY <1>1, <1>2, PTL DEF Spec

(* The session keeps its types, whichever way its threads interleave.      *)
THEOREM SessionTyped == ASSUME ~Shared PROVE Spec => []TypeOK
<1>1. IInv => TypeOK
  BY DEF IInv
<1> QED
  BY <1>1, Invariant, PTL

(* reading_ and writing_ tell the truth on every thread that looks at      *)
(* them: there are never two reads or two writes under way, and            *)
(* close_if_necessary overlooks none.                                      *)
THEOREM SessionFlagsTruthful == ASSUME ~Shared PROVE Spec => []FlagsTruthful
<1>1. ASSUME IInv PROVE FlagsTruthful
  <2> USE <1>1, ServerThreads DEF IInv
  <2>1. Starting <= Reading /\ Starting \in 0..3 /\ Starting <= 1
    BY Terms, Bits, BitsBelow DEF OneReader
  <2>2. Cardinality({th \in Threads : pc[th] = "readStart"}) = Starting
    <3> DEFINE R == {th \in Threads : pc[th] = "readStart"}
    <3>1. Cardinality({}) = 0 /\ \A th \in Threads : Cardinality({th}) = 1
      BY FS_EmptySet, FS_Singleton
    <3>2. \/ Starting = 0 /\ R = {}
          \/ Starting = 1 /\ (R = {"io"} \/ R = {"work"} \/ R = {"acc"})
      BY <2>1 DEF Starting, Starts, If
    <3> QED
      BY <3>1, <3>2
  <2>3. ReadFlagTruthful
    BY <2>2 DEF ReadFlagTruthful, ReadsTrue, ReadFlag, ReadsOut, OnIo, Count, Taken
  <2>4. WriteFlagTruthful
    BY DEF WriteFlagTruthful, WritesTrue, WriteFlag, WriteNext, WritesOut, OnIo, Count, WroteOk,
        WroteEnded
  <2> QED
    BY <2>3, <2>4 DEF FlagsTruthful
<1> QED
  BY <1>1, Invariant, PTL

(* work_read_count_ is the number of fire_reads posted and not returned,   *)
(* at every test of it by the I/O, the work and the accept thread.         *)
THEOREM SessionHandlersCounted == ASSUME ~Shared PROVE Spec => []WorkReadCountExact
<1>1. ASSUME IInv PROVE WorkReadCountExact
  BY <1>1, ServerThreads
  DEF IInv, WorkReadCountExact, HandlersTrue, Handlers, OnWork, HandlerOut, Count
<1> QED
  BY <1>1, Invariant, PTL

(* handle_count_, by which check_idle collects a session, is never below   *)
(* the handlers and writes under way, and is exact until the session       *)
(* closes.                                                                 *)
THEOREM SessionHandlesCounted == ASSUME ~Shared PROVE Spec => []HandleCountSound
<1>1. ASSUME IInv PROVE HandleCountSound
  <2>1. Busy = OnWork("fire_read") - HandlerPast + WriteHeld + Taken("read_ok")
    BY <1>1, ServerThreads DEF IInv, Busy, OnWork, Count, HandlerPast, WriteHeld, Taken
  <2> QED
    BY <1>1, <2>1 DEF IInv, HandleCountSound, HandlesTrue, Handles, CloseFlag, If
<1> QED
  BY <1>1, Invariant, PTL

(* pending_write_len_ and the write buffer agree whenever notify_write     *)
(* and handle_write are done, though the two threads change them in turns  *)
(* and the difference of a size_t may wrap on the way.                     *)
THEOREM SessionPendingExact == ASSUME ~Shared PROVE Spec => []PendingExact
<1>1. ASSUME IInv PROVE PendingExact
  <2> USE <1>1, ServerThreads DEF IInv
  <2>1. s.wbuf \in 0..SizeMod - 1 /\ SizeMod \in Nat
    BY PendingFacts
  <2>2. CASE pc["work"] # "pend"
    <3>1. s.pending + If(pc[Work] = "pend") = s.wbuf
      BY <2>1, <2>2, PendingFacts DEF If
    <3> QED
      BY <2>1, <3>1, SizeWraps DEF PendingExact
  <2>3. CASE pc["work"] = "pend"
    <3>1. s.pending + If(pc[Work] = "pend") = IF s.wbuf = 0 THEN SizeMod ELSE s.wbuf
      BY <2>1, <2>3, PendingFacts DEF If
    <3> QED
      BY <2>1, <3>1, SizeWraps DEF PendingExact
  <2> QED
    BY <2>2, <2>3
<1> QED
  BY <1>1, Invariant, PTL

(* What was appended to the write buffer of an open session is being       *)
(* written or will be looked at.                                           *)
THEOREM SessionForgetsNoWrite == ASSUME ~Shared PROVE Spec => []NoForgottenWrite
<1>1. ASSUME IInv PROVE NoForgottenWrite
  BY <1>1, ServerThreads DEF IInv, NoForgottenWrite, WriteComing, OnIo, Count
<1> QED
  BY <1>1, Invariant, PTL

(* A session that is closing and has nothing left to run has closed its    *)
(* socket, has told its handlers, once, and has left the server, unless    *)
(* handle_write left its closing to a write() that did nothing; then at    *)
(* least nothing is left to be written.                                    *)
THEOREM SessionNeverInLimbo == ASSUME ~Shared PROVE Spec => []NoLimbo
<1>1. ASSUME IInv, Quiet, life.crashed = "no", s.close_flag, ~s.reading, ~s.writing
      PROVE  \/ net.sock = "closed" /\ life.fired = 1 /\ life.where \in {"none", "client"}
             \/ life.passed /\ s.wbuf = 0
  <2> USE <1>1, ServerThreads DEF IInv
  <2>1. /\ pc["io"] = "idle" /\ pc["work"] = "idle" /\ pc["acc"] = "idle"
        /\ queue["io"] = <<>> /\ queue["work"] = <<>>
    BY DEF Quiet
  <2>2. OnIo("close") = 0 /\ OnIo("write") = 0 /\ OnWork("fire_read") = 0
    BY <2>1, NumEmpty DEF OnIo, OnWork
  <2>3. s.work_read_count = 0
    BY <2>1, <2>2 DEF HandlersTrue, Handlers, HandlerOut, Returned, If
  <2>4. life.where = "none" \/ (life.passed /\ s.wbuf = 0)
    BY <2>1, <2>2, <2>3 DEF WillClose, ClosesOn, Left
  <2> QED
    BY <2>4 DEF LifeInOrder
<1>2. IInv => NoLimbo
  BY <1>1 DEF NoLimbo
<1> QED
  BY <1>2, Invariant, PTL

-----------------------------------------------------------------------------
(* What Stage looks at is left alone.                                      *)
LEMMA StageKept ==
    ASSUME life'.where = "none" <=> life.where = "none", life'.fired = life.fired,
           net'.sock = "closed" <=> net.sock = "closed", s'.close_flag = s.close_flag
    PROVE  UNCHANGED Stage
BY DEF Stage

(* The flag is set on a session that keeps its place otherwise. *)
LEMMA StageAsked ==
    ASSUME life' = life, net'.sock = net.sock, s'.close_flag = TRUE
    PROVE  UNCHANGED Stage \/ Life!Ask
BY DEF Stage, Life!Ask

(* The socket is closed before the handlers are told,                      *)
LEMMA StageShut ==
    ASSUME LifeInOrder, net.sock # "closed", net'.sock = "closed", life' = life
    PROVE  Life!Shut
BY DEF LifeInOrder, Stage, Life!Shut

(* they are told once,                                                     *)
LEMMA StageTold ==
    ASSUME LifeInOrder, life.fired = 0, life'.fired = 1, life'.where = life.where,
           net'.sock = "closed", s.close_flag
    PROVE  Life!Tell
BY DEF LifeInOrder, Stage, Life!Tell

(* and after that the session is let go of.                                *)
LEMMA StageGone ==
    ASSUME LifeInOrder, life.fired = 1, life'.where = "none"
    PROVE  UNCHANGED Stage \/ Life!LetGo
BY DEF LifeInOrder, Stage, Life!LetGo

(* The end of the process is no step of the life of the session.           *)
LEMMA CrashStage ==
    ASSUME IInv, NEW how, Crash(how) PROVE UNCHANGED Stage
<1>1. s' = s /\ net' = net /\ life'.where = life.where /\ life'.fired = life.fired
  BY DEF Crash, IInv
<1> QED
  BY <1>1, StageKept

(* Every step of the I/O thread is a step of that life, or none,           *)
LEMMA IoStepStage == ASSUME ~Shared, IInv, IoStep PROVE UNCHANGED Stage \/ Life!Next
<1> USE ServerThreads DEF IInv
<1>t. s \in Members /\ net \in Sockets /\ life \in Lives
  BY DEF TypeOK
<1>1. CASE HandleRead \/ Arm \/ PostFireRead \/ HandleWrite \/ Wrote
  <2>1. s'.close_flag = s.close_flag /\ net' = net /\ life' = life
    BY <1>t, <1>1 DEF HandleRead, Arm, PostFireRead, HandleWrite, Wrote, Goto, Go, Members
  <2> QED
    BY <2>1, StageKept
<1>2. CASE HandleReadEnd
  <2>1. s'.close_flag = TRUE /\ life' = life
    BY <1>t, <1>2 DEF HandleReadEnd
  <2>2. CASE net' = net
    BY <2>1, <2>2, StageAsked DEF Life!Next
  <2>3. CASE net' # net
    <3>1. net.sock # "closed" /\ net'.sock = "closed"
      BY <1>t, <1>2, <2>3 DEF HandleReadEnd, ShutdownMayPass, CloseAndGo, SocketClose, Sockets
    <3> QED
      BY <2>1, <3>1, StageShut DEF Life!Next
  <2> QED
    BY <2>2, <2>3
<1>3. CASE HandleReadEndThrows \/ HandleError
  BY <1>t, <1>3, CrashStage DEF HandleReadEndThrows, HandleError
<1>4. CASE CloseAfterLastRead
  <2>1. CASE CloseAndGo("countTest") /\ ShutdownMayPass /\ life' = life
    <3>1. net.sock # "closed" /\ net'.sock = "closed"
      BY <1>t, <2>1 DEF ShutdownMayPass, CloseAndGo, SocketClose
    <3> QED
      BY <2>1, <3>1, StageShut DEF Life!Next
  <2>2. CASE UNCHANGED <<s, net, life>>
    BY <2>2, StageKept
  <2>3. CASE Crash("throw")
    BY <2>3, CrashStage
  <2> QED
    BY <1>4, <2>1, <2>2, <2>3 DEF CloseAfterLastRead, Test
<1>5. CASE MaskTest
  BY <1>5, StageKept DEF MaskTest, Test
<1>6. CASE Write \/ WriteSet \/ WriteStart \/ PendingTest
  <2>1. /\ s'.close_flag = s.close_flag /\ net'.sock = net.sock
        /\ life'.where = life.where /\ life'.fired = life.fired
    BY <1>t, <1>6
    DEF Write, WriteSet, WriteStart, WriteCounted, PendingTest, Test, StartWrite, Members,
        Sockets, Lives
  <2> QED
    BY <2>1, StageKept
<1>7. CASE WroteEnd
  <2>1. s'.close_flag = TRUE /\ net' = net /\ life' = life
    BY <1>t, <1>7 DEF WroteEnd
  <2> QED
    BY <2>1, StageAsked DEF Life!Next
<1>8. CASE FlagTest
  <2>1. CASE Crash("throw")
    BY <2>1, CrashStage
  <2>2. CASE ~Crash("throw")
    <3>1. /\ s' = s /\ life' = life
          /\ net' = net \/ (net.sock # "closed" /\ net'.sock = "shut")
      BY <1>t, <1>8, <2>2 DEF FlagTest, ShutdownMayPass, Sockets
    <3> QED
      BY <3>1, StageKept
  <2> QED
    BY <2>1, <2>2
<1>9. CASE ReadingTest
  <2>1. CASE UNCHANGED <<s, net, life>>
    BY <2>1, StageKept
  <2>2. CASE CloseAndGo("countTest") /\ pc["io"] = "readingTest" /\ life' = life
    <3>1. net.sock # "closed" /\ net'.sock = "closed"
      BY <1>t, <2>2 DEF LifeInOrder, CloseAndGo, SocketClose
    <3> QED
      BY <2>2, <3>1, StageShut DEF Life!Next
  <2> QED
    BY <1>9, <2>1, <2>2 DEF ReadingTest
<1>10. CASE CountTest
  <2>1. CASE UNCHANGED <<s, net, life>>
    BY <2>1, StageKept
  <2>2. CASE pc["io"] = "countTest" /\ FireClosed /\ UNCHANGED <<s, net>>
    <3>1. s.close_flag /\ net.sock = "closed" /\ life.fired = 0
      BY <2>2 DEF LifeInOrder, ClosingKnown
    <3>2. life'.fired = life.fired + 1 /\ life'.where = life.where
      BY <1>t, <2>2 DEF FireClosed
    <3>3. life'.fired = 1
      BY <3>1, <3>2
    <3> QED
      BY <2>2, <3>1, <3>2, <3>3, StageTold DEF Life!Next
  <2> QED
    BY <1>10, <2>1, <2>2 DEF CountTest
<1>11. CASE CloseLambda
  <2>1. CASE Crash("throw")
    BY <2>1, CrashStage
  <2>2. CASE /\ Begins("io", "close") /\ ShutdownMayPass
             /\ CloseAndGo("remove") /\ FireClosed /\ UNCHANGED s
    <3>1. OnIo("close") > 0
      BY <2>2, Heads DEF Begins, Runs
    <3>2. s.close_flag /\ net.sock # "closed" /\ life.fired = 0
      BY <2>2, <3>1 DEF ClosingKnown, LifeInOrder, ShutdownMayPass
    <3>3. life'.fired = life.fired + 1 /\ life'.where = life.where /\ net'.sock = "closed"
      BY <1>t, <2>2 DEF FireClosed, CloseAndGo, SocketClose, Sockets
    <3>4. life'.fired = 1
      BY <3>2, <3>3
    <3> QED
      BY <3>2, <3>3, <3>4, StageTold DEF Life!Next
  <2> QED
    BY <1>11, <2>1, <2>2 DEF CloseLambda
<1>12. CASE CloseHandler
  <2>1. pc["io"] = "remove" /\ life'.where = "none"
    BY <1>t, <1>12 DEF CloseHandler
  <2> QED
    BY <2>1, StageGone DEF LifeInOrder, Life!Next
<1> QED
  BY <1>1, <1>2, <1>3, <1>4, <1>5, <1>6, <1>7, <1>8, <1>9, <1>10, <1>11, <1>12 DEF IoStep

(* and every other step at most asks for the end.                          *)
LEMMA OtherStepStage ==
    ASSUME ~Shared, IInv,
           WorkStep \/ AcceptStep \/ EnvStep \/ \E th \in Threads : AnyStep(th)
    PROVE  UNCHANGED Stage \/ Life!Next
<1> USE ServerThreads DEF IInv
<1>t. s \in Members /\ net \in Sockets /\ life \in Lives
  BY DEF TypeOK
<1>1. CASE WorkStep
  <2>1. net' = net /\ life' = life /\ (s'.close_flag = s.close_flag \/ s'.close_flag = TRUE)
    BY <1>t, <1>1
    DEF WorkStep, FireRead, Retrieve, NotifyTest, Test, Disarm, AppendBytes, Pend, PostWrite, Close,
        FireReadReturns, EndTask, HandlerCounted, Members
  <2> QED
    BY <2>1, StageKept, StageAsked DEF Life!Next
<1>2. CASE CheckIdle
  BY <1>2, StageKept DEF CheckIdle
<1>3. CASE IdleClose
  <2>1. s'.close_flag = TRUE /\ net' = net /\ life' = life
    BY <1>t, <1>3 DEF IdleClose
  <2> QED
    BY <2>1, StageAsked DEF Life!Next
<1>4. CASE Erase
  <2>1. /\ life.where # "none" /\ life'.where # "none" /\ life'.fired = life.fired
        /\ s' = s /\ net' = net
    BY <1>t, <1>4 DEF Erase, AccPlaces
  <2> QED
    BY <2>1, StageKept
<1>5. CASE EnvStep
  <2>1. s' = s /\ life' = life /\ net'.sock = net.sock
    BY <1>t, <1>5
    DEF EnvStep, ReadCompletes, ReadEnds, WriteEnds, PeerCloses, WritePosts, Completes, Sockets
  <2> QED
    BY <2>1, StageKept
<1>6. ASSUME NEW th \in Threads, AnyStep(th) PROVE UNCHANGED Stage \/ Life!Next
  <2>1. CASE Crash("throw")
    BY <2>1, CrashStage
  <2>2. CASE ~Crash("throw")
    <3>1. s'.close_flag = s.close_flag /\ life' = life /\ net'.sock = net.sock
      BY <1>t, <1>6, <2>2
      DEF AnyStep, ReadSet, ReadFlagged, ReadStart, StartRead, CloseIfNecessary, Cancel, CancelAll,
          Members, Sockets
    <3> QED
      BY <3>1, StageKept
  <2> QED
    BY <2>1, <2>2
<1> QED
  BY <1>1, <1>2, <1>3, <1>4, <1>5, <1>6 DEF AcceptStep

(* The session implements SessionLife: every step of every thread is a     *)
(* step of a life that goes one way, or leaves the stage as it is.         *)
THEOREM SessionImplementsLife == ASSUME ~Shared PROVE Spec => ImplementsLife
<1>1. Init => Life!Init
  BY DEF Init, Greeted, NewSession, Stage, Life!Init
<1>2. ASSUME IInv, [Next]_vars PROVE [Life!Next]_Stage
  <2>1. CASE UseAfterFree
    BY <1>2, <2>1, CrashStage DEF UseAfterFree, IInv
  <2>2. CASE UNCHANGED vars
    BY <2>2, StageKept DEF vars
  <2> QED
    BY <1>2, <2>1, <2>2, IoStepStage, OtherStepStage DEF Next
<1> QED
  BY <1>1, <1>2, Invariant, PTL DEF Spec, ImplementsLife, Life!Spec
=============================================================================
