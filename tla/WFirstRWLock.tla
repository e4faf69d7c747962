---------------------------- MODULE WFirstRWLock ----------------------------
(***************************************************************************)
(* engine::wfirst_rw_lock (src/engine/common/wfirst_rw_lock.h), the lock   *)
(* that guards the session maps of the server.                             *)
(*                                                                         *)
(* Every member function holds mutex_ from its first line to its last,     *)
(* except inside condition_variable::wait, so the code between two such    *)
(* points is one action.  A thread inside wait is in the wait set of the   *)
(* condition variable ("waitR", "waitW"); a notification moves it to       *)
(* "wokeR"/"wokeW", where it still has to take mutex_ again and to find    *)
(* its predicate true.  Definitions with a suffix (Name_Slip) are mutants  *)
(* of Name: slips an edit could make.                                      *)
(***************************************************************************)
EXTENDS Integers, FiniteSets

CONSTANT Threads   \* the threads that use one lock

ASSUME ThreadsAssumption == IsFiniteSet(Threads)

VARIABLES read_cnt,    \* read_cnt_
          write_cnt,   \* write_cnt_: writers inside, and writers waiting
          write_flag,  \* write_flag_
          pc           \* where each thread is

vars == <<read_cnt, write_cnt, write_flag, pc>>

States == {"idle", "waitR", "wokeR", "reading", "waitW", "wokeW", "writing"}

At(S) == {t \in Threads : pc[t] \in S}

Init ==
    /\ read_cnt = 0
    /\ write_cnt = 0
    /\ write_flag = FALSE
    /\ pc = [t \in Threads |-> "idle"]

-----------------------------------------------------------------------------
(* notify_one wakes one thread of the wait set, if there is one;           *)
(* notify_all wakes them all.  The first gives the possible new pcs, the   *)
(* second the new pc.                                                      *)
NotifyOneWriter(p) ==
    LET waiting == {t \in Threads : p[t] = "waitW"}
    IN  IF waiting = {} THEN {p}
        ELSE {[p EXCEPT ![w] = "wokeW"] : w \in waiting}

NotifyAllReaders(p) ==
    [t \in Threads |-> IF p[t] = "waitR" THEN "wokeR" ELSE p[t]]

(* cond_r.wait's predicate and cond_w.wait's predicate *)
MayRead_WhileWriterWaits == ~write_flag
MayRead  == write_cnt = 0

MayWrite == read_cnt = 0 /\ ~write_flag

-----------------------------------------------------------------------------
(* read_lock, on the way in and each time it wakes. *)
ReadLock(t) ==
    /\ pc[t] \in {"idle", "wokeR"}
    /\ \/ /\ MayRead
          /\ read_cnt' = read_cnt + 1
          /\ pc' = [pc EXCEPT ![t] = "reading"]
       \/ /\ ~MayRead
          /\ pc' = [pc EXCEPT ![t] = "waitR"]
          /\ UNCHANGED read_cnt
    /\ UNCHANGED <<write_cnt, write_flag>>

ReadUnlock(t) ==
    /\ pc[t] = "reading"
    /\ read_cnt' = read_cnt - 1
    /\ LET p == [pc EXCEPT ![t] = "idle"]
       IN  IF read_cnt' = 0 /\ write_cnt > 0
           THEN pc' \in NotifyOneWriter(p)
           ELSE pc' = p
    /\ UNCHANGED <<write_cnt, write_flag>>

(* mutant: a writer that has to wait is not counted *)
WriteLock_CountedLate(t) ==
    /\ pc[t] = "idle"
    /\ write_cnt' = IF MayWrite THEN write_cnt + 1 ELSE write_cnt
    /\ write_flag' = (write_flag \/ MayWrite)
    /\ pc' = [pc EXCEPT ![t] = IF MayWrite THEN "writing" ELSE "waitW"]
    /\ UNCHANGED read_cnt

(* write_lock up to its first look at the predicate: the writer is counted *)
(* before it waits, which is what shuts new readers out.                   *)
WriteLock(t) ==
    /\ pc[t] = "idle"
    /\ write_cnt' = write_cnt + 1
    /\ write_flag' = (write_flag \/ MayWrite)
    /\ pc' = [pc EXCEPT ![t] = IF MayWrite THEN "writing" ELSE "waitW"]
    /\ UNCHANGED read_cnt

(* A woken writer has mutex_ again and tests the predicate again. *)
WriteWake(t) ==
    /\ pc[t] = "wokeW"
    /\ write_flag' = (write_flag \/ MayWrite)
    /\ pc' = [pc EXCEPT ![t] = IF MayWrite THEN "writing" ELSE "waitW"]
    /\ UNCHANGED <<read_cnt, write_cnt>>

(* mutants: the next writer is not woken; one reader is woken for all *)
WriteUnlock_ReadersOnly(t) ==
    /\ pc[t] = "writing"
    /\ write_cnt' = write_cnt - 1
    /\ LET p == [pc EXCEPT ![t] = "idle"]
       IN  pc' = IF write_cnt' = 0 THEN NotifyAllReaders(p) ELSE p
    /\ write_flag' = FALSE
    /\ UNCHANGED read_cnt

WriteUnlock_OneReader(t) ==
    /\ pc[t] = "writing"
    /\ write_cnt' = write_cnt - 1
    /\ LET p == [pc EXCEPT ![t] = "idle"]
       IN  IF write_cnt' = 0
           THEN \/ \E r \in Threads : p[r] = "waitR" /\ pc' = [p EXCEPT ![r] = "wokeR"]
                \/ (\A r \in Threads : p[r] # "waitR") /\ pc' = p
           ELSE pc' \in NotifyOneWriter(p)
    /\ write_flag' = FALSE
    /\ UNCHANGED read_cnt

WriteUnlock(t) ==
    /\ pc[t] = "writing"
    /\ write_cnt' = write_cnt - 1
    /\ LET p == [pc EXCEPT ![t] = "idle"]
       IN  IF write_cnt' = 0
           THEN pc' = NotifyAllReaders(p)
           ELSE pc' \in NotifyOneWriter(p)
    /\ write_flag' = FALSE
    /\ UNCHANGED read_cnt

(* A condition variable may return from wait without a notification. *)
SpuriousWake(t) ==
    /\ pc[t] \in {"waitR", "waitW"}
    /\ pc' = [pc EXCEPT ![t] = IF pc[t] = "waitR" THEN "wokeR" ELSE "wokeW"]
    /\ UNCHANGED <<read_cnt, write_cnt, write_flag>>

Next == \E t \in Threads :
    \/ ReadLock(t) \/ ReadUnlock(t)
    \/ WriteLock(t) \/ WriteWake(t) \/ WriteUnlock(t)
    \/ SpuriousWake(t)

Spec == Init /\ [][Next]_vars

(* A holder leaves its section (the guards are scoped objects), and a      *)
(* woken thread gets mutex_ in the end.  Nobody has to call read_lock or   *)
(* write_lock, and no wait ever returns spuriously by obligation.          *)
Fairness == \A t \in Threads :
    /\ WF_vars(pc[t] = "wokeR" /\ ReadLock(t))
    /\ WF_vars(WriteWake(t))
    /\ WF_vars(ReadUnlock(t))
    /\ WF_vars(WriteUnlock(t))

FairSpec == Spec /\ Fairness

-----------------------------------------------------------------------------
TypeOK ==
    /\ read_cnt \in Nat
    /\ write_cnt \in Nat
    /\ write_flag \in BOOLEAN
    /\ pc \in [Threads -> States]

(* The counters are the census of the threads: a notification decision     *)
(* (read_unlock's last reader, write_unlock's last writer) is then right.  *)
CountersExact ==
    /\ read_cnt = Cardinality(At({"reading"}))
    /\ write_cnt = Cardinality(At({"waitW", "wokeW", "writing"}))

(* Readers and a writer are never inside together, nor two writers. *)
MutualExclusion ==
    /\ At({"writing"}) # {} => At({"reading"}) = {}
    /\ \A t, u \in At({"writing"}) : t = u

(* No wakeup is lost.  When the lock is free and a writer sleeps, some     *)
(* writer is awake on its way to the mutex; a reader sleeps only while a   *)
(* writer, who will notify all when he leaves, is counted.                 *)
NoLostWakeup ==
    /\ At({"waitW"}) # {} /\ At({"reading", "writing"}) = {} => At({"wokeW"}) # {}
    /\ At({"waitR"}) # {} => At({"waitW", "wokeW", "writing"}) # {}

(* Writers first: a thread never starts to read while a writer is inside   *)
(* or asked to be, whatever woke it.                                       *)
WritersFirst ==
    [][\A t \in Threads : pc[t] # "reading" /\ pc'[t] = "reading"
          => At({"waitW", "wokeW", "writing"}) = {}]_vars

(* The lock does what RWLockSpec promises. *)
Promise == INSTANCE RWLockSpec WITH
    readers <- At({"reading"}),
    writers <- At({"writing"}),
    wanting <- At({"waitW", "wokeW"})

ImplementsPromise == Promise!Spec

(* When writers wait, one of them gets in (not each: write_unlock wakes    *)
(* one, and a newcomer may take the lock before the woken one).            *)
SomeWriterGetsIn ==
    At({"waitW", "wokeW"}) # {} ~> At({"writing"}) # {}

(* A reader gets in once the writers stop coming. *)
ReadersGetInAfterWriters ==
    \A t \in Threads :
        <>[](write_cnt = 0) => (pc[t] = "waitR" ~> pc[t] = "reading")

=============================================================================
