------------------------- MODULE WFirstRWLockProofs -------------------------
(***************************************************************************)
(* For any finite set of threads: the counters of wfirst_rw_lock are       *)
(* exact, its sections exclude each other, no wakeup is lost, writers go   *)
(* first, and the lock implements RWLockSpec.                              *)
(*                                                                         *)
(* The inductive invariant is IInv.  Its extra conjunct ties write_flag_   *)
(* to the thread that is writing; exclusion rests on it and on the exact   *)
(* counters, and "no lost wakeup" on both.                                 *)
(***************************************************************************)
EXTENDS WFirstRWLock, FiniteSetTheorems, TLAPS

Reading == At({"reading"})
Writing == At({"writing"})
Wanting == At({"waitW", "wokeW"})
Counted == At({"waitW", "wokeW", "writing"})

FlagExact == write_flag <=> Writing # {}

IInv == TypeOK /\ CountersExact /\ FlagExact /\ MutualExclusion /\ NoLostWakeup

-----------------------------------------------------------------------------
(* Where the threads are after one of them has moved. *)
LEMMA MoveOne ==
    ASSUME pc \in [Threads -> States], NEW t \in Threads, NEW v \in States,
           pc' = [pc EXCEPT ![t] = v], NEW S
    PROVE  At(S)' = IF v \in S THEN At(S) \cup {t} ELSE At(S) \ {t}
BY DEF At

(* A census of threads is finite, and empty exactly when it counts 0. *)
LEMMA Census ==
    ASSUME NEW S
    PROVE  /\ IsFiniteSet(At(S))
           /\ Cardinality(At(S)) \in Nat
           /\ Cardinality(At(S)) = 0 <=> At(S) = {}
<1>1. At(S) \subseteq Threads
  BY DEF At
<1>2. IsFiniteSet(At(S))
  BY <1>1, ThreadsAssumption, FS_Subset
<1> QED
  BY <1>2, FS_CardinalityType, FS_EmptySet

(* One more, one fewer. *)
LEMMA CensusUp ==
    ASSUME NEW S, NEW t \in Threads, pc[t] \notin S
    PROVE  Cardinality(At(S) \cup {t}) = Cardinality(At(S)) + 1
<1>1. t \notin At(S)
  BY DEF At
<1> QED
  BY <1>1, Census, FS_AddElement

(* One thread leaves: one fewer. *)
LEMMA CensusDown ==
    ASSUME NEW S, NEW t \in Threads, pc[t] \in S
    PROVE  Cardinality(At(S) \ {t}) = Cardinality(At(S)) - 1
<1>1. t \in At(S)
  BY DEF At
<1> QED
  BY <1>1, Census, FS_RemoveElement

(* What the invariant says of the predicates of the two waits. *)
LEMMA Predicates ==
    ASSUME IInv
    PROVE  /\ MayRead <=> Counted = {}
           /\ MayWrite <=> Reading = {} /\ Writing = {}
BY Census DEF IInv, TypeOK, CountersExact, FlagExact, MayRead, MayWrite,
              Reading, Writing, Counted

(* A notified writer changes nothing but that he is awake. *)
LEMMA NotifyOne ==
    ASSUME NEW p \in [Threads -> States], pc' \in NotifyOneWriter(p)
    PROVE  /\ pc' \in [Threads -> States]
           /\ At({"reading"})' = {u \in Threads : p[u] \in {"reading"}}
           /\ At({"writing"})' = {u \in Threads : p[u] \in {"writing"}}
           /\ At({"waitR"})' = {u \in Threads : p[u] \in {"waitR"}}
           /\ At({"waitW", "wokeW", "writing"})'
                 = {u \in Threads : p[u] \in {"waitW", "wokeW", "writing"}}
           /\ At({"waitW"})' # {} => At({"wokeW"})' # {}
<1> DEFINE waiting == {u \in Threads : p[u] = "waitW"}
<1>1. CASE waiting = {}
  BY <1>1 DEF NotifyOneWriter, At
<1>2. CASE waiting # {}
  <2>1. PICK w \in waiting : pc' = [p EXCEPT ![w] = "wokeW"]
    BY <1>2 DEF NotifyOneWriter
  <2>2. pc'[w] = "wokeW" /\ w \in Threads /\ p[w] = "waitW"
    BY <2>1
  <2>3. \A u \in Threads : u # w => pc'[u] = p[u]
    BY <2>1
  <2> QED
    BY <2>1, <2>2, <2>3 DEF States, At
<1> QED
  BY <1>1, <1>2

-----------------------------------------------------------------------------
(* IInv holds at first and is kept by each action. *)
LEMMA InitIInv == Init => IInv
<1> SUFFICES ASSUME Init PROVE IInv
  OBVIOUS
<1>1. \A S : "idle" \notin S => At(S) = {}
  BY DEF Init, At
<1>2. TypeOK
  BY DEF Init, TypeOK, States
<1>3. CountersExact
  BY <1>1, FS_EmptySet DEF Init, CountersExact
<1> QED
  BY <1>1, <1>2, <1>3 DEF Init, IInv, FlagExact, MutualExclusion, NoLostWakeup, Writing

(* A reader gets in, or waits because a writer is counted. *)
LEMMA ReadLockKeeps ==
    ASSUME IInv, NEW t \in Threads, ReadLock(t) PROVE IInv'
<1> USE DEF Reading, Writing, Counted
<1>0. /\ pc \in [Threads -> States] /\ pc[t] \in {"idle", "wokeR"}
      /\ write_cnt' = write_cnt /\ write_flag' = write_flag
  BY DEF IInv, TypeOK, ReadLock
<1>1. CASE MayRead /\ read_cnt' = read_cnt + 1 /\ pc' = [pc EXCEPT ![t] = "reading"]
  <2>1. \A S : At(S)' = IF "reading" \in S THEN At(S) \cup {t} ELSE At(S) \ {t}
    BY <1>0, <1>1, MoveOne DEF States
  <2>2. Counted = {} /\ Writing = {} /\ At({"waitW"}) = {} /\ At({"waitR"}) = {}
    BY <1>1, Predicates DEF IInv, NoLostWakeup, At
  <2>3. TypeOK'
    BY <1>0, <1>1 DEF IInv, TypeOK, States
  <2>4. CountersExact'
    <3>1. At({"reading"})' = At({"reading"}) \cup {t} /\ Counted' = Counted
      BY <2>1, <2>2
    <3> QED
      BY <3>1, <1>0, <1>1, CensusUp DEF IInv, CountersExact
  <2> QED
    BY <1>0, <2>1, <2>2, <2>3, <2>4 DEF IInv, FlagExact, MutualExclusion, NoLostWakeup
<1>2. CASE ~MayRead /\ read_cnt' = read_cnt /\ pc' = [pc EXCEPT ![t] = "waitR"]
  <2>1. \A S : At(S)' = IF "waitR" \in S THEN At(S) \cup {t} ELSE At(S) \ {t}
    BY <1>0, <1>2, MoveOne DEF States
  <2>2. \A S : "waitR" \notin S /\ "idle" \notin S /\ "wokeR" \notin S => At(S)' = At(S)
    BY <1>0, <2>1 DEF At
  <2>3. Counted # {}
    BY <1>2, Predicates
  <2>4. TypeOK'
    BY <1>0, <1>2 DEF IInv, TypeOK, States
  <2> QED
    BY <1>0, <1>2, <2>2, <2>3, <2>4
       DEF IInv, CountersExact, FlagExact, MutualExclusion, NoLostWakeup
<1> QED
  BY <1>1, <1>2 DEF ReadLock

(* The last reader that leaves wakes a writer, if one waits. *)
LEMMA ReadUnlockKeeps ==
    ASSUME IInv, NEW t \in Threads, ReadUnlock(t) PROVE IInv'
<1> USE DEF Reading, Writing, Counted
<1> DEFINE p == [pc EXCEPT ![t] = "idle"]
           AtP(S) == {u \in Threads : p[u] \in S}
<1>1. /\ pc \in [Threads -> States] /\ p \in [Threads -> States] /\ pc[t] = "reading"
      /\ read_cnt' = read_cnt - 1
      /\ write_cnt' = write_cnt /\ write_flag' = write_flag
  BY DEF IInv, TypeOK, ReadUnlock, States
<1>2. /\ AtP({"reading"}) = Reading \ {t}
      /\ \A S : "reading" \notin S /\ "idle" \notin S => AtP(S) = At(S)
  BY <1>1 DEF At
<1>3. Cardinality(Reading \ {t}) = Cardinality(Reading) - 1
  BY <1>1, CensusDown
<1>4. Writing = {}
  BY <1>1 DEF IInv, MutualExclusion, At
<1>5. CASE read_cnt' = 0 /\ write_cnt > 0 /\ pc' \in NotifyOneWriter(p)
  <2>1. pc' \in [Threads -> States]
    BY <1>1, <1>5, NotifyOne
  <2>2. /\ At({"reading"})' = AtP({"reading"}) /\ At({"writing"})' = AtP({"writing"})
        /\ At({"waitR"})' = AtP({"waitR"})
        /\ At({"waitW", "wokeW", "writing"})' = AtP({"waitW", "wokeW", "writing"})
    BY <1>1, <1>5, NotifyOne
  <2>3. At({"waitW"})' # {} => At({"wokeW"})' # {}
    BY <1>1, <1>5, NotifyOne
  <2>4. TypeOK'
    BY <1>1, <1>5, <2>1 DEF IInv, TypeOK
  <2> QED
    BY <1>1, <1>2, <1>3, <1>4, <2>2, <2>3, <2>4
       DEF IInv, CountersExact, FlagExact, MutualExclusion, NoLostWakeup
<1>6. CASE ~(read_cnt' = 0 /\ write_cnt > 0) /\ pc' = p
  <2>1. \A S : At(S)' = AtP(S)
    BY <1>6 DEF At
  <2>2. read_cnt' \in Nat
    <3>1. IsFiniteSet(Reading \ {t})
      BY Census, FS_RemoveElement
    <3> QED
      BY <1>1, <1>3, <3>1, FS_CardinalityType DEF IInv, CountersExact
  <2>3. At({"waitW"}) = {} \/ Reading \ {t} # {}
    <3>1. CASE read_cnt' # 0
      BY <3>1, <1>1, <1>3, FS_EmptySet DEF IInv, CountersExact
    <3>2. CASE write_cnt = 0
      BY <3>2, Census DEF IInv, CountersExact, At
    <3> QED
      BY <1>1, <1>6, <3>1, <3>2 DEF IInv, TypeOK
  <2>4. TypeOK'
    BY <1>1, <1>6, <2>2 DEF IInv, TypeOK
  <2> QED
    BY <1>1, <1>2, <1>3, <1>4, <2>1, <2>3, <2>4
       DEF IInv, CountersExact, FlagExact, MutualExclusion, NoLostWakeup
<1> QED
  BY <1>5, <1>6 DEF ReadUnlock

(* write_lock and a woken writer differ only in who is counted already. *)
LEMMA WriterTests ==
    ASSUME IInv, NEW t \in Threads, pc[t] \in {"idle", "wokeW"},
           write_cnt' = write_cnt + (IF pc[t] = "idle" THEN 1 ELSE 0),
           write_flag' = (write_flag \/ MayWrite),
           pc' = [pc EXCEPT ![t] = IF MayWrite THEN "writing" ELSE "waitW"],
           read_cnt' = read_cnt
    PROVE  IInv'
<1> USE DEF Reading, Writing, Counted
<1> DEFINE v == IF MayWrite THEN "writing" ELSE "waitW"
<1>1. pc \in [Threads -> States] /\ v \in States
  BY DEF IInv, TypeOK, States
<1>2. \A S : At(S)' = IF v \in S THEN At(S) \cup {t} ELSE At(S) \ {t}
  BY <1>1, MoveOne
<1>3. Reading' = Reading /\ At({"waitR"})' = At({"waitR"})
  BY <1>1, <1>2 DEF At
<1>4. Counted' = Counted \cup {t}
  BY <1>1, <1>2
<1>5. Cardinality(Counted') = Cardinality(Counted) + (IF pc[t] = "idle" THEN 1 ELSE 0)
  <2>1. CASE pc[t] = "idle"
    BY <1>4, <2>1, CensusUp
  <2>2. CASE pc[t] = "wokeW"
    <3>1. Counted' = Counted
      BY <1>4, <2>2 DEF At
    <3> QED
      BY <3>1, <2>2, Census
  <2> QED
    BY <2>1, <2>2
<1>6. TypeOK'
  BY <1>1 DEF IInv, TypeOK, MayWrite
<1>7. CountersExact'
  BY <1>3, <1>5 DEF IInv, CountersExact
<1>8. CASE MayWrite
  <2>1. Reading = {} /\ Writing = {} /\ Writing' = {t} /\ write_flag' = TRUE
    BY <1>2, <1>8, Predicates
  <2>2. At({"reading", "writing"})' # {}
    BY <1>2, <1>8
  <2> QED
    BY <1>3, <1>4, <1>6, <1>7, <2>1, <2>2
       DEF IInv, FlagExact, MutualExclusion, NoLostWakeup
<1>9. CASE ~MayWrite
  <2>1. Writing' = Writing
    BY <1>1, <1>2, <1>9 DEF At
  <2>2. At({"reading", "writing"})' # {}
    <3>1. Reading # {} \/ Writing # {}
      BY <1>9, Predicates
    <3> QED
      BY <1>3, <2>1, <3>1 DEF At
  <2>3. (write_flag <=> Writing # {})'
    BY <1>9, <2>1 DEF IInv, FlagExact
  <2> QED
    BY <1>3, <1>4, <1>6, <1>7, <2>1, <2>2, <2>3
       DEF IInv, FlagExact, MutualExclusion, NoLostWakeup
<1> QED
  BY <1>8, <1>9

(* A writer that leaves wakes a writer, or all readers if none is left. *)
LEMMA WriteUnlockKeeps ==
    ASSUME IInv, NEW t \in Threads, WriteUnlock(t) PROVE IInv'
<1> USE DEF Reading, Writing, Counted
<1> DEFINE p == [pc EXCEPT ![t] = "idle"]
           AtP(S) == {u \in Threads : p[u] \in S}
<1>1. /\ pc \in [Threads -> States] /\ p \in [Threads -> States] /\ pc[t] = "writing"
      /\ write_cnt' = write_cnt - 1 /\ write_flag' = FALSE /\ read_cnt' = read_cnt
  BY DEF IInv, TypeOK, WriteUnlock, States
<1>2. /\ AtP({"waitW", "wokeW", "writing"}) = Counted \ {t}
      /\ \A S : "writing" \notin S /\ "idle" \notin S => AtP(S) = At(S)
  BY <1>1 DEF At
<1>3. Cardinality(Counted \ {t}) = Cardinality(Counted) - 1
  BY <1>1, CensusDown
<1>4. Reading = {} /\ AtP({"writing"}) = {}
  BY <1>1 DEF IInv, MutualExclusion, At
<1>5. write_cnt' \in Nat /\ write_cnt' = Cardinality(Counted \ {t})
  <2>1. IsFiniteSet(Counted \ {t})
    BY Census, FS_RemoveElement
  <2> QED
    BY <1>1, <1>3, <2>1, FS_CardinalityType DEF IInv, CountersExact
<1>6. CASE write_cnt' = 0 /\ pc' = NotifyAllReaders(p)
  <2>1. \A u \in Threads : pc'[u] = IF p[u] = "waitR" THEN "wokeR" ELSE p[u]
    BY <1>6 DEF NotifyAllReaders
  <2>2. TypeOK'
    BY <1>1, <1>5, <1>6 DEF IInv, TypeOK, NotifyAllReaders, States
  <2>3. /\ At({"reading"})' = AtP({"reading"}) /\ At({"writing"})' = AtP({"writing"})
        /\ At({"waitW", "wokeW", "writing"})' = AtP({"waitW", "wokeW", "writing"})
        /\ At({"waitR"})' = {} /\ At({"waitW"})' = AtP({"waitW"})
    BY <2>1 DEF At
  <2>4. Counted \ {t} = {}
    BY <1>5, <1>6, Census, FS_RemoveElement, FS_EmptySet
  <2>5. At({"waitW"})' = {}
    BY <1>2, <2>3, <2>4
  <2> QED
    BY <1>1, <1>2, <1>4, <1>5, <2>2, <2>3, <2>5
       DEF IInv, CountersExact, FlagExact, MutualExclusion, NoLostWakeup
<1>7. CASE write_cnt' # 0 /\ pc' \in NotifyOneWriter(p)
  <2>1. pc' \in [Threads -> States]
    BY <1>1, <1>7, NotifyOne
  <2>2. /\ At({"reading"})' = AtP({"reading"}) /\ At({"writing"})' = AtP({"writing"})
        /\ At({"waitW", "wokeW", "writing"})' = AtP({"waitW", "wokeW", "writing"})
    BY <1>1, <1>7, NotifyOne
  <2>3. At({"waitW"})' # {} => At({"wokeW"})' # {}
    BY <1>1, <1>7, NotifyOne
  <2>4. TypeOK'
    BY <1>1, <1>5, <1>7, <2>1 DEF IInv, TypeOK
  <2>5. Counted \ {t} # {}
    BY <1>5, <1>7, FS_EmptySet
  <2> QED
    BY <1>1, <1>2, <1>4, <1>5, <2>2, <2>3, <2>4, <2>5
       DEF IInv, CountersExact, FlagExact, MutualExclusion, NoLostWakeup
<1> QED
  BY <1>6, <1>7 DEF WriteUnlock

(* A wakeup without a notification changes no counter. *)
LEMMA SpuriousWakeKeeps ==
    ASSUME IInv, NEW t \in Threads, SpuriousWake(t) PROVE IInv'
<1> USE DEF Reading, Writing, Counted
<1> DEFINE v == IF pc[t] = "waitR" THEN "wokeR" ELSE "wokeW"
<1>1. /\ pc \in [Threads -> States] /\ v \in States /\ pc[t] \in {"waitR", "waitW"}
      /\ pc' = [pc EXCEPT ![t] = v] /\ UNCHANGED <<read_cnt, write_cnt, write_flag>>
  BY DEF IInv, TypeOK, SpuriousWake, States
<1>2. \A S : At(S)' = IF v \in S THEN At(S) \cup {t} ELSE At(S) \ {t}
  BY <1>1, MoveOne
<1>3. Reading' = Reading /\ Writing' = Writing /\ Counted' = Counted
  BY <1>1, <1>2 DEF At
<1>4. /\ At({"waitR"})' \subseteq At({"waitR"}) /\ At({"waitW"})' \subseteq At({"waitW"})
      /\ At({"wokeW"}) \subseteq At({"wokeW"})'
      /\ At({"waitW"})' # At({"waitW"}) => At({"wokeW"})' # {}
  BY <1>1, <1>2 DEF At
<1>5. TypeOK'
  BY <1>1 DEF IInv, TypeOK
<1>6. /\ At({"waitW"}) # {} /\ At({"reading", "writing"}) = {} => At({"wokeW"}) # {}
      /\ At({"reading", "writing"})' = At({"reading", "writing"})
  BY <1>1, <1>2 DEF IInv, NoLostWakeup, At
<1> QED
  BY <1>1, <1>3, <1>4, <1>5, <1>6
     DEF IInv, CountersExact, FlagExact, MutualExclusion, NoLostWakeup

(* Every step keeps IInv. *)
LEMMA NextKeeps == IInv /\ [Next]_vars => IInv'
<1> SUFFICES ASSUME IInv, [Next]_vars PROVE IInv'
  OBVIOUS
<1>1. ASSUME NEW t \in Threads, ReadLock(t) PROVE IInv'
  BY <1>1, ReadLockKeeps
<1>2. ASSUME NEW t \in Threads, ReadUnlock(t) PROVE IInv'
  BY <1>2, ReadUnlockKeeps
<1>3. ASSUME NEW t \in Threads, WriteLock(t) \/ WriteWake(t) PROVE IInv'
  <2>1. write_cnt \in Nat
    BY DEF IInv, TypeOK
  <2> QED
    BY <1>3, <2>1, WriterTests DEF WriteLock, WriteWake
<1>4. ASSUME NEW t \in Threads, WriteUnlock(t) PROVE IInv'
  BY <1>4, WriteUnlockKeeps
<1>5. ASSUME NEW t \in Threads, SpuriousWake(t) PROVE IInv'
  BY <1>5, SpuriousWakeKeeps
<1>6. CASE UNCHANGED vars
  BY <1>6 DEF vars, IInv, TypeOK, CountersExact, FlagExact, MutualExclusion,
              NoLostWakeup, At, Writing
<1> QED
  BY <1>1, <1>2, <1>3, <1>4, <1>5, <1>6 DEF Next

-----------------------------------------------------------------------------
(* In every behaviour the threads are in known places, the counters are    *)
(* exact, the sections exclude each other and no wakeup is lost.           *)
THEOREM LockSafe ==
    Spec => [](TypeOK /\ CountersExact /\ MutualExclusion /\ NoLostWakeup)
<1>1. IInv => TypeOK /\ CountersExact /\ MutualExclusion /\ NoLostWakeup
  BY DEF IInv
<1> QED
  BY <1>1, InitIInv, NextKeeps, PTL DEF Spec

(* What the predicates of the two waits read is true: between two steps the *)
(* counters are the number of the readers inside and of the writers        *)
(* inside and waiting.                                                     *)
THEOREM LockCountsExact == Spec => []CountersExact
  BY LockSafe, PTL

(* No thread begins to read while another writes or asked to write. *)
THEOREM WritersGoFirst == Spec => WritersFirst
<1>1. IInv /\ [Next]_vars =>
        [\A t \in Threads : pc[t] # "reading" /\ pc'[t] = "reading"
             => At({"waitW", "wokeW", "writing"}) = {}]_vars
  <2> SUFFICES ASSUME IInv, Next, NEW t \in Threads,
                      pc[t] # "reading", pc'[t] = "reading"
               PROVE  Counted = {}
    BY DEF Counted
  <2>1. pc \in [Threads -> States]
    BY DEF IInv, TypeOK
  <2>2. ASSUME NEW p \in [Threads -> States], p[t] # "reading",
               pc' \in NotifyOneWriter(p) \/ pc' = NotifyAllReaders(p) \/ pc' = p
        PROVE  FALSE
    BY <2>2 DEF NotifyOneWriter, NotifyAllReaders
  <2>3. ASSUME NEW u \in Threads, ReadUnlock(u) \/ WriteUnlock(u) PROVE FALSE
    <3>1. [pc EXCEPT ![u] = "idle"] \in [Threads -> States]
      BY <2>1 DEF States
    <3>2. [pc EXCEPT ![u] = "idle"][t] # "reading"
      BY <2>1
    <3> QED
      BY <2>2, <2>3, <3>1, <3>2 DEF ReadUnlock, WriteUnlock
  <2>4. ASSUME NEW u \in Threads, WriteLock(u) \/ WriteWake(u) \/ SpuriousWake(u)
        PROVE  FALSE
    BY <2>1, <2>4 DEF WriteLock, WriteWake, SpuriousWake
  <2>5. ASSUME NEW u \in Threads, ReadLock(u) PROVE Counted = {}
    <3>1. MayRead
      BY <2>1, <2>5 DEF ReadLock
    <3> QED
      BY <3>1, Predicates
  <2> QED
    BY <2>3, <2>4, <2>5 DEF Next
<1> QED
  BY <1>1, InitIInv, NextKeeps, PTL DEF Spec, WritersFirst

-----------------------------------------------------------------------------
(* Each step of the lock is a step of its promise, or none. *)
LEMMA StepsOfThePromise ==
    ASSUME IInv, [Next]_vars PROVE [Promise!Next]_Promise!vars
<1> USE DEF Reading, Writing, Wanting, Counted
<1> USE DEF Promise!Next, Promise!vars, Promise!Outside, Promise!EnterRead,
        Promise!LeaveRead, Promise!WantWrite, Promise!EnterWrite, Promise!LeaveWrite
<1>1. pc \in [Threads -> States]
  BY DEF IInv, TypeOK
<1>3. ASSUME NEW t \in Threads, ReadLock(t) PROVE [Promise!Next]_Promise!vars
  <2>1. CASE MayRead /\ pc' = [pc EXCEPT ![t] = "reading"]
    <3>1. Counted = {}
      BY <2>1, Predicates
    <3>2. Writing = {} /\ Wanting = {}
      BY <3>1 DEF At
    <3>3. /\ Reading' = Reading \cup {t}
          /\ Writing' = Writing \ {t} /\ Wanting' = Wanting \ {t}
      BY <1>1, <2>1 DEF At
    <3>4. t \notin Reading
      BY <1>3 DEF ReadLock, At
    <3>5. Promise!EnterRead(t)
      BY <3>2, <3>3, <3>4
    <3> QED
      BY <3>5
  <2>2. CASE pc' = [pc EXCEPT ![t] = "waitR"]
    <3>1. pc[t] \notin {"reading", "writing", "waitW", "wokeW"}
      BY <1>3 DEF ReadLock
    <3>2. Reading' = Reading /\ Writing' = Writing /\ Wanting' = Wanting
      BY <1>1, <2>2, <3>1 DEF At
    <3> QED
      BY <3>2
  <2> QED
    BY <1>3, <2>1, <2>2 DEF ReadLock
<1>4. ASSUME NEW t \in Threads, NEW p, p = [pc EXCEPT ![t] = "idle"],
             pc[t] \in {"reading", "writing"},
             pc' \in NotifyOneWriter(p) \/ pc' = NotifyAllReaders(p) \/ pc' = p
      PROVE  /\ Reading' = Reading \ {t}
             /\ Writing' = Writing \ {t}
             /\ Wanting' = Wanting
  BY <1>1, <1>4 DEF NotifyOneWriter, NotifyAllReaders, At
<1>5. ASSUME NEW t \in Threads, ReadUnlock(t) PROVE [Promise!Next]_Promise!vars
  <2>1. t \in Reading /\ Writing = {}
    BY <1>5 DEF ReadUnlock, At, IInv, MutualExclusion
  <2>2. Reading' = Reading \ {t} /\ Writing' = Writing \ {t} /\ Wanting' = Wanting
    BY <1>4, <1>5 DEF ReadUnlock
  <2>3. Promise!LeaveRead(t)
    BY <2>1, <2>2
  <2> QED
    BY <2>3
<1>6. ASSUME NEW t \in Threads, WriteUnlock(t) PROVE [Promise!Next]_Promise!vars
  <2>1. Writing = {t} /\ Reading = {}
    BY <1>6 DEF WriteUnlock, At, IInv, MutualExclusion
  <2>2. Reading' = Reading \ {t} /\ Writing' = Writing \ {t} /\ Wanting' = Wanting
    BY <1>4, <1>6 DEF WriteUnlock
  <2>3. Promise!LeaveWrite(t)
    BY <2>1, <2>2
  <2> QED
    BY <2>3
<1>7. ASSUME NEW t \in Threads, pc[t] \in {"idle", "wokeW"},
             pc' = [pc EXCEPT ![t] = IF MayWrite THEN "writing" ELSE "waitW"]
      PROVE  [Promise!Next]_Promise!vars
  <2>1. t \in Wanting \/ Promise!Outside(t)
    BY <1>7 DEF At
  <2>2. CASE MayWrite
    <3>1. Reading = {} /\ Writing = {}
      BY <2>2, Predicates
    <3>2. /\ Reading' = Reading \ {t} /\ Wanting' = Wanting \ {t}
          /\ Writing' = Writing \cup {t}
      BY <1>1, <1>7, <2>2 DEF At
    <3>3. Promise!EnterWrite(t)
      BY <2>1, <3>1, <3>2
    <3> QED
      BY <3>3
  <2>3. CASE ~MayWrite
    <3>1. Reading' = Reading /\ Writing' = Writing /\ Wanting' = Wanting \cup {t}
      BY <1>1, <1>7, <2>3 DEF At
    <3>2. t \in Wanting => UNCHANGED Promise!vars
      BY <3>1
    <3>3. Promise!Outside(t) => Promise!WantWrite(t)
      BY <3>1
    <3> QED
      BY <2>1, <3>2, <3>3
  <2> QED
    BY <2>2, <2>3
<1>8. ASSUME NEW t \in Threads, SpuriousWake(t) PROVE [Promise!Next]_Promise!vars
  <2>1. Reading' = Reading /\ Writing' = Writing /\ Wanting' = Wanting
    BY <1>1, <1>8 DEF SpuriousWake, At
  <2> QED
    BY <2>1
<1>9. CASE UNCHANGED vars
  BY <1>9 DEF vars, At
<1> QED
  BY <1>3, <1>5, <1>6, <1>7, <1>8, <1>9 DEF Next, WriteLock, WriteWake

(* wfirst_rw_lock is a writers-first readers-writer lock. *)
THEOREM LockKeepsItsPromise == Spec => ImplementsPromise
<1>1. Init => Promise!Init
  BY DEF Init, Promise!Init, At
<1> QED
  BY <1>1, InitIInv, NextKeeps, StepsOfThePromise, PTL
     DEF Spec, ImplementsPromise, Promise!Spec
=============================================================================
