----------------------------- MODULE ServerProofs -----------------------------
(***************************************************************************)
(* Theorems about Server, for any number of sessions and any pools, and    *)
(* about the pipeline that each of its contexts has: add_handler keeps the *)
(* list in order, its two chains of links mirror each other.               *)
(***************************************************************************)
EXTENDS Server, TLAPS

-----------------------------------------------------------------------------
(* The pipeline, for any list of contexts. *)

(* The order with a context put in front of the tail. *)
BeforeTail(path, c) == Append([path EXCEPT ![Len(path)] = c], "tail")

(* The links of a new pipeline are in order (pipeline::pipeline). *)
THEOREM NewPipelineInOrder == InOrder(NewPipeline, <<"head", "tail">>)
<1> DEFINE path == <<"head", "tail">>
<1>1. /\ Contexts(NewPipeline) = Ends /\ DOMAIN NewPipeline.prev = Ends
      /\ NewPipeline.next["head"] = "tail" /\ NewPipeline.next["tail"] = "null"
      /\ NewPipeline.prev["tail"] = "head" /\ NewPipeline.prev["head"] = "null"
  BY DEF Contexts, NewPipeline, Ends
<1>2. path \in Seq(Ends) /\ Len(path) = 2 /\ path[1] = "head" /\ path[2] = "tail"
  BY DEF Ends
<1>3. 1..Len(path) = {1, 2} /\ 1..Len(path) - 1 = {1}
  BY <1>2
<1> QED
  BY <1>1, <1>2, <1>3 DEF InOrder, Ends

(* Where the members of the longer order are. *)
LEMMA LongerPath ==
    ASSUME NEW S, NEW path \in Seq(S), Len(path) >= 2, NEW c, "tail" \in S
    PROVE  /\ BeforeTail(path, c) \in Seq(S \cup {c})
           /\ Len(BeforeTail(path, c)) = Len(path) + 1
           /\ \A k \in 1..Len(path) - 1 : BeforeTail(path, c)[k] = path[k]
           /\ BeforeTail(path, c)[Len(path)] = c
           /\ BeforeTail(path, c)[Len(path) + 1] = "tail"
<1> DEFINE r == [path EXCEPT ![Len(path)] = c]
<1>1. Len(path) \in Nat /\ DOMAIN path = 1..Len(path)
  OBVIOUS
<1>2. r \in Seq(S \cup {c}) /\ Len(r) = Len(path)
  BY <1>1
<1>3. /\ r[Len(path)] = c /\ Len(path) \in 1..Len(path)
      /\ \A k \in 1..Len(path) - 1 : k \in 1..Len(path) /\ r[k] = path[k]
  <2>1. /\ Len(path) \in 1..Len(path)
        /\ \A k \in 1..Len(path) - 1 : k \in 1..Len(path) /\ k # Len(path)
    <3>1. \A n \in Nat : n >= 2 => n \in 1..n /\ \A k \in 1..n - 1 : k \in 1..n /\ k # n
      OBVIOUS
    <3> QED
      BY <1>1, <3>1
  <2>2. \A k \in DOMAIN path : r[k] = IF k = Len(path) THEN c ELSE path[k]
    OBVIOUS
  <2> HIDE DEF r
  <2> QED
    BY <1>1, <2>1, <2>2
<1>4. BeforeTail(path, c) = Append(r, "tail")
  BY DEF BeforeTail
<1> HIDE DEF r
<1>5. /\ Append(r, "tail") \in Seq(S \cup {c}) /\ Len(Append(r, "tail")) = Len(path) + 1
      /\ Append(r, "tail")[Len(path) + 1] = "tail"
  BY <1>1, <1>2
<1>6. \A k \in 1..Len(path) : Append(r, "tail")[k] = r[k]
  BY <1>1, <1>2
<1>7. \A k \in 1..Len(path) - 1 : Append(r, "tail")[k] = path[k]
  BY <1>1, <1>3, <1>6
<1>8. Append(r, "tail")[Len(path)] = c
  BY <1>1, <1>3, <1>6
<1> QED
  BY <1>4, <1>5, <1>7, <1>8

(* add_handler keeps the list in order: its four assignments put the new   *)
(* context behind every other handler, where events from the head meet it  *)
(* last and events from the tail first, and no link is lost.               *)
THEOREM AddHandlerKeepsOrder ==
    ASSUME NEW p, NEW path, InOrder(p, path), NEW c, c \notin Contexts(p) \cup {"null"}
    PROVE  InOrder(AddHandler(p, c), BeforeTail(path, c))
<1> DEFINE n == Len(path)
           q == BeforeTail(path, c)
           a == AddHandler(p, c)
           last == p.prev["tail"]
<1> SUFFICES InOrder(a, q)
  OBVIOUS
<1>1. /\ path \in Seq(Contexts(p)) /\ n \in Nat /\ n >= 2 /\ DOMAIN p.prev = Contexts(p)
      /\ path[1] = "head" /\ path[n] = "tail"
      /\ p.prev["head"] = "null" /\ p.next["tail"] = "null"
  BY DEF InOrder
<1>2. \A k \in 1..n : path[k] \in Contexts(p)
  BY <1>1
<1>3. \A k \in 1..n - 1 : p.next[path[k]] = path[k + 1] /\ p.prev[path[k + 1]] = path[k]
  BY DEF InOrder
<1>4. \A j, k \in 1..n : path[j] = path[k] => j = k
  BY DEF InOrder
<1>5. "head" \in Contexts(p) /\ "tail" \in Contexts(p) /\ "head" # "tail"
  BY <1>1, <1>2
<1>6. last = path[n - 1]
  BY <1>1, <1>3
<1>7. /\ Contexts(a) = Contexts(p) \cup {c} /\ DOMAIN a.prev = Contexts(p) \cup {c}
      /\ a.next[c] = "tail" /\ a.prev[c] = last
      /\ a.next[last] = c /\ a.prev["tail"] = c
      /\ \A x \in Contexts(p) \ {last} : a.next[x] = p.next[x]
      /\ \A x \in Contexts(p) \ {"tail"} : a.prev[x] = p.prev[x]
  <2>1. last \in Contexts(p) /\ c # last /\ c # "tail"
    BY <1>1, <1>2, <1>5, <1>6
  <2> QED
    BY <1>5, <2>1 DEF AddHandler, Contexts
<1>8. /\ q \in Seq(Contexts(p) \cup {c}) /\ Len(q) = n + 1
      /\ \A k \in 1..n - 1 : q[k] = path[k]
      /\ q[n] = c /\ q[n + 1] = "tail"
  <2>1. path \in Seq(Contexts(p)) /\ Len(path) >= 2 /\ "tail" \in Contexts(p)
    BY <1>1, <1>5
  <2>2. /\ BeforeTail(path, c) \in Seq(Contexts(p) \cup {c})
        /\ Len(BeforeTail(path, c)) = Len(path) + 1
        /\ \A k \in 1..Len(path) - 1 : BeforeTail(path, c)[k] = path[k]
        /\ BeforeTail(path, c)[Len(path)] = c
        /\ BeforeTail(path, c)[Len(path) + 1] = "tail"
    <3> HIDE DEF n, q, a, last
    <3> QED
      BY <2>1, LongerPath
  <2> QED
    BY <2>2
<1> HIDE DEF a, q
<1>9. \A k \in 1..n : a.next[q[k]] = q[k + 1] /\ a.prev[q[k + 1]] = q[k]
  <2> SUFFICES ASSUME NEW k \in 1..n
               PROVE  a.next[q[k]] = q[k + 1] /\ a.prev[q[k + 1]] = q[k]
    OBVIOUS
  <2>1. CASE k = n
    BY <1>1, <1>7, <1>8, <2>1
  <2>2. CASE k = n - 1
    <3>1. q[k] = last /\ q[k + 1] = c
      BY <1>1, <1>6, <1>8, <2>2
    <3> QED
      BY <1>7, <3>1
  <2>3. CASE k < n - 1
    <3>1. k \in 1..n - 1 /\ k + 1 \in 1..n - 1
      BY <1>1, <2>3
    <3>2. q[k] = path[k] /\ q[k + 1] = path[k + 1]
      BY <1>8, <3>1
    <3>3. path[k] \in Contexts(p) \ {last} /\ path[k + 1] \in Contexts(p) \ {"tail"}
      BY <1>1, <1>2, <1>4, <1>6, <2>3
    <3> QED
      BY <1>3, <1>7, <3>1, <3>2, <3>3
  <2> QED
    BY <1>1, <2>1, <2>2, <2>3
<1>10. \A j, k \in 1..n + 1 : q[j] = q[k] => j = k
  <2>1. \A k \in 1..n - 1 : q[k] # c /\ q[k] # "tail"
    BY <1>1, <1>2, <1>4, <1>8
  <2>2. \A j, k \in 1..n - 1 : q[j] = q[k] => j = k
    BY <1>1, <1>4, <1>8
  <2>3. c # "tail"
    BY <1>5
  <2> QED
    BY <1>1, <1>8, <2>1, <2>2, <2>3
<1>11. \A x \in Contexts(p) \cup {c} : \E k \in 1..n + 1 : q[k] = x
  <2> SUFFICES ASSUME NEW x \in Contexts(p) \cup {c}
               PROVE  \E k \in 1..n + 1 : q[k] = x
    OBVIOUS
  <2>1. CASE x = c
    BY <1>1, <1>8, <2>1
  <2>2. CASE x = "tail"
    BY <1>1, <1>8, <2>2
  <2>3. CASE x \in Contexts(p) \ {"tail"}
    <3>1. PICK k \in 1..n : path[k] = x
      BY <2>3 DEF InOrder
    <3>2. k \in 1..n - 1
      BY <1>1, <2>3, <3>1
    <3> QED
      BY <1>1, <1>8, <3>1, <3>2
  <2> QED
    BY <2>1, <2>2, <2>3
<1>12. q[1] = "head" /\ a.prev["head"] = "null" /\ a.next["tail"] = "null"
  <2>1. last # "tail"
    BY <1>1, <1>4, <1>6
  <2> QED
    BY <1>1, <1>5, <1>7, <1>8, <2>1
<1>13. 1..Len(q) - 1 = 1..n /\ 1..Len(q) = 1..n + 1 /\ q[Len(q)] = "tail" /\ Len(q) >= 2
  BY <1>1, <1>8
<1>14. Contexts(a) = Contexts(p) \cup {c} /\ DOMAIN a.prev = Contexts(p) \cup {c}
  BY <1>7
<1> HIDE DEF n, last
<1> QED
  BY <1>8, <1>9, <1>10, <1>11, <1>12, <1>13, <1>14, Zenon DEF InOrder

-----------------------------------------------------------------------------
(* The server. *)


(* Where each thread can be. *)
Places ==
    /\ pc[Acc] \in {"idle", "connect", "inConnect", "read", "sweep", "idleClose", "stuck"}
    /\ pc[Main] \in {"idle", "done"} \cup Api
    /\ \A th \in Io : pc[th] \in {"idle", "clean", "inClean", "remove", "stuck"}
    /\ \A th \in WorkTh : pc[th] \in {"idle", "message", "inMessage", "stuck"}

(* net_manager's mutex is held by who is in a callback, for good by who    *)
(* locked it again there, and by nobody else.                              *)
Inside(th) == InCallback(th) \/ pc[th] = "stuck"

MutexExact == \A th \in Threads : Inside(th) <=> mutex = th

(* An I/O thread that is not idle is at the end of a session of its own.   *)
AtTheEnd ==
    \A th \in Io : pc[th] # "idle" =>
        /\ at[th] \in Ids /\ th = IoOf(at[th]) /\ stage[at[th]] = "told"
        /\ pc[th] \in {"inClean", "remove"} => at[th] \notin contexts

(* The accept thread starts a session, or closes an idle one that the      *)
(* sweep still keeps in session_map.                                       *)
AtTheStart ==
    /\ pc[Acc] \in {"connect", "inConnect", "read", "idleClose"} => at[Acc] \in Ids
    /\ pc[Acc] = "connect" => stage[at[Acc]] = "new" /\ at[Acc] \notin contexts
    /\ pc[Acc] \in {"inConnect", "read"} /\ stage[at[Acc]] = "new" => at[Acc] \in contexts
    /\ pc[Acc] = "idleClose" => at[Acc] \in session_map

(* A work thread that is not idle runs a handler that was counted.         *)
AtAMessage ==
    \A th \in WorkTh : pc[th] # "idle" =>
        at[th] \in Ids /\ th = WorkOf(at[th]) /\ unread[at[th]] > 0

IInv ==
    /\ TypeOK /\ Places /\ MutexExact /\ AtTheEnd /\ AtTheStart /\ AtAMessage
    /\ ContextsExact /\ InOneMap

-----------------------------------------------------------------------------
(* What is said of the threads. *)
LEMMA ThreadFacts ==
    /\ Acc \in Threads /\ Main \in Threads /\ Io \subseteq Threads /\ WorkTh \subseteq Threads
    /\ Acc # Main /\ Acc \notin Io /\ Acc \notin WorkTh /\ Main \notin Io /\ Main \notin WorkTh
    /\ \A th \in Io : th \notin WorkTh
    /\ Nobody \notin Threads
    /\ \A th \in Threads : th = Acc \/ th = Main \/ th \in Io \/ th \in WorkTh
BY ServerAssumption DEF Threads

(* get_io_service deals out threads of the pool. *)
LEMMA PoolFacts ==
    ASSUME NEW i \in Ids
    PROVE  IoOf(i) \in Io /\ WorkOf(i) \in WorkTh
<1>1. \A n \in Nat \ {0} : ((i - 1) % n) + 1 \in 1..n
  BY DEF Ids
<1> QED
  BY <1>1, ServerAssumption DEF IoOf, WorkOf, Io, WorkTh

(* init_handlers of main: the script hears what comes from the session,    *)
(* and the session what the script asks for.                               *)
LEMMA AppFacts == Hears("connect") /\ Hears("read") /\ Hears("notify_closed") /\ Reaches("close")
<1>1. /\ Contexts(App) = {"head", "tail", "decoder", "script"}
      /\ App.next["head"] = "decoder" /\ App.next["decoder"] = "script"
      /\ App.prev["script"] = "decoder" /\ App.prev["decoder"] = "head"
  BY DEF App, AddHandler, NewPipeline, Contexts, Ends
<1>2. \A e \in Upward : Hears(e)
  BY <1>1 DEF Hears, Sees, Onward, Keeps
<1>3. "close" \notin Upward
  BY DEF Upward
<1>4. Reaches("close")
  BY <1>1, <1>3 DEF Reaches, Sees, Onward, Keeps
<1> QED
  BY <1>2, <1>4 DEF Upward

(* The new session is put into session_map before anyone else can know it. *)
LEMMA HandleAcceptKeeps ==
    ASSUME IInv, NEW i \in Ids, HandleAccept(i)
    PROVE  IInv'
<1> USE ThreadFacts, AppFacts DEF HandleAccept, GotoFor
<1>0. TypeOK /\ Places /\ MutexExact /\ AtTheEnd /\ AtTheStart /\ AtAMessage
      /\ ContextsExact /\ InOneMap
  BY DEF IInv
<1>1. TypeOK'
  BY <1>0 DEF TypeOK, Labels
<1>2. Places'
  BY <1>0 DEF Places, TypeOK
<1>3. MutexExact'
  BY <1>0 DEF MutexExact, TypeOK, Inside, InCallback
<1>4. AtTheEnd'
  BY <1>0 DEF AtTheEnd, TypeOK
<1>5. AtTheStart'
  BY <1>0 DEF AtTheStart, TypeOK, ContextsExact, Alive
<1>6. AtAMessage'
  BY <1>0 DEF AtAMessage, TypeOK
<1>7. ContextsExact'
  BY <1>0 DEF ContextsExact, TypeOK, Alive
<1>8. InOneMap'
  BY <1>0 DEF InOneMap, TypeOK, Alive
<1> QED
  BY <1>1, <1>2, <1>3, <1>4, <1>5, <1>6, <1>7, <1>8 DEF IInv

(* Under the mutex, the context of the session that starts is put in.      *)
LEMMA OnConnectKeeps ==
    ASSUME IInv, OnConnect
    PROVE  IInv'
<1> USE ThreadFacts DEF OnConnect, maps, Goto
<1>0. TypeOK /\ Places /\ MutexExact /\ AtTheEnd /\ AtTheStart /\ AtAMessage
      /\ ContextsExact /\ InOneMap
  BY DEF IInv
<1>1. TypeOK'
  BY <1>0 DEF TypeOK, AtTheStart, Labels
<1>2. Places'
  BY <1>0 DEF Places, TypeOK
<1>3. MutexExact'
  BY <1>0 DEF MutexExact, TypeOK, Inside, InCallback
<1>4. AtTheEnd'
  BY <1>0 DEF AtTheEnd, TypeOK, AtTheStart
<1>5. AtTheStart'
  BY <1>0 DEF AtTheStart, TypeOK
<1>6. AtAMessage'
  BY <1>0 DEF AtAMessage, TypeOK
<1>7. ContextsExact'
  BY <1>0 DEF ContextsExact, TypeOK, AtTheStart, Alive
<1>8. InOneMap'
  BY <1>0 DEF InOneMap, TypeOK, Alive
<1> QED
  BY <1>1, <1>2, <1>3, <1>4, <1>5, <1>6, <1>7, <1>8 DEF IInv

(* The session is open from here on, and its context was put in before.    *)
LEMMA StartReadingKeeps ==
    ASSUME IInv, StartReading
    PROVE  IInv'
<1> USE ThreadFacts DEF StartReading, maps, GotoFor
<1>0. TypeOK /\ Places /\ MutexExact /\ AtTheEnd /\ AtTheStart /\ AtAMessage
      /\ ContextsExact /\ InOneMap
  BY DEF IInv
<1>1. TypeOK'
  BY <1>0 DEF TypeOK, AtTheStart, Labels
<1>2. Places'
  BY <1>0 DEF Places, TypeOK
<1>3. MutexExact'
  BY <1>0 DEF MutexExact, TypeOK, Inside, InCallback
<1>4. AtTheEnd'
  BY <1>0 DEF AtTheEnd, TypeOK
<1>5. AtTheStart'
  BY <1>0 DEF AtTheStart, TypeOK
<1>6. AtAMessage'
  BY <1>0 DEF AtAMessage, TypeOK
<1>7. ContextsExact'
  BY <1>0 DEF ContextsExact, TypeOK, AtTheStart, Alive
<1>8. InOneMap'
  BY <1>0 DEF InOneMap, TypeOK, Alive
<1> QED
  BY <1>1, <1>2, <1>3, <1>4, <1>5, <1>6, <1>7, <1>8 DEF IInv

(* The sweep begins at the lowest id.                                      *)
LEMMA CheckIdleKeeps ==
    ASSUME IInv, CheckIdle
    PROVE  IInv'
<1> USE ThreadFacts DEF CheckIdle, maps, GotoFor
<1>0. TypeOK /\ Places /\ MutexExact /\ AtTheEnd /\ AtTheStart /\ AtAMessage
      /\ ContextsExact /\ InOneMap
  BY DEF IInv
<1>1. TypeOK'
  BY <1>0 DEF TypeOK, Labels
<1>2. Places'
  BY <1>0 DEF Places, TypeOK
<1>3. MutexExact'
  BY <1>0 DEF MutexExact, TypeOK, Inside, InCallback
<1>4. AtTheEnd'
  BY <1>0 DEF AtTheEnd, TypeOK
<1>5. AtTheStart'
  BY <1>0 DEF AtTheStart, TypeOK
<1>6. AtAMessage'
  BY <1>0 DEF AtAMessage, TypeOK
<1>7. ContextsExact'
  BY <1>0 DEF ContextsExact, TypeOK, Alive
<1>8. InOneMap'
  BY <1>0 DEF InOneMap, TypeOK, Alive
<1> QED
  BY <1>1, <1>2, <1>3, <1>4, <1>5, <1>6, <1>7, <1>8 DEF IInv

(* The sweep comes to a session that session_map keeps.                    *)
LEMMA FindIdleKeeps ==
    ASSUME IInv, NEW i \in Ids, FindIdle(i)
    PROVE  IInv'
<1> USE ThreadFacts DEF FindIdle, maps, GotoFor
<1>0. TypeOK /\ Places /\ MutexExact /\ AtTheEnd /\ AtTheStart /\ AtAMessage
      /\ ContextsExact /\ InOneMap
  BY DEF IInv
<1>1. TypeOK'
  BY <1>0 DEF TypeOK, Labels
<1>2. Places'
  BY <1>0 DEF Places, TypeOK
<1>3. MutexExact'
  BY <1>0 DEF MutexExact, TypeOK, Inside, InCallback
<1>4. AtTheEnd'
  BY <1>0 DEF AtTheEnd, TypeOK
<1>5. AtTheStart'
  BY <1>0 DEF AtTheStart, TypeOK
<1>6. AtAMessage'
  BY <1>0 DEF AtAMessage, TypeOK
<1>7. ContextsExact'
  BY <1>0 DEF ContextsExact, TypeOK, Alive
<1>8. InOneMap'
  BY <1>0 DEF InOneMap, TypeOK, Alive
<1> QED
  BY <1>1, <1>2, <1>3, <1>4, <1>5, <1>6, <1>7, <1>8 DEF IInv

(* The session goes from one map to the other.                             *)
LEMMA IdleCloseKeeps ==
    ASSUME IInv, IdleClose
    PROVE  IInv'
<1> USE ThreadFacts DEF IdleClose, Goto, Asked
<1>0. TypeOK /\ Places /\ MutexExact /\ AtTheEnd /\ AtTheStart /\ AtAMessage
      /\ ContextsExact /\ InOneMap
  BY DEF IInv
<1>1. TypeOK'
  BY <1>0 DEF TypeOK, AtTheStart, Labels
<1>2. Places'
  BY <1>0 DEF Places, TypeOK
<1>3. MutexExact'
  BY <1>0 DEF MutexExact, TypeOK, Inside, InCallback
<1>4. AtTheEnd'
  BY <1>0 DEF AtTheEnd, TypeOK
<1>5. AtTheStart'
  BY <1>0 DEF AtTheStart, TypeOK
<1>6. AtAMessage'
  BY <1>0 DEF AtAMessage, TypeOK
<1>7. ContextsExact'
  BY <1>0 DEF ContextsExact, TypeOK, Alive
<1>8. InOneMap'
  BY <1>0 DEF InOneMap, TypeOK, AtTheStart, Alive
<1> QED
  BY <1>1, <1>2, <1>3, <1>4, <1>5, <1>6, <1>7, <1>8 DEF IInv

(* The lock is given back.                                                 *)
LEMMA SweepEndsKeeps ==
    ASSUME IInv, SweepEnds
    PROVE  IInv'
<1> USE ThreadFacts DEF SweepEnds, maps, GotoFor
<1>0. TypeOK /\ Places /\ MutexExact /\ AtTheEnd /\ AtTheStart /\ AtAMessage
      /\ ContextsExact /\ InOneMap
  BY DEF IInv
<1>1. TypeOK'
  BY <1>0 DEF TypeOK, Labels
<1>2. Places'
  BY <1>0 DEF Places, TypeOK
<1>3. MutexExact'
  BY <1>0 DEF MutexExact, TypeOK, Inside, InCallback
<1>4. AtTheEnd'
  BY <1>0 DEF AtTheEnd, TypeOK
<1>5. AtTheStart'
  BY <1>0 DEF AtTheStart, TypeOK
<1>6. AtAMessage'
  BY <1>0 DEF AtAMessage, TypeOK
<1>7. ContextsExact'
  BY <1>0 DEF ContextsExact, TypeOK, Alive
<1>8. InOneMap'
  BY <1>0 DEF InOneMap, TypeOK, Alive
<1> QED
  BY <1>1, <1>2, <1>3, <1>4, <1>5, <1>6, <1>7, <1>8 DEF IInv

(* An arrival is counted before its handler is posted.                     *)
LEMMA ArrivesKeeps ==
    ASSUME IInv, NEW i \in Ids, Arrives(i)
    PROVE  IInv'
<1> USE ServerAssumption DEF Arrives, maps
<1>0. TypeOK /\ Places /\ MutexExact /\ AtTheEnd /\ AtTheStart /\ AtAMessage
      /\ ContextsExact /\ InOneMap
  BY DEF IInv
<1>1. TypeOK'
  BY <1>0 DEF TypeOK
<1>2. Places'
  BY <1>0 DEF Places, TypeOK
<1>3. MutexExact'
  BY <1>0 DEF MutexExact, TypeOK, Inside, InCallback
<1>4. AtTheEnd'
  BY <1>0 DEF AtTheEnd, TypeOK
<1>5. AtTheStart'
  BY <1>0 DEF AtTheStart, TypeOK
<1>6. AtAMessage'
  BY <1>0 DEF AtAMessage, TypeOK
<1>7. ContextsExact'
  BY <1>0 DEF ContextsExact, TypeOK, Alive
<1>8. InOneMap'
  BY <1>0 DEF InOneMap, TypeOK, Alive
<1> QED
  BY <1>1, <1>2, <1>3, <1>4, <1>5, <1>6, <1>7, <1>8 DEF IInv

(* An open session is asked to close; its place in the maps stays.         *)
LEMMA SessionEndsKeeps ==
    ASSUME IInv, NEW i \in Ids, SessionEnds(i)
    PROVE  IInv'
<1> USE DEF SessionEnds, maps, Asked
<1>0. TypeOK /\ Places /\ MutexExact /\ AtTheEnd /\ AtTheStart /\ AtAMessage
      /\ ContextsExact /\ InOneMap
  BY DEF IInv
<1>1. TypeOK'
  BY <1>0 DEF TypeOK
<1>2. Places'
  BY <1>0 DEF Places, TypeOK
<1>3. MutexExact'
  BY <1>0 DEF MutexExact, TypeOK, Inside, InCallback
<1>4. AtTheEnd'
  BY <1>0 DEF AtTheEnd, TypeOK
<1>5. AtTheStart'
  BY <1>0 DEF AtTheStart, TypeOK
<1>6. AtAMessage'
  BY <1>0 DEF AtAMessage, TypeOK
<1>7. ContextsExact'
  BY <1>0 DEF ContextsExact, TypeOK, Alive
<1>8. InOneMap'
  BY <1>0 DEF InOneMap, TypeOK, Alive
<1> QED
  BY <1>1, <1>2, <1>3, <1>4, <1>5, <1>6, <1>7, <1>8 DEF IInv

(* The socket is closed; the session is still kept, and so is its context. *)
LEMMA SocketClosesKeeps ==
    ASSUME IInv, NEW i \in Ids, SocketCloses(i)
    PROVE  IInv'
<1> USE DEF SocketCloses, maps
<1>0. TypeOK /\ Places /\ MutexExact /\ AtTheEnd /\ AtTheStart /\ AtAMessage
      /\ ContextsExact /\ InOneMap
  BY DEF IInv
<1>1. TypeOK'
  BY <1>0 DEF TypeOK
<1>2. Places'
  BY <1>0 DEF Places, TypeOK
<1>3. MutexExact'
  BY <1>0 DEF MutexExact, TypeOK, Inside, InCallback
<1>4. AtTheEnd'
  BY <1>0 DEF AtTheEnd, TypeOK
<1>5. AtTheStart'
  BY <1>0 DEF AtTheStart, TypeOK
<1>6. AtAMessage'
  BY <1>0 DEF AtAMessage, TypeOK
<1>7. ContextsExact'
  BY <1>0 DEF ContextsExact, TypeOK, Alive
<1>8. InOneMap'
  BY <1>0 DEF InOneMap, TypeOK, Alive
<1> QED
  BY <1>1, <1>2, <1>3, <1>4, <1>5, <1>6, <1>7, <1>8 DEF IInv

(* The I/O thread of the session goes to its end, which no other thread is at. *)
LEMMA FireClosedKeeps ==
    ASSUME IInv, NEW i \in Ids, FireClosed(i)
    PROVE  IInv'
<1> USE ThreadFacts, PoolFacts, AppFacts DEF FireClosed, maps, GotoFor, MayTell
<1>0. TypeOK /\ Places /\ MutexExact /\ AtTheEnd /\ AtTheStart /\ AtAMessage
      /\ ContextsExact /\ InOneMap
  BY DEF IInv
<1>1. TypeOK'
  BY <1>0 DEF TypeOK, Labels
<1>2. Places'
  BY <1>0 DEF Places, TypeOK
<1>3. MutexExact'
  BY <1>0 DEF MutexExact, TypeOK, Inside, InCallback
<1>4. AtTheEnd'
  BY <1>0 DEF AtTheEnd, TypeOK
<1>5. AtTheStart'
  BY <1>0 DEF AtTheStart, TypeOK
<1>6. AtAMessage'
  BY <1>0 DEF AtAMessage, TypeOK
<1>7. ContextsExact'
  BY <1>0 DEF ContextsExact, TypeOK, Alive
<1>8. InOneMap'
  BY <1>0 DEF InOneMap, TypeOK, Alive
<1> QED
  BY <1>1, <1>2, <1>3, <1>4, <1>5, <1>6, <1>7, <1>8 DEF IInv

(* The work thread of the session goes into a handler that was counted.    *)
LEMMA FireReadKeeps ==
    ASSUME IInv, NEW i \in Ids, FireRead(i)
    PROVE  IInv'
<1> USE ThreadFacts, PoolFacts, AppFacts DEF FireRead, maps, GotoFor
<1>0. TypeOK /\ Places /\ MutexExact /\ AtTheEnd /\ AtTheStart /\ AtAMessage
      /\ ContextsExact /\ InOneMap
  BY DEF IInv
<1>1. TypeOK'
  BY <1>0 DEF TypeOK, Labels
<1>2. Places'
  BY <1>0 DEF Places, TypeOK
<1>3. MutexExact'
  BY <1>0 DEF MutexExact, TypeOK, Inside, InCallback
<1>4. AtTheEnd'
  BY <1>0 DEF AtTheEnd, TypeOK
<1>5. AtTheStart'
  BY <1>0 DEF AtTheStart, TypeOK
<1>6. AtAMessage'
  BY <1>0 DEF AtAMessage, TypeOK
<1>7. ContextsExact'
  BY <1>0 DEF ContextsExact, TypeOK, Alive
<1>8. InOneMap'
  BY <1>0 DEF InOneMap, TypeOK, Alive
<1> QED
  BY <1>1, <1>2, <1>3, <1>4, <1>5, <1>6, <1>7, <1>8 DEF IInv

(* Under the mutex, the context of a session at its end is taken out.      *)
LEMMA OnPassiveCleanKeeps ==
    ASSUME IInv, NEW th \in Io, OnPassiveClean(th)
    PROVE  IInv'
<1> USE ThreadFacts DEF OnPassiveClean, maps, Goto, ContextsWithout
<1>0. TypeOK /\ Places /\ MutexExact /\ AtTheEnd /\ AtTheStart /\ AtAMessage
      /\ ContextsExact /\ InOneMap
  BY DEF IInv
<1>1. TypeOK'
  BY <1>0 DEF TypeOK, Labels
<1>2. Places'
  BY <1>0 DEF Places, TypeOK
<1>3. MutexExact'
  BY <1>0 DEF MutexExact, TypeOK, Inside, InCallback
<1>4. AtTheEnd'
  BY <1>0 DEF AtTheEnd, TypeOK
<1>5. AtTheStart'
  BY <1>0 DEF AtTheStart, TypeOK, AtTheEnd
<1>6. AtAMessage'
  BY <1>0 DEF AtAMessage, TypeOK
<1>7. ContextsExact'
  BY <1>0 DEF ContextsExact, TypeOK, AtTheEnd, Alive
<1>8. InOneMap'
  BY <1>0 DEF InOneMap, TypeOK, Alive
<1> QED
  BY <1>1, <1>2, <1>3, <1>4, <1>5, <1>6, <1>7, <1>8 DEF IInv

(* The session leaves the one map it is in, its context having left before. *)
LEMMA CloseSessionKeeps ==
    ASSUME IInv, NEW th \in Io, CloseSession(th)
    PROVE  IInv'
<1> USE ThreadFacts DEF CloseSession, GotoFor, Locked
<1>0. TypeOK /\ Places /\ MutexExact /\ AtTheEnd /\ AtTheStart /\ AtAMessage
      /\ ContextsExact /\ InOneMap
  BY DEF IInv
<1>1. TypeOK'
  BY <1>0 DEF TypeOK, AtTheEnd, Labels
<1>2. Places'
  BY <1>0 DEF Places, TypeOK
<1>3. MutexExact'
  BY <1>0 DEF MutexExact, TypeOK, Inside, InCallback
<1>4. AtTheEnd'
  BY <1>0 DEF AtTheEnd, TypeOK
<1>5. AtTheStart'
  BY <1>0 DEF AtTheStart, TypeOK, AtTheEnd
<1>6. AtAMessage'
  BY <1>0 DEF AtAMessage, TypeOK
<1>7. ContextsExact'
  BY <1>0 DEF ContextsExact, TypeOK, AtTheEnd, Alive
<1>8. InOneMap'
  BY <1>0 DEF InOneMap, TypeOK, Alive
<1> QED
  BY <1>1, <1>2, <1>3, <1>4, <1>5, <1>6, <1>7, <1>8 DEF IInv

(* The work thread takes the mutex.                                        *)
LEMMA OnMessageKeeps ==
    ASSUME IInv, NEW th \in WorkTh, OnMessage(th)
    PROVE  IInv'
<1> USE ThreadFacts DEF OnMessage, maps, Goto
<1>0. TypeOK /\ Places /\ MutexExact /\ AtTheEnd /\ AtTheStart /\ AtAMessage
      /\ ContextsExact /\ InOneMap
  BY DEF IInv
<1>1. TypeOK'
  BY <1>0 DEF TypeOK, Labels
<1>2. Places'
  BY <1>0 DEF Places, TypeOK
<1>3. MutexExact'
  BY <1>0 DEF MutexExact, TypeOK, Inside, InCallback
<1>4. AtTheEnd'
  BY <1>0 DEF AtTheEnd, TypeOK
<1>5. AtTheStart'
  BY <1>0 DEF AtTheStart, TypeOK
<1>6. AtAMessage'
  BY <1>0 DEF AtAMessage, TypeOK
<1>7. ContextsExact'
  BY <1>0 DEF ContextsExact, TypeOK, Alive
<1>8. InOneMap'
  BY <1>0 DEF InOneMap, TypeOK, Alive
<1> QED
  BY <1>1, <1>2, <1>3, <1>4, <1>5, <1>6, <1>7, <1>8 DEF IInv

(* The thread gives the mutex back, and a handler is counted down.         *)
LEMMA CallbackReturnsKeeps ==
    ASSUME IInv, NEW th \in Threads, CallbackReturns(th)
    PROVE  IInv'
<1> USE ServerAssumption, ThreadFacts, AppFacts DEF CallbackReturns, maps, Goto, Api, Returns
<1>0. TypeOK /\ Places /\ MutexExact /\ AtTheEnd /\ AtTheStart /\ AtAMessage
      /\ ContextsExact /\ InOneMap
  BY DEF IInv
<1>1. TypeOK'
  BY <1>0 DEF TypeOK, AtTheEnd, AtAMessage, Places, InCallback, Labels
<1>2. Places'
  BY <1>0 DEF Places, TypeOK, InCallback
<1>3. MutexExact'
  BY <1>0 DEF MutexExact, TypeOK, Inside, InCallback
<1>4. AtTheEnd'
  BY <1>0 DEF AtTheEnd, TypeOK, InCallback
<1>5. AtTheStart'
  BY <1>0 DEF AtTheStart, TypeOK, InCallback
<1>6. AtAMessage'
  <2> SUFFICES ASSUME NEW t \in WorkTh, pc'[t] # "idle"
               PROVE  at'[t] \in Ids /\ t = WorkOf(at'[t]) /\ unread'[at'[t]] > 0
    BY DEF AtAMessage
  <2>1. t # th /\ pc'[t] = pc[t] /\ at' = at
    BY <1>0 DEF TypeOK, Places, InCallback
  <2>2. at[t] \in Ids /\ t = WorkOf(at[t]) /\ unread[at[t]] > 0
    BY <1>0, <2>1 DEF AtAMessage
  <2>3. pc[th] = "inMessage" => th = WorkOf(at[th])
    BY <1>0 DEF AtAMessage, Places
  <2>4. unread'[at[t]] = unread[at[t]]
    BY <1>0, <2>1, <2>2, <2>3 DEF TypeOK
  <2> QED
    BY <2>1, <2>2, <2>4
<1>7. ContextsExact'
  BY <1>0 DEF ContextsExact, TypeOK, InCallback, Alive
<1>8. InOneMap'
  BY <1>0 DEF InOneMap, TypeOK, InCallback, Alive
<1> QED
  BY <1>1, <1>2, <1>3, <1>4, <1>5, <1>6, <1>7, <1>8 DEF IInv

(* The thread keeps the mutex for good.                                    *)
LEMMA CallbackLocksAgainKeeps ==
    ASSUME IInv, NEW th \in Threads, CallbackLocksAgain(th)
    PROVE  IInv'
<1> USE DEF CallbackLocksAgain, maps, Goto, Api
<1>0. TypeOK /\ Places /\ MutexExact /\ AtTheEnd /\ AtTheStart /\ AtAMessage
      /\ ContextsExact /\ InOneMap
  BY DEF IInv
<1>1. TypeOK'
  BY <1>0 DEF TypeOK, InCallback, Labels
<1>2. Places'
  BY <1>0 DEF Places, TypeOK, InCallback
<1>3. MutexExact'
  BY <1>0 DEF MutexExact, TypeOK, Inside, InCallback
<1>4. AtTheEnd'
  BY <1>0 DEF AtTheEnd, TypeOK, InCallback
<1>5. AtTheStart'
  BY <1>0 DEF AtTheStart, TypeOK, InCallback
<1>6. AtAMessage'
  BY <1>0 DEF AtAMessage, TypeOK, InCallback
<1>7. ContextsExact'
  BY <1>0 DEF ContextsExact, TypeOK, InCallback, Alive
<1>8. InOneMap'
  BY <1>0 DEF InOneMap, TypeOK, InCallback, Alive
<1> QED
  BY <1>1, <1>2, <1>3, <1>4, <1>5, <1>6, <1>7, <1>8 DEF IInv

(* The main thread enters a function of net_manager.                       *)
LEMMA TestWriteMessageKeeps ==
    ASSUME IInv, NEW f \in Api, TestWriteMessage(f)
    PROVE  IInv'
<1> USE ThreadFacts DEF TestWriteMessage, maps, Goto, Api
<1>0. TypeOK /\ Places /\ MutexExact /\ AtTheEnd /\ AtTheStart /\ AtAMessage
      /\ ContextsExact /\ InOneMap
  BY DEF IInv
<1>1. TypeOK'
  BY <1>0 DEF TypeOK, Labels
<1>2. Places'
  BY <1>0 DEF Places, TypeOK
<1>3. MutexExact'
  BY <1>0 DEF MutexExact, TypeOK, Inside, InCallback
<1>4. AtTheEnd'
  BY <1>0 DEF AtTheEnd, TypeOK
<1>5. AtTheStart'
  BY <1>0 DEF AtTheStart, TypeOK
<1>6. AtAMessage'
  BY <1>0 DEF AtAMessage, TypeOK
<1>7. ContextsExact'
  BY <1>0 DEF ContextsExact, TypeOK, Alive
<1>8. InOneMap'
  BY <1>0 DEF InOneMap, TypeOK, Alive
<1> QED
  BY <1>1, <1>2, <1>3, <1>4, <1>5, <1>6, <1>7, <1>8 DEF IInv

(* The main thread leaves it, with nothing changed.                        *)
LEMMA WriteOrTimerKeeps ==
    ASSUME IInv, WriteOrTimer
    PROVE  IInv'
<1> USE ThreadFacts DEF WriteOrTimer, maps, Goto
<1>0. TypeOK /\ Places /\ MutexExact /\ AtTheEnd /\ AtTheStart /\ AtAMessage
      /\ ContextsExact /\ InOneMap
  BY DEF IInv
<1>1. TypeOK'
  BY <1>0 DEF TypeOK, Labels
<1>2. Places'
  BY <1>0 DEF Places, TypeOK
<1>3. MutexExact'
  BY <1>0 DEF MutexExact, TypeOK, Inside, InCallback
<1>4. AtTheEnd'
  BY <1>0 DEF AtTheEnd, TypeOK
<1>5. AtTheStart'
  BY <1>0 DEF AtTheStart, TypeOK
<1>6. AtAMessage'
  BY <1>0 DEF AtAMessage, TypeOK
<1>7. ContextsExact'
  BY <1>0 DEF ContextsExact, TypeOK, Alive
<1>8. InOneMap'
  BY <1>0 DEF InOneMap, TypeOK, Alive
<1> QED
  BY <1>1, <1>2, <1>3, <1>4, <1>5, <1>6, <1>7, <1>8 DEF IInv

(* Any context is taken out, and its session asked to close.               *)
LEMMA CloseConnectionKeeps ==
    ASSUME IInv, CloseConnection
    PROVE  IInv'
<1> USE ThreadFacts, AppFacts DEF CloseConnection, maps, Goto, Asked, ContextsWithout
<1>0. TypeOK /\ Places /\ MutexExact /\ AtTheEnd /\ AtTheStart /\ AtAMessage
      /\ ContextsExact /\ InOneMap
  BY DEF IInv
<1>1. TypeOK'
  BY <1>0 DEF TypeOK, Labels
<1>2. Places'
  BY <1>0 DEF Places, TypeOK
<1>3. MutexExact'
  BY <1>0 DEF MutexExact, TypeOK, Inside, InCallback
<1>4. AtTheEnd'
  BY <1>0 DEF AtTheEnd, TypeOK
<1>5. AtTheStart'
  BY <1>0 DEF AtTheStart, TypeOK
<1>6. AtAMessage'
  BY <1>0 DEF AtAMessage, TypeOK
<1>7. ContextsExact'
  BY <1>0 DEF ContextsExact, TypeOK, Alive
<1>8. InOneMap'
  BY <1>0 DEF InOneMap, TypeOK, Alive
<1> QED
  BY <1>1, <1>2, <1>3, <1>4, <1>5, <1>6, <1>7, <1>8 DEF IInv

(* Nothing is left, as at first.                                           *)
LEMMA ProcessEndsKeeps ==
    ASSUME IInv, ProcessEnds
    PROVE  IInv'
<1> USE ServerAssumption, ThreadFacts DEF ProcessEnds, PerSession, PerThread
<1>0. TypeOK /\ Places /\ MutexExact /\ AtTheEnd /\ AtTheStart /\ AtAMessage
      /\ ContextsExact /\ InOneMap
  BY DEF IInv
<1>1. TypeOK'
  BY <1>0 DEF TypeOK, Labels
<1>2. Places'
  BY <1>0 DEF Places, TypeOK
<1>3. MutexExact'
  BY <1>0 DEF MutexExact, TypeOK, Inside, InCallback
<1>4. AtTheEnd'
  BY <1>0 DEF AtTheEnd, TypeOK
<1>5. AtTheStart'
  BY <1>0 DEF AtTheStart, TypeOK
<1>6. AtAMessage'
  BY <1>0 DEF AtAMessage, TypeOK
<1>7. ContextsExact'
  BY <1>0 DEF ContextsExact, TypeOK, Alive
<1>8. InOneMap'
  BY <1>0 DEF InOneMap, TypeOK, Alive
<1> QED
  BY <1>1, <1>2, <1>3, <1>4, <1>5, <1>6, <1>7, <1>8 DEF IInv

-----------------------------------------------------------------------------
(* The inductive invariant holds at first, and every step keeps it. *)
LEMMA InitIInv == Init => IInv
<1> SUFFICES ASSUME Init
             PROVE  IInv
  OBVIOUS
<1> USE ThreadFacts, ServerAssumption DEF Init, PerSession, PerThread
<1>1. TypeOK
  <2>1. 0 \in 0..MaxUnread /\ "idle" \in Labels
    BY DEF Labels
  <2> QED
    BY <2>1 DEF TypeOK
<1>2. Places /\ MutexExact
  BY DEF Places, MutexExact, Inside, InCallback
<1>3. AtTheEnd /\ AtTheStart /\ AtAMessage
  BY DEF AtTheEnd, AtTheStart, AtAMessage
<1>4. ContextsExact /\ InOneMap
  BY DEF ContextsExact, InOneMap, Alive
<1> QED
  BY <1>1, <1>2, <1>3, <1>4 DEF IInv

(* A step that changes nothing. *)
LEMMA StutterKeeps ==
    ASSUME IInv, UNCHANGED vars
    PROVE  IInv'
<1> USE DEF vars, maps
<1>1. TypeOK' /\ Places'
  BY DEF IInv, TypeOK, Places
<1>2. MutexExact' /\ AtTheEnd'
  BY DEF IInv, MutexExact, Inside, InCallback, AtTheEnd
<1>3. AtTheStart' /\ AtAMessage'
  BY DEF IInv, AtTheStart, AtAMessage
<1>4. ContextsExact' /\ InOneMap'
  BY DEF IInv, ContextsExact, InOneMap, Alive
<1> QED
  BY <1>1, <1>2, <1>3, <1>4 DEF IInv

(* Every step keeps IInv. *)
LEMMA NextKeeps ==
    ASSUME IInv, Next
    PROVE  IInv'
<1>1. CASE AcceptStep
  BY <1>1, HandleAcceptKeeps, FindIdleKeeps, OnConnectKeeps, StartReadingKeeps, CheckIdleKeeps,
     IdleCloseKeeps, SweepEndsKeeps DEF AcceptStep
<1>2. CASE SessionStep
  BY <1>2, ArrivesKeeps, SessionEndsKeeps, SocketClosesKeeps, ProcessEndsKeeps, FireClosedKeeps,
     FireReadKeeps DEF SessionStep, ClosesTwice
<1>3. CASE ThreadStep
  BY <1>3, OnPassiveCleanKeeps, CloseSessionKeeps, OnMessageKeeps, CallbackReturnsKeeps,
     CallbackLocksAgainKeeps DEF ThreadStep
<1>4. CASE MainStep
  BY <1>4, WriteOrTimerKeeps, CloseConnectionKeeps, TestWriteMessageKeeps DEF MainStep
<1> QED
  BY <1>1, <1>2, <1>3, <1>4, ProcessEndsKeeps DEF Next

(* For any number of sessions and any pools: net_manager keeps a context   *)
(* only as long as its session exists, and for every session that is read, *)
(* and exactly one map of the server keeps each session that exists.       *)
THEOREM ServerSafe == Spec => [](TypeOK /\ ContextsExact /\ InOneMap)
<1>1. IInv => TypeOK /\ ContextsExact /\ InOneMap
  BY DEF IInv
<1>2. IInv /\ [Next]_vars => IInv'
  BY NextKeeps, StutterKeeps
<1> QED
  BY InitIInv, <1>1, <1>2, PTL DEF Spec

(* No pointer in context_map_ dangles, and a session that is read can be   *)
(* reached by the scripts, whichever context close_connection takes.       *)
THEOREM ContextsStayExact == Spec => []ContextsExact
  BY ServerSafe, PTL

-----------------------------------------------------------------------------
(* While a thread waits for the mutex it holds itself, no step of any      *)
(* other takes or gives the mutex, or lets a context come or go.           *)
LEMMA StuckStep ==
    ASSUME IInv, Next, Stuck, ~dead'
    PROVE  UNCHANGED <<contexts, mutex>>
<1>1. PICK th \in Threads : pc[th] = "stuck" /\ mutex = th
  BY DEF IInv, MutexExact, Inside, Stuck
<1>2. mutex # Nobody
  BY <1>1, ThreadFacts
<1>3. \A t \in Threads : ~InCallback(t)
  BY <1>1 DEF IInv, MutexExact, Inside, InCallback
<1>4. ~ProcessEnds
  BY DEF ProcessEnds
<1>5. CASE AcceptStep
  BY <1>2, <1>5 DEF AcceptStep, HandleAccept, FindIdle, OnConnect, StartReading, CheckIdle,
                    IdleClose, SweepEnds
<1>6. CASE SessionStep
  BY <1>4, <1>6
  DEF SessionStep, Arrives, SessionEnds, SocketCloses, ClosesTwice, FireClosed, FireRead
<1>7. CASE ThreadStep
  BY <1>2, <1>3, <1>7 DEF ThreadStep, OnPassiveClean, CloseSession, OnMessage, CallbackReturns,
                          CallbackLocksAgain
<1>8. CASE MainStep
  BY <1>2, <1>8 DEF MainStep, WriteOrTimer, CloseConnection, TestWriteMessage
<1> QED
  BY <1>4, <1>5, <1>6, <1>7, <1>8 DEF Next

(* For any number of sessions and any pools, one callback that locks again *)
(* stops net_manager for good.                                             *)
THEOREM StuckForGood == Spec => StuckStopsAll
<1>1. IInv /\ [Next]_vars => IInv'
  BY NextKeeps, StutterKeeps
<1>2. IInv /\ [Next]_vars => [Stuck /\ ~dead' => UNCHANGED <<contexts, mutex>>]_vars
  BY StuckStep
<1> QED
  BY InitIInv, <1>1, <1>2, PTL DEF Spec, StuckStopsAll

-----------------------------------------------------------------------------
(* Every step moves every session at most one stage on. *)
LifeStep(i) == dead' \/ Life(i)!Next \/ UNCHANGED StageOf(i)

(* It does so whatever thread takes it. *)
LEMMA StageStep ==
    ASSUME IInv, Next, NEW i \in Ids
    PROVE  LifeStep(i)
<1> USE DEF StageOf, Asked, LifeStep, Life!Next, Life!Ask, Life!Shut, Life!Tell, Life!LetGo
<1>0. stage \in [Ids -> {"none", "new", "open", "closing", "closed", "told", "gone"}]
  BY DEF IInv, TypeOK
<1>1. ProcessEnds => LifeStep(i)
  BY DEF ProcessEnds
<1>2. CASE AcceptStep
  BY <1>0, <1>2 DEF AcceptStep, HandleAccept, FindIdle, OnConnect, StartReading, CheckIdle,
                    IdleClose, SweepEnds
<1>3. CASE SessionStep
  BY <1>0, <1>1, <1>3 DEF SessionStep, Arrives, SessionEnds, SocketCloses, ClosesTwice, FireClosed,
                          FireRead, MayTell
<1>4. CASE \E th \in Io : CloseSession(th)
  BY <1>0, <1>4 DEF CloseSession, IInv, AtTheEnd
<1>5. CASE ThreadStep /\ ~\E th \in Io : CloseSession(th)
  BY <1>5 DEF ThreadStep, OnPassiveClean, OnMessage, CallbackReturns, CallbackLocksAgain
<1>6. CASE MainStep
  BY <1>0, <1>6 DEF MainStep, WriteOrTimer, CloseConnection, TestWriteMessage
<1> QED
  BY <1>1, <1>2, <1>3, <1>4, <1>5, <1>6 DEF Next

(* For any number of sessions and any pools, every session goes the way of *)
(* SessionLife, whichever threads close it and let go of it.               *)
THEOREM SessionsGoOneWay == Spec => FollowsLife
<1>1. IInv /\ [Next]_vars => IInv'
  BY NextKeeps, StutterKeeps
<1>2. IInv /\ [Next]_vars => [\A i \in Ids : LifeStep(i)]_vars
  BY StageStep
<1> QED
  BY InitIInv, <1>1, <1>2, PTL DEF Spec, FollowsLife, LifeStep
=============================================================================
