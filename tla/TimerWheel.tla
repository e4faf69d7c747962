----------------------------- MODULE TimerWheel -----------------------------
(***************************************************************************)
(* engine::timer (src/engine/common/timer.h): a hierarchical timer wheel.  *)
(* A task waits in a spoke of a wheel; the innermost wheel turns by one    *)
(* spoke per granule of time, and when it has gone round, a spoke of the   *)
(* next wheel is dealt out again.                                          *)
(*                                                                         *)
(* One lock is held around every call (net_manager.h:65, 147), so a call   *)
(* is one step, except that the callbacks run between the steps of         *)
(* do_timeout_callback and may add and remove tasks.  The clock stands     *)
(* still inside a step and never goes back.  Ids do not run out.           *)
(* Definitions with a suffix (Name_Slip) are mutants of Name.              *)
(***************************************************************************)
EXTENDS Integers, Sequences, SequencesExt, FiniteSets

CONSTANTS Granularity,   \* milliseconds per spoke of the innermost wheel
          Size1, Size2,  \* WHEEL_SIZE1, WHEEL_SIZE2
          WheelNum,      \* WHEEL_NUM
          Intervals,     \* the intervals that tasks are added with
          MaxTasks,      \* bound: tasks ever added
          MaxNow,        \* bound: the clock
          MaxLag         \* bound: how long detect_timer_list is not called

ASSUME WheelAssumption ==
    /\ {Granularity, Size1, Size2} \subseteq Nat \ {0} /\ WheelNum \in Nat \ {0, 1}
    /\ Intervals \subseteq Nat
    /\ MaxTasks \in Nat /\ MaxNow \in Nat /\ MaxLag \in Nat \ {0}

VARIABLES
    now,       \* get_current_millisec()
    w,         \* spokes and spoke_index of every wheel, checktime_ and ready_nodes_
    ids,       \* the tasks in timer_map_, and how many were ever added
    running    \* the node whose callback runs, or NoNode

vars == <<now, w, ids, running>>

Wheels  == 0..WheelNum - 1
Size(k) == IF k = 0 THEN Size1 ELSE Size2
Spokes  == UNION {{k} \X (0..Size(k) - 1) : k \in Wheels}
NoNode  == [id |-> 0, dead |-> 0, interval |-> 0, circle |-> FALSE]

Init ==
    /\ now = 0
    /\ w = [spokes |-> [p \in Spokes |-> <<>>],
            index |-> [k \in Wheels |-> 0], check |-> 0, ready |-> <<>>]
    /\ ids = [live |-> {}, last |-> 0]
    /\ running = NoNode

-----------------------------------------------------------------------------
(* add_timer_node: the wheel is the outermost that the distance reaches,   *)
(* the spoke is the distance from that wheel's present one.                *)
Threshold[k \in Wheels] ==
    IF k = 0 THEN 0 ELSE IF k = 1 THEN Size1 ELSE Size2 * Threshold[k - 1]

Level(n) == CHOOSE k \in Wheels :
    /\ n >= Threshold[k]
    /\ \A j \in Wheels : j > k => n < Threshold[j]

Spoke_PastThreshold(x, k, n) ==
    (IF k = 0 THEN n + x.index[0] ELSE n \div Threshold[k] + x.index[k]) % Size(k)

Spoke(x, k, n) ==
    (IF k = 0 THEN n + x.index[0]
              ELSE (n - Threshold[k]) \div Threshold[k] + x.index[k]) % Size(k)

Place(x, milliseconds, node) ==
    LET n == milliseconds \div Granularity
        k == Level(n)
    IN  [x EXCEPT !.spokes[<<k, Spoke(x, k, n)>>] = Append(@, node)]

(* cascade for wheel k: the nodes of its present spoke are dealt again.    *)
Deal_NotAgain(x, node) == [x EXCEPT !.ready = Append(@, node)]

Deal(x, node) ==
    IF node.dead <= now THEN [x EXCEPT !.ready = Append(@, node)]
                        ELSE Place(x, node.dead - now, node)

Cascade(x, k) ==
    LET list == x.spokes[<<k, x.index[k]>>]
        dealt[i \in 0..Len(list)] ==
            IF i = 0 THEN [x EXCEPT !.spokes[<<k, x.index[k]>>] = <<>>, !.index[k] = @ + 1]
                     ELSE Deal(dealt[i - 1], list[i])
    IN  dealt[Len(list)]

(* A wheel that has gone round starts over and turns the next one.         *)
Carry(x, k) ==
    IF x.index[k - 1] < Size(k - 1) THEN x
    ELSE LET y == [x EXCEPT !.index[k - 1] = 0]
         IN  IF k = WheelNum THEN y ELSE Cascade(y, k)

TurnOn(x) ==
    LET turned[k \in 0..WheelNum] == IF k = 0 THEN x ELSE Carry(turned[k - 1], k)
    IN  turned[WheelNum]

Later_Twice(check) == check + 2 * Granularity
Later(check) == check + Granularity

OneSpokeOn(x) ==
    [TurnOn([x EXCEPT !.ready = @ \o x.spokes[<<0, x.index[0]>>],
                      !.spokes[<<0, x.index[0]>>] = <<>>,
                      !.index[0] = @ + 1]) EXCEPT !.check = Later(@)]

Detected ==
    LET loopnum == IF now > w.check THEN (now - w.check) \div Granularity ELSE 0
        after[i \in 0..loopnum] == IF i = 0 THEN w ELSE OneSpokeOn(after[i - 1])
    IN  after[loopnum]

-----------------------------------------------------------------------------
(* Who may call: any thread when no detect_timer_list is running, and the  *)
(* callback that runs.                                                     *)
MayCall == running # NoNode \/ w.ready = <<>>

Node(id, interval, circle) ==
    [id |-> id, dead |-> now + interval, interval |-> interval, circle |-> circle]

AddTask(interval, circle) ==
    /\ MayCall /\ ids.last < MaxTasks
    /\ ids' = [live |-> ids.live \cup {ids.last + 1}, last |-> ids.last + 1]
    /\ w' = Place(w, interval, Node(ids.last + 1, interval, circle))
    /\ UNCHANGED <<now, running>>

(* the node of the task, wherever it waits, is unlinked and deleted *)
Without(list, id) ==
    LET links == {i \in DOMAIN list : list[i].id = id}
    IN  IF links = {} THEN list ELSE RemoveAt(list, CHOOSE i \in links : TRUE)

Unlinked_FromSpokes(id) ==
    [w EXCEPT !.spokes = [p \in Spokes |-> Without(w.spokes[p], id)]]

Unlinked(id) ==
    [w EXCEPT !.spokes = [p \in Spokes |-> Without(w.spokes[p], id)],
              !.ready = Without(@, id)]

RemoveTask(id) ==
    /\ MayCall /\ id \in ids.live
    /\ ids' = [ids EXCEPT !.live = @ \ {id}]
    /\ w' = Unlinked(id)
    /\ UNCHANGED <<now, running>>

(* detect_timer_list, up to its do_timeout_callback *)
DetectTimerList ==
    /\ running = NoNode /\ w.ready = <<>>
    /\ w' = Detected
    /\ UNCHANGED <<now, ids, running>>

(* do_timeout_callback, one node: a circle task is added again before its  *)
(* callback is called, another leaves the map.                             *)
Callback ==
    /\ running = NoNode /\ w.ready # <<>>
    /\ LET node == Head(w.ready)
           rest == [w EXCEPT !.ready = Tail(@)]
       IN  /\ running' = node
           /\ IF node.circle
              THEN /\ w' = Place(rest, node.interval, Node(node.id, node.interval, TRUE))
                   /\ ids' = [ids EXCEPT !.live = @ \cup {node.id}]
              ELSE /\ w' = rest
                   /\ ids' = [ids EXCEPT !.live = @ \ {node.id}]
    /\ UNCHANGED now

CallbackReturns ==
    /\ running # NoNode
    /\ running' = NoNode
    /\ UNCHANGED <<now, w, ids>>

TimePasses(d) ==
    /\ now + d <= MaxNow /\ now + d - w.check <= MaxLag
    /\ now' = now + d
    /\ UNCHANGED <<w, ids, running>>

Next ==
    \/ \E i \in Intervals, circle \in BOOLEAN : AddTask(i, circle)
    \/ \E id \in ids.live : RemoveTask(id)
    \/ DetectTimerList \/ Callback \/ CallbackReturns
    \/ \E d \in 1..MaxLag : TimePasses(d)

Spec == Init /\ [][Next]_vars

-----------------------------------------------------------------------------
Ready == <<WheelNum, 0>>      \* the name of the ready list among those of the spokes

ListAt(p) == IF p = Ready THEN w.ready ELSE w.spokes[p]

Links == UNION {{p} \X DOMAIN ListAt(p) : p \in Spokes \cup {Ready}}

NodeAt(l) == ListAt(l[1])[l[2]]

(* Each wheel stands on one of its spokes, and the wheels are not ahead of *)
(* the clock.                                                              *)
TypeOK ==
    /\ \A k \in Wheels : w.index[k] \in 0..Size(k) - 1
    /\ w.check \in 0..now
    /\ ids.live \subseteq 1..ids.last
    /\ now \in 0..MaxNow

(* The lists and the map agree: every task in the map waits in one spoke   *)
(* of one wheel or in the ready list, once, and nothing else waits.  What  *)
(* remove_task unlinks and deletes is therefore linked and alive.          *)
OneHome ==
    /\ {NodeAt(l).id : l \in Links} = ids.live
    /\ \A l, m \in Links : NodeAt(l).id = NodeAt(m).id => l = m

(* No task is overlooked: when the wheels have come to a time, every task  *)
(* that was due before it has left them.                                   *)
NoneOverdue == \A l \in Links : l[1] # Ready => w.check <= NodeAt(l).dead

(* A task is early only by as much as the wheels lagged behind the clock:  *)
(* a callback starts before its dead_time by less than the longest lag.    *)
EarlyOnlyByLag ==
    [][running' # running /\ running' # NoNode => running'.dead - now < MaxLag]_vars
=============================================================================
