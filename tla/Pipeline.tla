------------------------------- MODULE Pipeline -------------------------------
(***************************************************************************)
(* engine::pipeline and engine::context (src/engine/handler/pipeline.h,    *)
(* context.h): the doubly linked list of contexts that every event of a    *)
(* session runs along.  Links are built once, by the init_handlers of the  *)
(* application, and read ever after, so that a list is a value here and    *)
(* the code that walks it is made of functions of that value.              *)
(***************************************************************************)
EXTENDS Naturals, Sequences

(* The list of a new pipeline: the head and the tail linked to each other. *)
Ends == {"head", "tail"}

NewPipeline ==
    [next |-> [c \in Ends |-> IF c = "head" THEN "tail" ELSE "null"],
     prev |-> [c \in Ends |-> IF c = "tail" THEN "head" ELSE "null"]]

Contexts(p) == DOMAIN p.next

(* add_handler: four assignments, between the tail and what was before it  *)
AddHandler(p, c) ==
    LET last == p.prev["tail"] IN
    [next |-> [x \in Contexts(p) \cup {c} |->
                  IF x = last THEN c ELSE IF x = c THEN "tail" ELSE p.next[x]],
     prev |-> [x \in Contexts(p) \cup {c} |->
                  IF x = "tail" THEN c ELSE IF x = c THEN last ELSE p.prev[x]]]

(* connect, read and notify_closed go from the head to the tail, write and *)
(* close from a context to the head.                                       *)
Upward   == {"connect", "read", "notify_closed"}
Downward == {"write", "close"}

Onward(p, e, x) == IF e \in Upward THEN p.next[x] ELSE p.prev[x]

(* The contexts that get to see the event e which x fires: the next one,   *)
(* and then the one after each whose handler does not keep it but, as      *)
(* abstract_handler does, fires it on.  keeps: the pairs of a context and  *)
(* an event that its handler handles itself.                               *)
Sees(p, keeps, e, x) ==
    {c \in Contexts(p) : \A S \in SUBSET Contexts(p) :
        (/\ Onward(p, e, x) \in S
         /\ \A y \in S : <<y, e>> \in keeps \/ Onward(p, e, y) \in S \cup {"null"}) => c \in S}

(* path is the order in which the events meet the contexts of p, each of   *)
(* them once.                                                              *)
InOrder(p, path) ==
    /\ path \in Seq(Contexts(p)) /\ Len(path) >= 2 /\ DOMAIN p.prev = Contexts(p)
    /\ path[1] = "head" /\ path[Len(path)] = "tail"
    /\ p.prev["head"] = "null" /\ p.next["tail"] = "null"
    /\ \A k \in 1..Len(path) - 1 : /\ p.next[path[k]] = path[k + 1]
                                   /\ p.prev[path[k + 1]] = path[k]
    /\ \A j, k \in 1..Len(path) : path[j] = path[k] => j = k
    /\ \A c \in Contexts(p) : \E k \in 1..Len(path) : path[k] = c
=============================================================================
