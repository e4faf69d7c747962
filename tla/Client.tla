-------------------------------- MODULE Client --------------------------------
(***************************************************************************)
(* engine::client (src/engine/net/client.h): a session on one io_service   *)
(* that is connected first, while its user may already write to it         *)
(* (get_session, as test/client.cpp does), with a length field decoder     *)
(* first in its pipeline (src/engine/handler/                              *)
(* length_field_base_frame_decoder.h): what decode does not take stays in  *)
(* the read buffer, whose level alone lets the session read on.  Which     *)
(* byte is where in a frame is the matter of LengthFieldDecoder; here a    *)
(* frame is the length that its field makes of it (lines 135-144).         *)
(*                                                                         *)
(* env.peer is "none" until the connection stands, and "refused" if it     *)
(* never will.  The thread "acc" of Session is here a thread of the user.  *)
(***************************************************************************)
EXTENDS Session

CONSTANTS Header,   \* length_field_end_offset_
          Longest,  \* max_frame_length_
          Strip,    \* initial_bytes_to_strip_
          Claims    \* the frame lengths that the peer's length fields amount to

ASSUME ClientAssumption ==
    /\ Shared
    /\ Header \in Nat \ {0} /\ Longest \in Nat /\ Strip \in Nat /\ Claims \subseteq Nat

VARIABLES
    frame,       \* the length of the frame that the read buffer begins with, or
                 \* will when its header is there
    turn,        \* where decode is in its loop: before the next frame ("look");
                 \* between the strip and the rest of a frame; behind it, in the
                 \* handlers ("passed"); or at the return after a frame "dropped"
    user_closed  \* history: close() was called by the user's thread

clientVars == <<vars, frame, turn, user_closed>>

(* connect(), in the constructor: the address may not resolve, and then    *)
(* nothing is started and the socket is never opened.                      *)
ClientInit ==
    /\ s = NewSession
    /\ \/ net = [sock |-> "open", reads |-> 0, writes |-> <<>>]
          /\ env = [peer |-> "none", received |-> 0, written |-> 0]
       \/ net = [sock |-> "closed", reads |-> 0, writes |-> <<>>]
          /\ env = [peer |-> "refused", received |-> 0, written |-> 0]
    /\ queue = [th \in Runners |-> <<>>]
    /\ pc = [th \in Threads |-> "idle"]
    /\ in_handler = FALSE
    /\ life = [where |-> "client", fired |-> 0, passed |-> FALSE, crashed |-> "no"]
    /\ frame \in Claims /\ turn = "look"
    /\ user_closed = FALSE

(* The kernel and the peer.  asio queues a write behind the connect that   *)
(* is under way, so that it waits for it (WriteEnds).                      *)
ConnectEnds ==
    /\ env.peer = "none"
    /\ \/ /\ net.sock = "open" /\ env' = [env EXCEPT !.peer = "open"]
          /\ Completes(Task("connected", 0))
       \/ env' = [env EXCEPT !.peer = "refused"] /\ Completes(Task("refused", 0))
    /\ UNCHANGED net

(* handle_connect: start() calls fire_connect, then read() *)
HandleConnect == "readSet"

HandleConnected ==
    /\ Begins("io", "connected")
    /\ \E g \in {0, 1} \cap 0..(MaxOut - env.written) :
         /\ s' = Greeted(s, g)
         /\ env' = [env EXCEPT !.written = @ + g]
         /\ Go([queue EXCEPT !["io"] = @ \o Repeat(Task("write", 0), g)], "io", HandleConnect)
    /\ UNCHANGED <<net, life>>

(* handle_connect with an error, which is logged as a warning, and the end *)
(* of it without                                                           *)
HandleConnectEnds ==
    /\ Begins("io", "refused") \/ pc["io"] = "started"
    /\ Finish("io")
    /\ UNCHANGED <<s, net, env, life>>

(* get_session()->close() *)
UserCloses ==
    /\ pc["acc"] = "idle" /\ ~s.close_flag
    /\ Goto("acc", "idleClose")
    /\ UNCHANGED <<s, net, env, life>>

(* decode, a turn of its loop for each frame.  The header has to be there, *)
(* and a byte more.                                                        *)
HeaderIn == s.rbuf > Header
Short    == HeaderIn /\ frame < Header
Whole    == HeaderIn /\ frame \in Header..Longest /\ s.rbuf >= frame
Looks    == turn \in {"look", "passed"}

(* Retrieved n bytes, with which the frame ends *)
FrameEnds(n, next) == Retrieve(n) /\ turn' = next /\ frame' \in Claims

DropFrame ==
    /\ Looks
    /\ \/ Short /\ FrameEnds(Header, "dropped")
       \/ Whole /\ Strip > frame /\ FrameEnds(frame, "dropped")

StripFrame ==
    /\ Looks /\ Whole /\ Strip <= frame
    /\ Retrieve(Strip) /\ turn' = "rest" /\ UNCHANGED frame

ReadFrame == turn = "rest" /\ FrameEnds(frame - Strip, "passed")

(* decode returns after a frame it dropped, and before one that is not     *)
(* whole, or too long: that one it leaves in the buffer.                   *)
Returns == turn = "dropped" \/ (Looks /\ ~Short /\ ~Whole)

(* A handler behind decode, which may write and close; the tasks posted by *)
(* session::write need no frame.                                           *)
InHandler == pc["io"] = "user" => turn = "passed"

DecodeWork ==
    \/ FireRead /\ turn' = "look" /\ UNCHANGED frame
    \/ DropFrame \/ StripFrame \/ ReadFrame
    \/ /\ \/ InHandler /\ (AppendBytes \/ Close)
          \/ NotifyTest \/ Disarm \/ Pend \/ PostWrite
          \/ Returns /\ FireReadReturns
          \/ EndTask
       /\ UNCHANGED <<frame, turn>>

ClientRuns ==
    \/ DecodeWork
    \/ /\ IoStep \/ AnyStep("io") \/ HandleConnected \/ HandleConnectEnds
       /\ UNCHANGED <<frame, turn>>

ClientNext ==
    /\ Running
    /\ \/ ClientRuns /\ UNCHANGED user_closed
       \/ /\ ConnectEnds \/ EnvStep \/ IdleClose \/ AnyStep("acc")
          /\ UNCHANGED <<frame, turn, user_closed>>
       \/ UserCloses /\ user_closed' = TRUE /\ UNCHANGED <<frame, turn>>

ClientSpec == ClientInit /\ [][ClientNext]_clientVars

(* The thread goes on with its tasks, and the user's with its close(); a   *)
(* connection attempt and a write end, and a read of an ended stream.      *)
ClientFairness ==
    /\ WF_clientVars(Running /\ ClientRuns /\ UNCHANGED user_closed)
    /\ WF_clientVars(/\ Running /\ (IdleClose \/ AnyStep("acc"))
                     /\ UNCHANGED <<frame, turn, user_closed>>)
    /\ WF_clientVars(/\ Running /\ (ConnectEnds \/ ReadEnds)
                     /\ UNCHANGED <<frame, turn, user_closed>>)
    /\ WF_clientVars(Running /\ WriteEnds /\ UNCHANGED <<frame, turn, user_closed>>)

FairClientSpec == ClientSpec /\ ClientFairness

-----------------------------------------------------------------------------
(* When nothing is left to run, an open connection is being read, unless   *)
(* the buffer is at the high water mask and decode will not be called      *)
(* again, and would take nothing if it were but for a frame dropped last:  *)
(* it holds no more than a header (then the mask is no longer than that),  *)
(* a frame over max_frame_length_, or a part of a frame (longer than the   *)
(* mask), or decode has dropped a frame and returned.  Nothing else stops  *)
(* a client's reading for good.                                            *)
ReadsOnUnlessHeldUp ==
    Running /\ Quiet /\ env.peer \in {"open", "fin"} /\ ~s.close_flag =>
        \/ s.reading
        \/ /\ s.notify /\ s.rbuf >= Mask
           /\ \/ s.rbuf <= Header \/ frame > Longest \/ s.rbuf < frame
              \/ turn = "dropped"

(* No handler runs after fire_closed, and none is queued to, unless the    *)
(* user's thread closed: then a read may be handled between the look at    *)
(* work_read_count_ and the lambda that closes.                            *)
NothingAfterClosed == life.fired > 0 /\ ~user_closed => s.work_read_count = 0

(* What is written before the connection stands is sent when it does, and  *)
(* when it never does the write ends the process: nothing written waits    *)
(* for ever.                                                               *)
EarlyWritesLeave == s.wbuf > 0 ~> (s.wbuf = 0 \/ s.close_flag \/ life.crashed # "no")
=============================================================================
