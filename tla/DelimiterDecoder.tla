-------------------------- MODULE DelimiterDecoder --------------------------
(***************************************************************************)
(* engine::delimiter_based_frame_decoder (src/engine/handler/              *)
(* delimiter_based_frame_decoder.h) behind a session: the I/O thread       *)
(* appends to the read buffer and posts a fire_read for each arrival; the  *)
(* work thread's decode looks for the delimiters in it.                    *)
(*                                                                         *)
(* The two threads share the buffer without a lock.  index_of reads a      *)
(* buffer that only grows, and what it returns is the first occurrence at  *)
(* one instant of its scan, so a scan for one delimiter is one step; the   *)
(* scans for several are steps of their own.  Definitions with a suffix    *)
(* (Name_Slip) are mutants of Name.                                        *)
(***************************************************************************)
EXTENDS Integers, Sequences, SequencesExt, FiniteSets

CONSTANTS Chars,            \* the bytes that the peer sends
          Delimiters,       \* delimiters_
          MaxFrameLength,   \* max_frame_length_
          Strip,            \* strip_delimiter_
          MaxWire           \* bound: bytes that the peer sends

ASSUME DelimiterAssumption ==
    /\ Delimiters \in Seq(Seq(Chars) \ {<<>>})
    /\ MaxFrameLength \in Nat /\ Strip \in BOOLEAN /\ MaxWire \in Nat

VARIABLES
    wire,      \* all bytes that the peer sends
    arrived,   \* how many were put into the read buffer
    taken,     \* how many decode took out of it
    posted,    \* posted fire_reads that have not begun
    decoding,  \* decode runs
    at,        \* the delimiter it looks for next; 0 is the head of its loop
    best,      \* min_frame_length and min_delim
    out        \* the frames passed on with fire_read, with their delimiters

vars == <<wire, arrived, taken, posted, decoding, at, best, out>>

Buffer == SubSeq(wire, taken + 1, arrived)

NotFound == [length |-> MaxFrameLength + 1, delim |-> <<>>]

Init ==
    /\ wire \in UNION {[1..n -> Chars] : n \in 1..MaxWire}
    /\ arrived = 0 /\ taken = 0 /\ posted = 0
    /\ decoding = FALSE /\ at = 0 /\ best = NotFound
    /\ out = <<>>

-----------------------------------------------------------------------------
(* handle_read: n bytes more, and the fire_read for them *)
Arrive(n) ==
    /\ arrived + n <= Len(wire)
    /\ arrived' = arrived + n
    /\ posted' = posted + 1
    /\ UNCHANGED <<wire, taken, decoding, at, best, out>>

FireRead ==
    /\ ~decoding /\ posted > 0
    /\ decoding' = TRUE /\ posted' = posted - 1
    /\ UNCHANGED <<wire, arrived, taken, at, best, out>>

NextTurn_NotReset ==
    /\ decoding /\ at = 0
    /\ \/ Buffer = <<>> /\ decoding' = FALSE /\ UNCHANGED <<at, best>>
       \/ Buffer # <<>> /\ at' = 1 /\ UNCHANGED <<decoding, best>>
    /\ UNCHANGED <<wire, arrived, taken, posted, out>>

(* the head of decode's loop *)
NextTurn ==
    /\ decoding /\ at = 0
    /\ \/ Buffer = <<>> /\ decoding' = FALSE /\ UNCHANGED <<at, best>>
       \/ Buffer # <<>> /\ at' = 1 /\ best' = NotFound /\ UNCHANGED decoding
    /\ UNCHANGED <<wire, arrived, taken, posted, out>>

(* index_of, as the set of that index, or of none *)
Found(haystack, needle) ==
    {i \in 0..Len(haystack) - Len(needle) :
        /\ SubSeq(haystack, i + 1, i + Len(needle)) = needle
        /\ \A j \in 0..i - 1 : SubSeq(haystack, j + 1, j + Len(needle)) # needle}

Shorter_ByTwo(length) == length + 1 < best.length
Shorter_FirstFound(length) == best.delim = <<>> /\ length < best.length
Shorter(length) == length < best.length

(* A delimiter behind MaxFrameLength bytes is not found either: the branch *)
(* for a frame that is too long (lines 61-66) is never taken.              *)
LookFor ==
    /\ at \in DOMAIN Delimiters
    /\ at' = at + 1
    /\ \/ \E i \in Found(Buffer, Delimiters[at]) :
             Shorter(i) /\ best' = [length |-> i, delim |-> Delimiters[at]]
       \/ /\ \A i \in Found(Buffer, Delimiters[at]) : ~Shorter(i)
          /\ UNCHANGED best
    /\ UNCHANGED <<wire, arrived, taken, posted, decoding, out>>

(* The frame is read, and its delimiter with it or after it. *)
Retrieved_StripForgets == best.length + (IF Strip THEN 0 ELSE Len(best.delim))
Retrieved == best.length + Len(best.delim)

PassOn ==
    /\ at = Len(Delimiters) + 1 /\ best.delim # <<>>
    /\ out' = Append(out, [data  |-> SubSeq(Buffer, 1, IF Strip THEN best.length ELSE Retrieved),
                           delim |-> best.delim])
    /\ taken' = taken + Retrieved
    /\ at' = 0
    /\ UNCHANGED <<wire, arrived, posted, decoding, best>>

(* No delimiter: decode does not return, it looks again. *)
LookAgain_Return == FALSE
LookAgain == TRUE

NoDelimiter ==
    /\ at = Len(Delimiters) + 1 /\ best.delim = <<>>
    /\ at' = 0 /\ decoding' = LookAgain
    /\ UNCHANGED <<wire, arrived, taken, posted, best, out>>

Decode == NextTurn \/ LookFor \/ PassOn \/ NoDelimiter

Next ==
    \/ \E n \in 1..Len(wire) : Arrive(n)
    \/ FireRead \/ Decode

Spec == Init /\ [][Next]_vars

(* What was sent arrives, and the work thread goes on with its tasks. *)
FairSpec ==
    /\ Spec
    /\ WF_vars(\E n \in 1..Len(wire) : Arrive(n))
    /\ WF_vars(FireRead) /\ WF_vars(Decode)

-----------------------------------------------------------------------------
WithDelimiter(f) == IF Strip THEN f.data \o f.delim ELSE f.data

(* decode is at one of its places, and takes no more than arrived. *)
TypeOK ==
    /\ taken \in 0..arrived /\ arrived \in 0..Len(wire)
    /\ posted \in 0..Len(wire)
    /\ at \in 0..Len(Delimiters) + 1 /\ (at # 0 => decoding)
    /\ best.length \in 0..MaxFrameLength + 1

(* However the stream is cut into arrivals, and whatever arrives under a   *)
(* scan, the frames with their delimiters are the stream, cut in places:   *)
(* nothing of it is lost or passed on twice, and no frame is longer than   *)
(* allowed.                                                                *)
StreamKept ==
    \E cut \in [0..Len(out) -> 0..taken] :
        /\ cut[0] = 0 /\ cut[Len(out)] = taken
        /\ \A k \in DOMAIN out :
              /\ cut[k] - cut[k - 1] \in 0..MaxFrameLength + Len(out[k].delim)
              /\ WithDelimiter(out[k]) = SubSeq(wire, cut[k - 1] + 1, cut[k])

(* A frame ends at the first occurrence of the delimiter it was cut at and *)
(* holds none that is looked for later; one that is looked for earlier it  *)
(* may hold, when it arrived between the two scans.                        *)
CutWell(f) ==
    LET whole == WithDelimiter(f)
        end   == Len(whole) - Len(f.delim)
    IN  /\ Found(whole, f.delim) = {end}
        /\ \A d \in DOMAIN Delimiters :
              (\A e \in DOMAIN Delimiters : Delimiters[e] = f.delim => e < d)
                 => \A i \in Found(whole, Delimiters[d]) : i >= end

CutAtFirst == \A f \in ToSet(out) : CutWell(f)

(* In the end no delimiter is left that a frame could be cut at.           *)
AllPassedOn ==
    <>[](LET rest == SubSeq(wire, taken + 1, Len(wire))
         IN  \A delim \in ToSet(Delimiters) :
                 \A i \in Found(rest, delim) : i > MaxFrameLength)

(* decode does not return while a byte is in the buffer: the work thread,  *)
(* and every session it serves, waits for the end of the frame, and waits  *)
(* for ever when the frame is too long.                                    *)
HoldsTheThread ==
    [][decoding /\ ~decoding' => taken = arrived]_vars
=============================================================================
