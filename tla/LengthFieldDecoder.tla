------------------------- MODULE LengthFieldDecoder -------------------------
(***************************************************************************)
(* engine::length_field_base_frame_decoder (src/engine/handler/            *)
(* length_field_base_frame_decoder.h) behind a session: the I/O thread     *)
(* puts what arrives into the read buffer and posts a fire_read for each   *)
(* arrival; each fire_read calls decode, which cuts frames off the buffer. *)
(*                                                                         *)
(* The buffer is the sequence of its bytes (what AsioBuffer implements).   *)
(* Its length only grows under a running decode, so that one turn of the   *)
(* loop of decode is one step.  The peer sends frames whose content is as  *)
(* long as their length field says; some are larger than the decoder       *)
(* takes, some claim to be shorter than their own header; none claims so   *)
(* much that 64 bits wrap.  Definitions with a suffix (Name_Slip) are      *)
(* mutants of Name.                                                        *)
(***************************************************************************)
EXTENDS Integers, Sequences, SequencesExt, FiniteSets

CONSTANTS MaxFrameLength,       \* max_frame_length_
          Offset, FieldLength,  \* length_field_offset_, length_field_length_
          Adjustment,           \* length_adjustment_, here of either sign
          Strip,                \* initial_bytes_to_strip_
          BigEndian,            \* big_endian_
          Claims,               \* the values that the peer puts in a length field
          MaxFrames             \* bound: frames that the peer sends

End == Offset + FieldLength     \* length_field_end_offset_

Weight[k \in 0..FieldLength] == IF k = 0 THEN 1 ELSE 256 * Weight[k - 1]

(* A greater negative adjustment ends the process at the first frame; a    *)
(* length field cannot claim more than its bytes hold.                     *)
ASSUME DecoderAssumption ==
    /\ Offset \in Nat /\ FieldLength \in {1, 2, 4, 8} /\ Strip \in Nat
    /\ Adjustment \in Int /\ Adjustment >= -End
    /\ MaxFrameLength \in Nat /\ BigEndian \in BOOLEAN
    /\ Claims \subseteq Nat /\ \A v \in Claims : v < Weight[FieldLength]

VARIABLES
    sent,      \* the length fields of the frames that the peer sends
    wire,      \* bytes under way
    buffer,    \* the readable bytes of the read buffer
    posted,    \* posted fire_reads that have not begun
    decoding,  \* decode runs
    ended,     \* how the last decode ended
    out        \* the frames passed on with fire_read

vars == <<sent, wire, buffer, posted, decoding, ended, out>>

-----------------------------------------------------------------------------
(* Frames on the wire.  A byte outside the length field is made of the     *)
(* number of its frame and its place there.                                *)
(* adapte_endian: where a number has its i-th byte, the first the greatest *)
Place(i) == IF BigEndian THEN i ELSE FieldLength + 1 - i

FieldBytes(v) ==
    [i \in 1..FieldLength |-> (v \div Weight[FieldLength - Place(i)]) % 256]

(* get_unajust_frame_length, of the bytes of a length field *)
FieldValue(field) ==
    LET value[i \in 0..FieldLength] ==
            IF i = 0 THEN 0 ELSE 256 * value[i - 1] + field[Place(i)]
    IN  value[FieldLength]

FrameLength(v) == v + Adjustment + End

WireLength(v) == IF FrameLength(v) < End THEN End ELSE FrameLength(v)

Frame(f, v) ==
    [i \in 1..WireLength(v) |-> IF i \in Offset + 1..End THEN FieldBytes(v)[i - Offset]
                                                          ELSE 16 * f + i]

Stream(claims) == FlattenSeq([f \in DOMAIN claims |-> Frame(f, claims[f])])

Init ==
    /\ sent \in UNION {[1..n -> Claims] : n \in 1..MaxFrames}
    /\ wire = Stream(sent)
    /\ buffer = <<>> /\ posted = 0 /\ decoding = FALSE /\ ended = "empty"
    /\ out = <<>>

-----------------------------------------------------------------------------
(* handle_read: n bytes more, and the fire_read for them *)
Written_InFront(bytes) == bytes \o buffer
Written(bytes) == buffer \o bytes

Arrive(n) ==
    /\ n <= Len(wire)
    /\ buffer' = Written(SubSeq(wire, 1, n))
    /\ wire' = SubSeq(wire, n + 1, Len(wire))
    /\ posted' = posted + 1
    /\ UNCHANGED <<sent, decoding, ended, out>>

FireRead ==
    /\ ~decoding /\ posted > 0
    /\ decoding' = TRUE /\ posted' = posted - 1
    /\ UNCHANGED <<sent, wire, buffer, ended, out>>

(* decode returns, having retrieved n bytes *)
Return(why, n) ==
    /\ decoding' = FALSE /\ ended' = why
    /\ buffer' = SubSeq(buffer, n + 1, Len(buffer))
    /\ UNCHANGED <<sent, wire, posted, out>>

(* The header has to be in the buffer, and a byte more. *)
HeaderIn_TwoMore == Len(buffer) > End + 1
HeaderIn == Len(buffer) > End

DecodeEnds ==
    /\ decoding
    /\ \/ buffer = <<>> /\ Return("empty", 0)
       \/ buffer # <<>> /\ ~HeaderIn /\ Return("header", 0)

PassOn_Unstripped(length) ==
    /\ out' = Append(out, SubSeq(buffer, 1, length - Strip))
    /\ buffer' = SubSeq(buffer, length - Strip + 1, Len(buffer))
    /\ UNCHANGED <<sent, wire, posted, decoding, ended>>

(* the rest of the loop, for a frame of that length *)
PassOn(length) ==
    /\ out' = Append(out, SubSeq(buffer, Strip + 1, length))
    /\ buffer' = SubSeq(buffer, length + 1, Len(buffer))
    /\ UNCHANGED <<sent, wire, posted, decoding, ended>>

(* what is retrieved of a frame that is not passed on *)
OfTooShort(length) == End

OfTooLong_All(length) == IF length < Len(buffer) THEN length ELSE Len(buffer)
OfTooLong(length) == 0

(* the length of the frame that the buffer begins with *)
HeadLength == FrameLength(FieldValue(SubSeq(buffer, Offset + 1, End)))

TooShort == HeadLength < End
TooLong  == ~TooShort /\ HeadLength > MaxFrameLength

DecodeFrame ==
    /\ decoding /\ HeaderIn
    /\ \/ TooShort /\ Return("dropped", OfTooShort(HeadLength))
       \/ TooLong /\ Return("too long", OfTooLong(HeadLength))
       \/ /\ HeadLength \in End..MaxFrameLength
          /\ \/ Len(buffer) < HeadLength /\ Return("partial", 0)
             \/ Len(buffer) >= HeadLength /\ Strip > HeadLength /\ Return("dropped", HeadLength)
             \/ Len(buffer) >= HeadLength /\ Strip <= HeadLength /\ PassOn(HeadLength)

Next ==
    \/ \E n \in 1..Len(wire) : Arrive(n)
    \/ FireRead \/ DecodeEnds \/ DecodeFrame

Spec == Init /\ [][Next]_vars

-----------------------------------------------------------------------------
(* What a decoder that is handed the frames one by one would pass on: the  *)
(* frames it takes, in order, up to the first that is too long.            *)
NotTaken == {f \in DOMAIN sent : FrameLength(sent[f]) > MaxFrameLength}
Taken    == {f \in DOMAIN sent :
              /\ FrameLength(sent[f]) >= End /\ FrameLength(sent[f]) >= Strip
              /\ \A g \in NotTaken : f < g}

Passed(f) == SubSeq(Frame(f, sent[f]), Strip + 1, FrameLength(sent[f]))

Expected == [i \in 1..Cardinality(Taken) |->
               Passed(CHOOSE f \in Taken : Cardinality({g \in Taken : g <= f}) = i)]

(* The buffer holds bytes in the order they were sent, and a decode ended  *)
(* for a reason.                                                           *)
TypeOK ==
    /\ sent \in Seq(Claims) /\ posted \in 0..Len(Stream(sent))
    /\ decoding \in BOOLEAN
    /\ ended \in {"empty", "header", "partial", "too long", "dropped"}
    /\ IsSuffix(buffer \o wire, Stream(sent))

(* However the stream is cut into arrivals, and whatever arrives while     *)
(* decode runs, the handler behind the decoder sees the frames that were   *)
(* sent: whole, in order, each once, and none from behind a frame that is  *)
(* too long.                                                               *)
FramesInOrder == IsPrefix(out, Expected)

(* When everything has arrived and every fire_read has run, no frame is    *)
(* left behind, but for three cases: a frame that is too long stays in the *)
(* buffer for good, and all that follows it; a dropped frame ends decode,  *)
(* so that what follows it waits for the next arrival; and a last frame    *)
(* without content waits for one byte more.                                *)
NoneLeftBehind ==
    wire = <<>> /\ posted = 0 /\ ~decoding =>
        \/ out = Expected
        \/ ended = "dropped"
        \/ /\ FrameLength(Last(sent)) = End /\ Len(sent) \in Taken
           /\ out = SubSeq(Expected, 1, Len(Expected) - 1)

(* A frame that is too long is never taken out of the buffer: from the     *)
(* decode that met it on, no decode changes anything.                      *)
TooLongBlocks ==
    [][ended = "too long" => out' = out /\ Len(buffer') >= Len(buffer)]_vars
=============================================================================
