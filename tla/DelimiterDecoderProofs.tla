----------------------- MODULE DelimiterDecoderProofs -----------------------
(***************************************************************************)
(* Theorems about DelimiterDecoder, for any delimiters, any stream and any *)
(* maximal length: decode takes no more than has arrived, does not return  *)
(* while a byte is left, keeps the stream, and cuts it at first            *)
(* occurrences of the delimiters.                                          *)
(*                                                                         *)
(* The inductive invariant is IInv.  BestFound says of the occurrence that *)
(* decode remembers what CutAtFirst says of a frame, for the delimiters    *)
(* that were looked for so far; it speaks of the bytes up to the end of    *)
(* the occurrence only, for behind it the buffer grows between two scans.  *)
(***************************************************************************)
EXTENDS DelimiterDecoder, SequenceTheorems, TLAPS

Frames == [data : Seq(Chars), delim : Seq(Chars)]

(* What the variables are; a fire_read was posted for a byte at least. *)
Types ==
    /\ wire \in Seq(Chars)
    /\ arrived \in 0..Len(wire) /\ taken \in 0..arrived /\ posted \in 0..arrived
    /\ decoding \in BOOLEAN
    /\ at \in 0..Len(Delimiters) + 1 /\ (at # 0 => decoding)
    /\ best \in [length : 0..MaxFrameLength + 1, delim : Seq(Chars)]
    /\ out \in Seq(Frames)

(* A delimiter occurs behind k bytes of w; the places, counted from a, of  *)
(* its first occurrence that ends before b, as a set of one or none.       *)
Occurs(w, k, delim) == SubSeq(w, k + 1, k + Len(delim)) = delim

First(w, a, b, delim) ==
    {i \in 0..b - a - Len(delim) :
        Occurs(w, a + i, delim) /\ \A j \in 0..i - 1 : ~Occurs(w, a + j, delim)}

(* What decode remembers when it looks for the delimiter at next: the      *)
(* first occurrence of one, behind which no delimiter that was looked for  *)
(* since begins earlier.                                                   *)
Nearest(w, a, b, next, found) ==
    /\ First(w, a, b, found.delim) = {found.length}
    /\ \E e \in DOMAIN Delimiters :
          /\ Delimiters[e] = found.delim /\ e < next
          /\ \A d \in DOMAIN Delimiters : e < d /\ d < next =>
                \A i \in First(w, a, b, Delimiters[d]) : i >= found.length

BestFound ==
    at # 0 /\ best.delim # <<>> =>
        /\ best.length <= MaxFrameLength
        /\ taken + Retrieved <= arrived
        /\ Nearest(wire, taken, taken + Retrieved, at, best)

IInv == Types /\ BestFound /\ StreamKept /\ CutAtFirst

-----------------------------------------------------------------------------
(* Where a delimiter is first found in a part of the stream. *)
LEMMA FoundIsFirst ==
    ASSUME NEW w \in Seq(Chars), NEW a \in 0..Len(w), NEW b \in a..Len(w),
           NEW delim \in Seq(Chars) \ {<<>>}
    PROVE  Found(SubSeq(w, a + 1, b), delim) = First(w, a, b, delim)
<1> DEFINE h == SubSeq(w, a + 1, b)
           n == Len(delim)
<1>1. n \in Nat /\ n >= 1
  BY EmptySeq
<1>2. h \in Seq(Chars) /\ Len(h) = b - a
  <2>1. \A i \in a + 1..b : w[i] \in Chars
    OBVIOUS
  <2> QED
    BY <2>1, SubSeqProperties
<1>3. ASSUME NEW i \in 0..b - a - n
      PROVE  SubSeq(h, i + 1, i + n) = SubSeq(w, a + i + 1, a + i + n)
  <2>1. /\ a + 1 \in 1..Len(w) /\ b \in 1..Len(w)
        /\ i + 1 \in 1..b - (a + 1) + 1 /\ i + n \in 1..b - (a + 1) + 1
    BY <1>1, <1>3
  <2>2. SubSeq(h, i + 1, i + n) = SubSeq(w, a + 1 + (i + 1) - 1, a + 1 + (i + n) - 1)
    BY <2>1, SubSeqOfSubSeq
  <2>3. a + 1 + (i + 1) - 1 = a + i + 1 /\ a + 1 + (i + n) - 1 = a + i + n
    BY <1>1, <1>3
  <2> QED
    BY <2>2, <2>3
<1> HIDE DEF h, n
<1>4. \A i \in 0..b - a - n : SubSeq(h, i + 1, i + n) = delim <=> Occurs(w, a + i, delim)
  BY <1>1, <1>3 DEF Occurs, n
<1>5. \A i \in 0..b - a - n : \A j \in 0..i - 1 : j \in 0..b - a - n
  BY <1>1
<1> QED
  BY <1>2, <1>4, <1>5 DEF Found, First, h, n

(* The buffer is as long as what arrived and was not taken. *)
LEMMA BufferLength ==
    ASSUME Types
    PROVE  Len(Buffer) = arrived - taken /\ (Buffer = <<>> => arrived = taken)
BY DEF Types, Buffer

(* A delimiter that is found in the buffer is found whole, and first. *)
LEMMA FoundInside ==
    ASSUME Types, at \in DOMAIN Delimiters
    PROVE  /\ Delimiters[at] \in Seq(Chars) \ {<<>>} /\ Len(Delimiters[at]) \in Nat
           /\ Found(Buffer, Delimiters[at]) = First(wire, taken, arrived, Delimiters[at])
<1>1. Delimiters[at] \in Seq(Chars) \ {<<>>}
  BY DelimiterAssumption
<1>2. taken \in 0..Len(wire) /\ arrived \in taken..Len(wire)
  BY DEF Types
<1> QED
  BY <1>1, <1>2, FoundIsFirst DEF Types, Buffer

(* Two parts of the stream, one behind the other, are one. *)
LEMMA TwoParts ==
    ASSUME NEW w \in Seq(Chars), NEW a \in Nat, NEW b \in Nat, NEW c \in Nat,
           a <= b, b <= c, c <= Len(w)
    PROVE  SubSeq(w, a + 1, b) \o SubSeq(w, b + 1, c) = SubSeq(w, a + 1, c)
<1>1. a + 1 \in 1..Len(w) + 1 /\ b \in a + 1 - 1..Len(w) /\ c \in b..Len(w)
  OBVIOUS
<1> QED
  BY <1>1, ConcatAdjacentSubSeq

(* What it means to be found first. *)
LEMMA FirstMeans ==
    ASSUME NEW w, NEW a \in Nat, NEW b \in Nat, NEW delim, Len(delim) \in Nat,
           NEW i \in First(w, a, b, delim)
    PROVE  /\ i \in Nat /\ i <= b - a - Len(delim)
           /\ Occurs(w, a + i, delim) /\ \A j \in 0..i - 1 : ~Occurs(w, a + j, delim)
BY DEF First

(* What is found first is found first in any part that holds it. *)
LEMMA FirstInPart ==
    ASSUME NEW w, NEW a \in Nat, NEW b \in Nat, NEW c \in Nat, c <= b,
           NEW delim, Len(delim) \in Nat
    PROVE  /\ First(w, a, c, delim) \subseteq First(w, a, b, delim)
           /\ \A i \in First(w, a, b, delim) :
                 a + i + Len(delim) = c => First(w, a, c, delim) = {i}
<1>1. First(w, a, c, delim) \subseteq First(w, a, b, delim)
  BY DEF First
<1>2. ASSUME NEW i \in First(w, a, b, delim), a + i + Len(delim) = c
      PROVE  First(w, a, c, delim) = {i}
  <2>1. /\ i \in Nat /\ Occurs(w, a + i, delim)
        /\ \A k \in 0..i - 1 : ~Occurs(w, a + k, delim)
    BY FirstMeans
  <2>2. i \in First(w, a, c, delim)
    BY <1>2, <2>1 DEF First
  <2>3. ASSUME NEW j \in First(w, a, c, delim) PROVE j = i
    <3>1. /\ j \in Nat /\ Occurs(w, a + j, delim)
          /\ \A k \in 0..j - 1 : ~Occurs(w, a + k, delim)
      BY FirstMeans
    <3>2. ~(i \in 0..j - 1) /\ ~(j \in 0..i - 1)
      BY <2>1, <3>1, Zenon
    <3> QED
      BY <2>1, <3>1, <3>2
  <2> QED
    BY <2>2, <2>3, Zenon
<1> QED
  BY <1>1, <1>2, Zenon

(* What was passed on stays as it is while nothing more is. *)
LEMMA OutKept ==
    ASSUME StreamKept, CutAtFirst, UNCHANGED <<wire, taken, out>>
    PROVE  StreamKept' /\ CutAtFirst'
<1>1. StreamKept'
  BY DEF StreamKept, WithDelimiter
<1>2. CutAtFirst'
  BY DEF CutAtFirst
<1> QED
  BY <1>1, <1>2

(* So is what decode remembers, while the buffer at most grows. *)
LEMMA BestKept ==
    ASSUME Types, BestFound, UNCHANGED <<wire, taken, best, at>>,
           arrived' \in Nat, arrived' >= arrived
    PROVE  BestFound'
<1>1. Len(best.delim) \in Nat /\ Retrieved \in Nat
  BY DEF Types, Retrieved
<1> QED
  BY <1>1 DEF Types, BestFound, Retrieved

-----------------------------------------------------------------------------
(* IInv holds at first. *)
LEMMA InitIInv == Init => IInv
<1> SUFFICES ASSUME Init
             PROVE  IInv
  OBVIOUS
<1>1. wire \in Seq(Chars)
  BY DEF Init
<1>2. NotFound \in [length : 0..MaxFrameLength + 1, delim : Seq(Chars)]
  BY DelimiterAssumption DEF NotFound
<1>3. Len(Delimiters) \in Nat /\ Len(wire) \in Nat
  BY <1>1, DelimiterAssumption
<1>4. /\ arrived = 0 /\ taken = 0 /\ posted = 0
      /\ decoding = FALSE /\ at = 0 /\ best = NotFound /\ out = <<>>
  BY DEF Init
<1>5. /\ arrived \in 0..Len(wire) /\ taken \in 0..arrived /\ posted \in 0..arrived
      /\ at \in 0..Len(Delimiters) + 1
  BY <1>3, <1>4
<1>6. decoding \in BOOLEAN /\ (at # 0 => decoding) /\ BestFound /\ out \in Seq(Frames)
  BY <1>4, EmptySeq DEF BestFound
<1>7. StreamKept
  <2>1. Len(out) = 0 /\ DOMAIN out = {}
    BY <1>4, EmptySeq
  <2>2. [k \in 0..Len(out) |-> 0] \in [0..Len(out) -> 0..taken]
    BY <1>4
  <2>3. [k \in 0..Len(out) |-> 0][0] = 0 /\ [k \in 0..Len(out) |-> 0][Len(out)] = taken
    BY <1>4, <2>1
  <2> QED
    BY <2>1, <2>2, <2>3, Zenon DEF StreamKept
<1>8. CutAtFirst
  BY <1>4 DEF CutAtFirst, ToSet
<1> QED
  BY <1>1, <1>2, <1>4, <1>5, <1>6, <1>7, <1>8 DEF IInv, Types

(* The steps outside decode leave what it remembers. *)
LEMMA ArriveKeeps ==
    ASSUME IInv, NEW n \in 1..Len(wire), Arrive(n)
    PROVE  IInv'
<1>1. Types'
  BY DEF IInv, Types, Arrive
<1>2. arrived' \in Nat /\ arrived' >= arrived
  BY DEF IInv, Types, Arrive
<1> QED
  BY <1>1, <1>2, BestKept, OutKept DEF IInv, Arrive

(* So does the beginning of a decode. *)
LEMMA FireReadKeeps ==
    ASSUME IInv, FireRead
    PROVE  IInv'
<1>1. Types'
  BY DEF IInv, Types, FireRead
<1>2. arrived' \in Nat /\ arrived' >= arrived
  BY DEF IInv, Types, FireRead
<1> QED
  BY <1>1, <1>2, BestKept, OutKept DEF IInv, FireRead

(* The head of the loop forgets. *)
LEMMA NextTurnKeeps ==
    ASSUME IInv, NextTurn
    PROVE  IInv'
<1>1. NotFound \in [length : 0..MaxFrameLength + 1, delim : Seq(Chars)]
  BY DelimiterAssumption DEF NotFound
<1>2. Len(Delimiters) \in Nat
  BY DelimiterAssumption
<1>3. StreamKept' /\ CutAtFirst'
  BY OutKept DEF IInv, NextTurn
<1>4. CASE Buffer = <<>> /\ decoding' = FALSE /\ UNCHANGED <<at, best>>
  BY <1>3, <1>4 DEF IInv, Types, BestFound, NextTurn
<1>5. CASE Buffer # <<>> /\ at' = 1 /\ best' = NotFound /\ UNCHANGED decoding
  BY <1>1, <1>2, <1>3, <1>5 DEF IInv, Types, BestFound, NextTurn, NotFound
<1> QED
  BY <1>4, <1>5 DEF NextTurn

(* A scan that finds nothing nearer leaves what decode remembers: in front *)
(* of its end the delimiter does not begin earlier.                        *)
LEMMA NothingNearer ==
    ASSUME IInv, LookFor, \A i \in Found(Buffer, Delimiters[at]) : ~Shorter(i),
           UNCHANGED best
    PROVE  BestFound'
<1> SUFFICES ASSUME best.delim # <<>>
             PROVE  BestFound'
  BY DEF BestFound
<1> DEFINE end == taken + Retrieved
<1>1. /\ best.length \in Nat /\ Retrieved \in Nat /\ taken \in Nat /\ arrived \in Nat
      /\ at \in Nat /\ at # 0 /\ at \in DOMAIN Delimiters /\ DOMAIN Delimiters \subseteq Nat
  BY DelimiterAssumption DEF IInv, Types, Retrieved, LookFor
<1>2. /\ best.length <= MaxFrameLength /\ end <= arrived
      /\ Nearest(wire, taken, end, at, best)
  BY <1>1 DEF IInv, BestFound
<1>3. end \in Nat
  BY <1>1
<1> HIDE DEF end
<1>4. ASSUME NEW i \in First(wire, taken, end, Delimiters[at])
      PROVE  i >= best.length
  <2>1. /\ Len(Delimiters[at]) \in Nat
        /\ Found(Buffer, Delimiters[at]) = First(wire, taken, arrived, Delimiters[at])
    BY <1>1, FoundInside DEF IInv
  <2>2. i \in First(wire, taken, arrived, Delimiters[at])
    BY <1>1, <1>2, <1>3, <2>1, FirstInPart
  <2>3. ~(i < best.length)
    BY <2>1, <2>2 DEF Shorter
  <2>4. i \in Nat
    BY <1>1, <1>3, <2>1, FirstMeans
  <2> QED
    BY <1>1, <2>3, <2>4
<1>5. Nearest(wire, taken, end, at + 1, best)
  <2>1. PICK e \in DOMAIN Delimiters :
          /\ Delimiters[e] = best.delim /\ e < at
          /\ \A d \in DOMAIN Delimiters : e < d /\ d < at =>
                \A i \in First(wire, taken, end, Delimiters[d]) : i >= best.length
    BY <1>2 DEF Nearest
  <2>2. ASSUME NEW d \in DOMAIN Delimiters, e < d, d < at + 1,
               NEW i \in First(wire, taken, end, Delimiters[d])
        PROVE  i >= best.length
    <3>1. d < at \/ d = at
      BY <1>1, <2>2
    <3> QED
      BY <1>4, <2>1, <2>2, <3>1
  <2>3. Delimiters[e] = best.delim /\ e < at + 1
    BY <1>1, <2>1
  <2>4. First(wire, taken, end, best.delim) = {best.length}
    BY <1>2 DEF Nearest
  <2> QED
    BY <2>1, <2>2, <2>3, <2>4 DEF Nearest
<1>6. /\ wire' = wire /\ taken' = taken /\ arrived' = arrived /\ best' = best
      /\ at' = at + 1 /\ Retrieved' = Retrieved
  BY DEF LookFor, Retrieved
<1> QED
  BY <1>2, <1>5, <1>6 DEF BestFound, end

(* A scan that finds a nearer occurrence remembers it. *)
LEMMA FoundNearer ==
    ASSUME IInv, LookFor, NEW i \in Found(Buffer, Delimiters[at]), Shorter(i),
           best' = [length |-> i, delim |-> Delimiters[at]]
    PROVE  best' \in [length : 0..MaxFrameLength + 1, delim : Seq(Chars)] /\ BestFound'
<1> DEFINE delim == Delimiters[at]
           end   == taken + i + Len(delim)
<1>1. /\ delim \in Seq(Chars) /\ Len(delim) \in Nat
      /\ i \in First(wire, taken, arrived, delim)
  BY FoundInside DEF IInv, LookFor
<1>2. taken \in Nat /\ arrived \in Nat /\ best.length \in 0..MaxFrameLength + 1
  BY DEF IInv, Types
<1>3. /\ wire' = wire /\ taken' = taken /\ arrived' = arrived /\ at' = at + 1
      /\ at \in DOMAIN Delimiters /\ at \in Nat
      /\ best'.length = i /\ best'.delim = delim
  BY DelimiterAssumption DEF LookFor
<1> HIDE DEF delim
<1>4. i \in Nat /\ i <= arrived - taken - Len(delim)
  BY <1>1, <1>2, FirstMeans
<1>5. i <= MaxFrameLength
  BY <1>2, <1>4, DelimiterAssumption DEF Shorter
<1>6. end \in Nat /\ end <= arrived
  BY <1>1, <1>2, <1>4
<1> HIDE DEF end
<1>7. First(wire, taken, end, delim) = {i}
  BY <1>1, <1>2, <1>6, FirstInPart DEF end
<1>8. Nearest(wire, taken, end, at + 1, best')
  <2>1. at < at + 1 /\ \A d \in DOMAIN Delimiters : ~(at < d /\ d < at + 1)
    BY <1>3, DelimiterAssumption
  <2> QED
    BY <1>3, <1>7, <2>1 DEF Nearest, delim
<1>9. taken' + Retrieved' = end
  BY <1>1, <1>2, <1>3, <1>4 DEF Retrieved, end
<1>10. BestFound'
  BY <1>3, <1>5, <1>6, <1>8, <1>9 DEF BestFound
<1> QED
  BY <1>1, <1>3, <1>4, <1>5, <1>10, DelimiterAssumption DEF delim

(* A scan remembers what it found, or what was remembered. *)
LEMMA LookForKeeps ==
    ASSUME IInv, LookFor
    PROVE  IInv'
<1>1. Len(Delimiters) \in Nat /\ at' \in 1..Len(Delimiters) + 1
  BY DelimiterAssumption DEF LookFor
<1>2. StreamKept' /\ CutAtFirst'
  BY OutKept DEF IInv, LookFor
<1>3. CASE (\A i \in Found(Buffer, Delimiters[at]) : ~Shorter(i)) /\ UNCHANGED best
  <2>1. BestFound'
    BY <1>3, NothingNearer
  <2> QED
    BY <1>1, <1>2, <1>3, <2>1 DEF IInv, Types, LookFor
<1>4. ASSUME NEW i \in Found(Buffer, Delimiters[at]), Shorter(i),
             best' = [length |-> i, delim |-> Delimiters[at]]
      PROVE  IInv'
  <2>1. best' \in [length : 0..MaxFrameLength + 1, delim : Seq(Chars)] /\ BestFound'
    BY <1>4, FoundNearer
  <2> QED
    BY <1>1, <1>2, <2>1 DEF IInv, Types, LookFor
<1> QED
  BY <1>3, <1>4 DEF LookFor

(* The frame and its delimiter, which is a part of it or not, are what is  *)
(* taken off the stream; it ends with the occurrence that was remembered.  *)
Whole == SubSeq(wire, taken + 1, taken + Retrieved)

(* The frame passed on is that part, less the delimiter if it is stripped. *)
LEMMA FrameIsWhole ==
    ASSUME IInv, PassOn
    PROVE  \E f \in Frames :
              /\ out' = Append(out, f) /\ f.delim = best.delim
              /\ WithDelimiter(f) = Whole
<1> DEFINE data == SubSeq(Buffer, 1, IF Strip THEN best.length ELSE Retrieved)
           f    == [data |-> data, delim |-> best.delim]
<1>1. /\ wire \in Seq(Chars) /\ taken \in Nat /\ arrived \in 0..Len(wire)
      /\ best.delim \in Seq(Chars) /\ best.delim # <<>> /\ Len(best.delim) \in Nat
      /\ best.length \in Nat /\ Len(Delimiters) \in Nat /\ at # 0
  BY DelimiterAssumption DEF IInv, Types, PassOn
<1>2. Len(best.delim) >= 1 /\ Retrieved = best.length + Len(best.delim)
  BY <1>1, EmptySeq DEF Retrieved
<1>3. /\ taken + Retrieved <= arrived
      /\ First(wire, taken, taken + Retrieved, best.delim) = {best.length}
  BY <1>1 DEF IInv, BestFound, Nearest, PassOn
<1>4. \A n \in 0..Retrieved : SubSeq(Buffer, 1, n) = SubSeq(wire, taken + 1, taken + n)
  <2> SUFFICES ASSUME NEW n \in 0..Retrieved
               PROVE  SubSeq(Buffer, 1, n) = SubSeq(wire, taken + 1, taken + n)
    OBVIOUS
  <2>1. CASE n = 0
    BY <1>1, <2>1, SubSeqEmpty
  <2>2. CASE n # 0
    <3>1. /\ taken + 1 \in 1..Len(wire) /\ arrived \in 1..Len(wire)
          /\ 1 \in 1..arrived - (taken + 1) + 1 /\ n \in 1..arrived - (taken + 1) + 1
      BY <1>1, <1>2, <1>3, <2>2
    <3>2. SubSeq(Buffer, 1, n) = SubSeq(wire, taken + 1 + 1 - 1, taken + 1 + n - 1)
      BY <1>1, <3>1, SubSeqOfSubSeq DEF Buffer
    <3> QED
      BY <1>1, <3>2
  <2> QED
    BY <2>1, <2>2
<1>5. \A n \in 0..Retrieved : SubSeq(wire, taken + 1, taken + n) \in Seq(Chars)
  <2> SUFFICES ASSUME NEW n \in 0..Retrieved
               PROVE  SubSeq(wire, taken + 1, taken + n) \in Seq(Chars)
    OBVIOUS
  <2>1. \A i \in taken + 1..taken + n : wire[i] \in Chars
    BY <1>1, <1>2, <1>3
  <2> QED
    BY <1>1, <2>1, SubSeqProperties
<1>6. best.length \in 0..Retrieved /\ Retrieved \in 0..Retrieved
  BY <1>1, <1>2
<1> HIDE DEF data
<1>7. data = IF Strip THEN SubSeq(wire, taken + 1, taken + best.length) ELSE Whole
  BY <1>4, <1>6 DEF data, Whole
<1>8. f \in Frames
  <2>1. data \in Seq(Chars)
    BY <1>5, <1>6, <1>7 DEF Whole
  <2> QED
    BY <1>1, <2>1 DEF Frames
<1>9. WithDelimiter(f) = Whole
  <2>1. CASE ~Strip
    BY <1>7, <2>1 DEF WithDelimiter
  <2>2. CASE Strip
    <3>1. best.delim = SubSeq(wire, taken + best.length + 1, taken + Retrieved)
      <4>1. Occurs(wire, taken + best.length, best.delim)
        BY <1>3 DEF First
      <4>2. taken + best.length + Len(best.delim) = taken + Retrieved
        BY <1>1, <1>2
      <4> QED
        BY <4>1, <4>2 DEF Occurs
    <3>2. /\ taken + best.length \in Nat /\ taken + Retrieved \in Nat
          /\ taken <= taken + best.length /\ taken + best.length <= taken + Retrieved
          /\ taken + Retrieved <= Len(wire)
      BY <1>1, <1>2, <1>3
    <3>3. SubSeq(wire, taken + 1, taken + best.length)
             \o SubSeq(wire, taken + best.length + 1, taken + Retrieved) = Whole
      <4> DEFINE b == taken + best.length
                 c == taken + Retrieved
      <4>1. wire \in Seq(Chars) /\ taken \in Nat /\ b \in Nat /\ c \in Nat
        BY <1>1, <3>2
      <4>2. taken <= b /\ b <= c /\ c <= Len(wire)
        BY <3>2
      <4> HIDE DEF b, c
      <4>3. SubSeq(wire, taken + 1, b) \o SubSeq(wire, b + 1, c) = SubSeq(wire, taken + 1, c)
        BY <4>1, <4>2, TwoParts
      <4> QED
        BY <4>3 DEF Whole, b, c
    <3> QED
      BY <1>7, <2>2, <3>1, <3>3 DEF WithDelimiter
  <2> QED
    BY <2>1, <2>2
<1>10. out' = Append(out, f)
  BY DEF PassOn, data
<1> QED
  BY <1>8, <1>9, <1>10

(* What is retrieved is in the buffer. *)
LEMMA RetrievedFits ==
    ASSUME IInv, PassOn
    PROVE  /\ Retrieved \in 0..MaxFrameLength + Len(best.delim) /\ taken + Retrieved <= arrived
           /\ taken' = taken + Retrieved /\ taken' \in 0..arrived
           /\ Whole \in Seq(Chars) /\ Len(Whole) = Retrieved
           /\ best.delim \in Seq(Chars) \ {<<>>} /\ Len(best.delim) \in Nat
           /\ Len(Whole) - Len(best.delim) = best.length
<1>1. /\ wire \in Seq(Chars) /\ taken \in Nat /\ arrived \in 0..Len(wire) /\ at # 0
      /\ best.delim \in Seq(Chars) \ {<<>>} /\ Len(best.delim) \in Nat /\ best.length \in Nat
  BY DelimiterAssumption DEF IInv, Types, PassOn
<1>2. taken + Retrieved <= arrived /\ best.length <= MaxFrameLength
  BY <1>1 DEF IInv, BestFound, PassOn
<1>3. Retrieved \in Nat /\ Retrieved = best.length + Len(best.delim)
  BY <1>1 DEF Retrieved
<1>4. \A i \in taken + 1..taken + Retrieved : wire[i] \in Chars
  BY <1>1, <1>2, <1>3
<1>5. Whole \in Seq(Chars) /\ Len(Whole) = Retrieved
  BY <1>1, <1>3, <1>4, SubSeqProperties DEF Whole
<1>6. taken' = taken + Retrieved /\ taken' \in 0..arrived /\ best.delim # <<>>
  BY <1>1, <1>2, <1>3 DEF PassOn
<1>7. Retrieved \in 0..MaxFrameLength + Len(best.delim)
  BY <1>1, <1>2, <1>3, DelimiterAssumption
<1> QED
  BY <1>1, <1>2, <1>3, <1>5, <1>6, <1>7

(* One frame more is passed on. *)
LEMMA OneMore ==
    ASSUME NEW frames \in Seq(Frames), NEW f \in Frames, NEW n, n = Len(frames)
    PROVE  /\ n \in Nat /\ Len(Append(frames, f)) = n + 1
           /\ DOMAIN frames = 1..n /\ DOMAIN Append(frames, f) = 1..n + 1
           /\ Append(frames, f)[n + 1] = f
           /\ \A k \in 1..n : Append(frames, f)[k] = frames[k]
           /\ Append(frames, f) \in Seq(Frames)
           /\ ToSet(Append(frames, f)) = ToSet(frames) \cup {f}
<1>1. /\ n \in Nat /\ Len(Append(frames, f)) = n + 1
      /\ DOMAIN frames = 1..n /\ DOMAIN Append(frames, f) = 1..n + 1
      /\ Append(frames, f)[n + 1] = f
      /\ \A k \in 1..n : Append(frames, f)[k] = frames[k]
      /\ Append(frames, f) \in Seq(Frames)
  BY AppendProperties
<1>2. ToSet(Append(frames, f)) = ToSet(frames) \cup {f}
  <2>1. \A k \in 1..n + 1 : k \in 1..n \/ k = n + 1
    BY <1>1
  <2>2. \A k \in 1..n : k \in 1..n + 1
    BY <1>1
  <2>3. n + 1 \in 1..n + 1
    BY <1>1
  <2> QED
    BY <1>1, <2>1, <2>2, <2>3 DEF ToSet
<1> QED
  BY <1>1, <1>2

(* The stream is cut once more, behind what is retrieved. *)
LEMMA PassOnKeepsStream ==
    ASSUME IInv, PassOn
    PROVE  StreamKept'
<1> DEFINE n == Len(out)
<1>1. PICK f \in Frames : out' = Append(out, f) /\ f.delim = best.delim /\ WithDelimiter(f) = Whole
  BY FrameIsWhole
<1>2. PICK cut \in [0..n -> 0..taken] :
        /\ cut[0] = 0 /\ cut[n] = taken
        /\ \A k \in DOMAIN out :
              /\ cut[k] - cut[k - 1] \in 0..MaxFrameLength + Len(out[k].delim)
              /\ WithDelimiter(out[k]) = SubSeq(wire, cut[k - 1] + 1, cut[k])
  BY DEF IInv, StreamKept
<1>3. /\ n \in Nat /\ Len(out') = n + 1 /\ DOMAIN out = 1..n /\ DOMAIN out' = 1..n + 1
      /\ out'[n + 1] = f /\ \A k \in 1..n : out'[k] = out[k]
  BY <1>1, OneMore DEF IInv, Types
<1> HIDE DEF n
<1>4. /\ taken \in Nat /\ taken' \in Nat /\ taken' = taken + Retrieved /\ taken' >= taken
      /\ wire' = wire /\ taken' - taken \in 0..MaxFrameLength + Len(best.delim)
  BY RetrievedFits DEF IInv, Types, PassOn
<1> DEFINE more == [k \in 0..n + 1 |-> IF k = n + 1 THEN taken' ELSE cut[k]]
<1>5. \A k \in 0..n : k \in 0..n + 1 /\ k # n + 1
  BY <1>3
<1>6. \A k \in 0..n : more[k] = cut[k]
  BY <1>5
<1>7. n + 1 \in 0..n + 1 /\ 0 \in 0..n /\ n \in 0..n
  BY <1>3
<1>8. more[n + 1] = taken' /\ more[0] = 0 /\ more[n] = taken
  BY <1>2, <1>6, <1>7
<1>9. more \in [0..n + 1 -> 0..taken']
  <2>1. \A k \in 0..n + 1 : k \in 0..n \/ k = n + 1
    BY <1>3
  <2>2. \A k \in 0..n : cut[k] \in 0..taken'
    BY <1>2, <1>4
  <2>3. taken' \in 0..taken'
    BY <1>4
  <2> QED
    BY <2>1, <2>2, <2>3
<1> HIDE DEF more
<1>10. ASSUME NEW k \in DOMAIN out'
       PROVE  /\ more[k] - more[k - 1] \in 0..MaxFrameLength + Len(out'[k].delim)
              /\ WithDelimiter(out'[k]) = SubSeq(wire', more[k - 1] + 1, more[k])
  <2>1. CASE k \in 1..n
    <3>1. k \in 0..n /\ k - 1 \in 0..n
      BY <1>3, <2>1
    <3>2. out'[k] = out[k] /\ more[k] = cut[k] /\ more[k - 1] = cut[k - 1]
      BY <1>3, <1>6, <2>1, <3>1
    <3> QED
      BY <1>2, <1>3, <1>4, <2>1, <3>2
  <2>2. CASE k = n + 1
    <3>1. out'[k] = f /\ more[k] = taken' /\ more[k - 1] = taken
      BY <1>3, <1>8, <2>2
    <3> QED
      BY <1>1, <1>4, <3>1 DEF Whole
  <2> QED
    BY <1>3, <2>1, <2>2
<1> QED
  BY <1>3, <1>8, <1>9, <1>10 DEF StreamKept, WithDelimiter

(* The frame ends where its delimiter first occurs. *)
LEMMA PassOnKeepsCuts ==
    ASSUME IInv, PassOn
    PROVE  CutAtFirst'
<1>1. PICK f \in Frames : out' = Append(out, f) /\ f.delim = best.delim /\ WithDelimiter(f) = Whole
  BY FrameIsWhole
<1>2. ToSet(out') = ToSet(out) \cup {f}
  BY <1>1, OneMore DEF IInv, Types
<1>3. /\ wire \in Seq(Chars) /\ taken \in 0..Len(wire) /\ taken + Retrieved \in taken..Len(wire)
      /\ Len(Whole) - Len(best.delim) = best.length /\ best.delim \in Seq(Chars) \ {<<>>}
  BY RetrievedFits DEF IInv, Types
<1>4. \A delim \in Seq(Chars) \ {<<>>} :
         Found(Whole, delim) = First(wire, taken, taken + Retrieved, delim)
  BY <1>3, FoundIsFirst DEF Whole
<1>5. /\ Nearest(wire, taken, taken + Retrieved, at, best) /\ at = Len(Delimiters) + 1
      /\ Len(Delimiters) \in Nat /\ DOMAIN Delimiters = 1..Len(Delimiters)
      /\ \A d \in DOMAIN Delimiters : Delimiters[d] \in Seq(Chars) \ {<<>>}
  BY DelimiterAssumption DEF IInv, BestFound, PassOn
<1>6. Found(Whole, best.delim) = {best.length}
  BY <1>3, <1>4, <1>5 DEF Nearest
<1>7. ASSUME NEW d \in DOMAIN Delimiters,
             \A e \in DOMAIN Delimiters : Delimiters[e] = best.delim => e < d,
             NEW i \in Found(Whole, Delimiters[d])
      PROVE  i >= best.length
  <2>1. PICK e \in DOMAIN Delimiters :
          /\ Delimiters[e] = best.delim /\ e < at
          /\ \A c \in DOMAIN Delimiters : e < c /\ c < at =>
                \A j \in First(wire, taken, taken + Retrieved, Delimiters[c]) : j >= best.length
    BY <1>5 DEF Nearest
  <2>2. e < d /\ d < at
    BY <1>5, <1>7, <2>1
  <2> QED
    BY <1>4, <1>5, <1>7, <2>1, <2>2
<1>8. CutWell(f)
  BY <1>1, <1>3, <1>6, <1>7 DEF CutWell
<1>9. \A g \in ToSet(out) : CutWell(g)
  BY DEF IInv, CutAtFirst
<1> QED
  BY <1>2, <1>8, <1>9 DEF CutAtFirst

(* So the frame that is passed on keeps the invariant. *)
LEMMA PassOnKeeps ==
    ASSUME IInv, PassOn
    PROVE  IInv'
<1>1. PICK f \in Frames : out' = Append(out, f)
  BY FrameIsWhole
<1>2. out' \in Seq(Frames)
  BY <1>1, OneMore DEF IInv, Types
<1>3. Types'
  BY <1>2, RetrievedFits, DelimiterAssumption DEF IInv, Types, PassOn
<1>4. BestFound'
  BY DEF BestFound, PassOn
<1> QED
  BY <1>3, <1>4, PassOnKeepsStream, PassOnKeepsCuts DEF IInv

(* A turn without a delimiter takes nothing. *)
LEMMA NoDelimiterKeeps ==
    ASSUME IInv, NoDelimiter
    PROVE  IInv'
<1>1. Len(Delimiters) \in Nat
  BY DelimiterAssumption
<1>2. Types' /\ BestFound'
  BY <1>1 DEF IInv, Types, BestFound, NoDelimiter, LookAgain
<1> QED
  BY <1>2, OutKept DEF IInv, NoDelimiter

(* Every step keeps IInv. *)
LEMMA NextKeeps == IInv /\ [Next]_vars => IInv'
<1> SUFFICES ASSUME IInv, [Next]_vars
             PROVE  IInv'
  OBVIOUS
<1>1. CASE \E n \in 1..Len(wire) : Arrive(n)
  BY <1>1, ArriveKeeps
<1>2. CASE FireRead
  BY <1>2, FireReadKeeps
<1>3. CASE Decode
  BY <1>3, NextTurnKeeps, LookForKeeps, PassOnKeeps, NoDelimiterKeeps DEF Decode
<1>4. CASE UNCHANGED vars
  <2>1. Types' /\ BestFound'
    BY <1>4 DEF IInv, Types, BestFound, Retrieved, vars
  <2> QED
    BY <1>4, <2>1, OutKept DEF IInv, vars
<1> QED
  BY <1>1, <1>2, <1>3, <1>4 DEF Next

-----------------------------------------------------------------------------
(* In every behaviour decode is at one of its places, takes no more than   *)
(* arrived, and the posted tasks are no more than the bytes sent.          *)
THEOREM DelimiterTypeOK == Spec => []TypeOK
<1>1. IInv => TypeOK
  BY DEF IInv, Types, TypeOK
<1> QED
  BY <1>1, InitIInv, NextKeeps, PTL DEF Spec

(* Every frame that decode passes on is cut out of the stream behind the   *)
(* one before it, whatever arrives while decode looks for the delimiters.  *)
THEOREM DelimiterKeepsStream == Spec => []StreamKept
<1>1. IInv => StreamKept
  BY DEF IInv
<1> QED
  BY <1>1, InitIInv, NextKeeps, PTL DEF Spec

(* Every frame ends where its delimiter first occurs, and in front of that *)
(* end no delimiter begins that decode looks for later.                    *)
THEOREM DelimiterCutsAtFirst == Spec => []CutAtFirst
<1>1. IInv => CutAtFirst
  BY DEF IInv
<1> QED
  BY <1>1, InitIInv, NextKeeps, PTL DEF Spec

(* decode returns only when everything that arrived is taken. *)
THEOREM DecodeHoldsTheThread == Spec => HoldsTheThread
<1>1. IInv /\ [Next]_vars => [decoding /\ ~decoding' => taken = arrived]_vars
  <2> SUFFICES ASSUME IInv, Next, decoding, ~decoding'
               PROVE  taken = arrived
    OBVIOUS
  <2>1. ~(\E n \in 1..Len(wire) : Arrive(n)) /\ ~FireRead
    BY DEF Arrive, FireRead
  <2>2. ~LookFor /\ ~PassOn /\ ~NoDelimiter
    BY DEF LookFor, PassOn, NoDelimiter, LookAgain
  <2>3. NextTurn
    BY <2>1, <2>2 DEF Next, Decode
  <2>4. Buffer = <<>>
    BY <2>3 DEF NextTurn
  <2> QED
    BY <2>4, BufferLength DEF IInv, Types
<1> QED
  BY <1>1, InitIInv, NextKeeps, PTL DEF Spec, HoldsTheThread
=============================================================================
