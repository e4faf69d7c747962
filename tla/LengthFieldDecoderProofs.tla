---------------------- MODULE LengthFieldDecoderProofs ----------------------
(***************************************************************************)
(* Theorems about LengthFieldDecoder, for any parameters of the decoder:   *)
(* the buffer holds the stream in its order, the handler behind the        *)
(* decoder gets its frames whole and in order, none is left behind but in  *)
(* the cases that the code has, and a frame that is too long blocks the    *)
(* decoder for good.  The argument is a cursor: decode stands behind the   *)
(* first k frames of the stream (Cursor), and why it stopped there still   *)
(* holds while nothing arrives (Idle).  What the recursive definitions     *)
(* compute (FlattenSeq, Weight, FieldValue) is shown by least              *)
(* counterexamples.                                                        *)
(***************************************************************************)
EXTENDS LengthFieldDecoder, SequenceTheorems, FiniteSetTheorems, WellFoundedInduction, TLAPS

(* The buffer and the wire hold bytes. *)
Bytes == buffer \in Seq(Nat) /\ wire \in Seq(Nat)

(* After a decode that met a frame that is too long, the buffer begins     *)
(* with the header of one.                                                 *)
Blocked == ended = "too long" => HeaderIn /\ TooLong

IInv == Bytes /\ Blocked

-----------------------------------------------------------------------------
(* The header has a length. *)
LEMMA EndType == Offset \in Nat /\ FieldLength \in Nat \ {0} /\ End \in Nat
BY DecoderAssumption DEF End

(* The parts of a stream are streams, and make it up. *)
LEMMA Cut ==
    ASSUME NEW bytes \in Seq(Nat), NEW n \in 0..Len(bytes)
    PROVE  SubSeq(bytes, 1, n) \in Seq(Nat) /\ SubSeq(bytes, n + 1, Len(bytes)) \in Seq(Nat)
<1>1. Len(bytes) \in Nat /\ \A i \in 1..Len(bytes) : bytes[i] \in Nat
  BY LenProperties, ElementOfSeq
<1>2. SubSeq(bytes, 1, n) \in Seq(Nat)
  <2>1. \A i \in 1..n : bytes[i] \in Nat
    BY <1>1
  <2> QED
    BY <1>1, <2>1, SubSeqProperties
<1>3. SubSeq(bytes, n + 1, Len(bytes)) \in Seq(Nat)
  <2>1. \A i \in n + 1..Len(bytes) : bytes[i] \in Nat
    BY <1>1
  <2> QED
    BY <1>1, <2>1, SubSeqProperties
<1> QED
  BY <1>2, <1>3

(* More bytes behind a header that is in the buffer leave its field alone. *)
LEMMA FieldKept ==
    ASSUME NEW bytes \in Seq(Nat), NEW more \in Seq(Nat), Len(bytes) > End
    PROVE  SubSeq(bytes \o more, Offset + 1, End) = SubSeq(bytes, Offset + 1, End)
<1>1. Len(bytes) \in Nat
  BY LenProperties
<1>2. Offset + 1 \in 1..Len(bytes) /\ End \in 1..Len(bytes)
  BY <1>1, EndType DEF End
<1> QED
  BY <1>2, SubSeqOfConcat1

-----------------------------------------------------------------------------
(* Induction.  A set of naturals that is not empty has a least element;    *)
(* what fails for no least number fails for none.                          *)
LEMMA Least ==
    ASSUME NEW T, T \subseteq Nat, T # {}
    PROVE  \E x \in T : \A y \in T : x <= y
<1> DEFINE R == OpToRel(<, Nat)
<1>1. R = {ss \in Nat \X Nat : ss[1] < ss[2]}
  BY DEF OpToRel
<1>2. IsWellFoundedOn(R, Nat)
  BY NatLessThanWellFounded
<1> HIDE DEF R
<1>3. PICK x \in T : \A y \in T : ~ (<<y, x>> \in R)
  BY <1>2, WFMin
<1>4. \A y \in T : ~(y < x)
  BY <1>1, <1>3
<1> QED
  BY <1>3, <1>4

(* f is what FlattenSeq computes on its way through n pieces of p. *)
Joins(f, p, n) == f = [i \in 1..n |-> IF i = 1 THEN p[i] ELSE f[i - 1] \o p[i]]

(* There is one for every number of pieces. *)
LEMMA JoinsExists == ASSUME NEW p, NEW n \in Nat PROVE \E f : Joins(f, p, n)
<1> DEFINE T == {m \in Nat : ~ \E f : Joins(f, p, m)}
<1>1. ASSUME T # {} PROVE FALSE
  <2>1. PICK m \in T : \A y \in T : m <= y
    BY <1>1, Least
  <2>2. m \in Nat /\ ~ \E f : Joins(f, p, m)
    OBVIOUS
  <2>3. m # 0
    <3>1. Joins([i \in 1..0 |-> 0], p, 0)
      BY DEF Joins
    <3> QED
      BY <2>2, <3>1
  <2>4. m - 1 \in Nat /\ ~(m <= m - 1)
    BY <2>2, <2>3
  <2>5. PICK g : Joins(g, p, m - 1)
    BY <2>1, <2>4
  <2> DEFINE e == IF m = 1 THEN p[m] ELSE g[m - 1] \o p[m]
             f == [i \in 1..m |-> IF i = m THEN e ELSE g[i]]
  <2>6. ASSUME NEW i \in 1..m PROVE f[i] = IF i = 1 THEN p[i] ELSE f[i - 1] \o p[i]
    <3>1. i # 1 => i - 1 \in 1..m /\ i - 1 # m
      BY <2>2
    <3>2. i # 1 => f[i - 1] = g[i - 1]
      BY <3>1
    <3>3. CASE i = m
      <4>1. f[i] = e
        BY <3>3
      <4> HIDE DEF f
      <4> QED
        BY <3>2, <3>3, <4>1
    <3>4. CASE i # m
      <4>1. i \in 1..m - 1
        BY <2>2, <3>4
      <4>2. g[i] = IF i = 1 THEN p[i] ELSE g[i - 1] \o p[i]
        BY <2>5, <4>1 DEF Joins
      <4>3. f[i] = g[i]
        BY <3>4
      <4> HIDE DEF f
      <4> QED
        BY <3>2, <4>2, <4>3, Zenon
    <3> QED
      BY <3>3, <3>4
  <2>7. Joins(f, p, m)
    <3> HIDE DEF e
    <3>1. f = [i \in 1..m |-> f[i]]
      OBVIOUS
    <3> HIDE DEF f
    <3>2. [i \in 1..m |-> f[i]] = [i \in 1..m |-> IF i = 1 THEN p[i] ELSE f[i - 1] \o p[i]]
      BY <2>6
    <3> QED
      BY <3>1, <3>2, Zenon DEF Joins
  <2> QED
    BY <2>2, <2>7
<1>2. n \notin T
  BY <1>1
<1> QED
  BY <1>2

(* One piece more is joined behind the others. *)
LEMMA FlattenMore ==
    ASSUME NEW S, NEW p \in Seq(Seq(S)), NEW q \in Seq(Seq(S)), NEW n \in Nat,
           Len(q) = n, Len(p) = n + 1, \A i \in 1..n : q[i] = p[i]
    PROVE  FlattenSeq(p) = FlattenSeq(q) \o p[n + 1]
<1>1. n + 1 \in Nat /\ n + 1 # 0 /\ n + 1 \in 1..n + 1
  OBVIOUS
<1> DEFINE f == CHOOSE f : Joins(f, p, n + 1)
           g == CHOOSE g : Joins(g, q, n)
<1>2. Joins(f, p, n + 1) /\ Joins(g, q, n)
  BY <1>1, JoinsExists
<1>3. FlattenSeq(p) = f[n + 1]
  BY <1>1 DEF FlattenSeq, Joins
<1>4. n # 0 => FlattenSeq(q) = g[n]
  BY DEF FlattenSeq, Joins
<1>5. n = 0 => FlattenSeq(q) = q
  BY DEF FlattenSeq
<1> HIDE DEF f, g
<1>6. \A i \in 1..n + 1 : f[i] = IF i = 1 THEN p[i] ELSE f[i - 1] \o p[i]
  BY <1>2 DEF Joins
<1>7. \A i \in 1..n : g[i] = IF i = 1 THEN q[i] ELSE g[i - 1] \o q[i]
  BY <1>2 DEF Joins
<1>8. CASE n = 0
  <2>1. q = <<>> /\ p[n + 1] \in Seq(S)
    BY <1>8
  <2>2. q \o p[n + 1] = p[n + 1]
    BY <2>1, ConcatEmptySeq
  <2>3. f[n + 1] = p[n + 1]
    BY <1>1, <1>6, <1>8
  <2> QED
    BY <1>3, <1>5, <1>8, <2>2, <2>3
<1>9. CASE n # 0
  <2> DEFINE T == {i \in Nat : i \in 1..n /\ f[i] # g[i]}
  <2>1. ASSUME T # {} PROVE FALSE
    <3>1. PICK i \in T : \A y \in T : i <= y
      BY <2>1, Least
    <3>2. i \in 1..n /\ f[i] # g[i]
      OBVIOUS
    <3>3. i # 1 => i - 1 \in 1..n /\ i - 1 \in Nat /\ ~(i <= i - 1)
      BY <3>2
    <3>4. i # 1 => f[i - 1] = g[i - 1]
      BY <3>1, <3>3
    <3>5. i \in 1..n + 1 /\ q[i] = p[i]
      BY <3>2
    <3>6. f[i] = IF i = 1 THEN p[i] ELSE f[i - 1] \o p[i]
      BY <1>6, <3>5
    <3>7. g[i] = IF i = 1 THEN q[i] ELSE g[i - 1] \o q[i]
      BY <1>7, <3>2
    <3> QED
      BY <3>2, <3>4, <3>5, <3>6, <3>7, Zenon
  <2>2. f[n] = g[n]
    <3>1. n \in 1..n
      BY <1>9
    <3> QED
      BY <2>1, <3>1
  <2>3. f[n + 1] = f[n] \o p[n + 1]
    <3>1. (n + 1) - 1 = n /\ n + 1 # 1
      BY <1>9
    <3> QED
      BY <1>1, <1>6, <3>1
  <2> QED
    BY <1>3, <1>4, <1>9, <2>2, <2>3
<1> QED
  BY <1>8, <1>9

-----------------------------------------------------------------------------
(* Length fields.  Both Weight and the value of a field are numbers to the *)
(* base 256, digit by digit.                                               *)
Horner(f, b, d, n) == f = [i \in 0..n |-> IF i = 0 THEN b ELSE 256 * f[i - 1] + d[i]]

(* There is one for every field. *)
LEMMA HornerExists ==
    ASSUME NEW b \in Nat, NEW n \in Nat, NEW d \in [1..n -> Nat]
    PROVE  \E f \in [0..n -> Nat] : Horner(f, b, d, n)
<1> DEFINE Has(m) == \E f \in [0..m -> Nat] : Horner(f, b, d, m)
           T == {m \in Nat : m <= n /\ ~Has(m)}
<1>1. ASSUME T # {} PROVE FALSE
  <2>1. PICK m \in T : \A y \in T : m <= y
    BY <1>1, Least
  <2>2. m \in Nat /\ m <= n /\ ~Has(m)
    OBVIOUS
  <2>3. m # 0
    <3>1. Horner([i \in 0..0 |-> b], b, d, 0)
      BY DEF Horner
    <3>2. [i \in 0..0 |-> b] \in [0..0 -> Nat]
      OBVIOUS
    <3> QED
      BY <2>2, <3>1, <3>2
  <2>4. m - 1 \in Nat /\ m - 1 <= n /\ ~(m <= m - 1) /\ m \in 1..n
    BY <2>2, <2>3
  <2>5. PICK g \in [0..m - 1 -> Nat] : Horner(g, b, d, m - 1)
    BY <2>1, <2>4
  <2>6. PICK e \in Nat : e = 256 * g[m - 1] + d[m]
    <3>1. g[m - 1] \in Nat /\ d[m] \in Nat
      BY <2>4
    <3> QED
      BY <3>1
  <2> DEFINE f == [i \in 0..m |-> IF i = m THEN e ELSE g[i]]
  <2>7. f \in [0..m -> Nat]
    <3>1. \A i \in 0..m : i # m => i \in 0..m - 1
      BY <2>2
    <3> QED
      BY <3>1
  <2>8. ASSUME NEW i \in 0..m PROVE f[i] = IF i = 0 THEN b ELSE 256 * f[i - 1] + d[i]
    <3>1. i # 0 => i - 1 \in 0..m /\ i - 1 # m
      BY <2>2
    <3>2. i # 0 => f[i - 1] = g[i - 1]
      BY <3>1
    <3>3. CASE i = m
      <4>1. f[i] = e
        BY <3>3
      <4> HIDE DEF f
      <4> QED
        BY <2>3, <2>6, <3>2, <3>3, <4>1
    <3>4. CASE i # m
      <4>1. i \in 0..m - 1
        BY <2>2, <3>4
      <4>2. g[i] = IF i = 0 THEN b ELSE 256 * g[i - 1] + d[i]
        BY <2>5, <4>1 DEF Horner
      <4>3. f[i] = g[i]
        BY <3>4
      <4> HIDE DEF f
      <4> QED
        BY <3>2, <4>2, <4>3, Zenon
    <3> QED
      BY <3>3, <3>4
  <2>9. Horner(f, b, d, m)
    <3>1. f = [i \in 0..m |-> f[i]]
      OBVIOUS
    <3> HIDE DEF f
    <3>2. [i \in 0..m |-> f[i]] = [i \in 0..m |-> IF i = 0 THEN b ELSE 256 * f[i - 1] + d[i]]
      BY <2>8
    <3> QED
      BY <3>1, <3>2, Zenon DEF Horner
  <2> HIDE DEF f
  <2> QED
    BY <2>2, <2>7, <2>9
<1>2. n \notin T
  BY <1>1
<1> QED
  BY <1>2

(* The weights are the powers of 256. *)
LEMMA WeightIs ==
    /\ Weight[0] = 1
    /\ \A k \in 1..FieldLength : Weight[k] = 256 * Weight[k - 1]
    /\ \A k \in 0..FieldLength : Weight[k] \in Nat \ {0}
<1>1. PICK n \in Nat : n = FieldLength
  BY EndType
<1> DEFINE W(f) == f = [k \in 0..n |-> IF k = 0 THEN 1 ELSE 256 * f[k - 1]]
           d == [i \in 1..n |-> 0]
<1>2. \E f : W(f)
  <2>1. d \in [1..n -> Nat]
    OBVIOUS
  <2>2. PICK f \in [0..n -> Nat] : Horner(f, 1, d, n)
    BY <2>1, HornerExists
  <2>3. ASSUME NEW k \in 0..n PROVE f[k] = IF k = 0 THEN 1 ELSE 256 * f[k - 1]
    <3>1. f[k] = IF k = 0 THEN 1 ELSE 256 * f[k - 1] + d[k]
      BY <2>2 DEF Horner
    <3>2. k # 0 => d[k] = 0 /\ f[k - 1] \in Nat
      OBVIOUS
    <3> QED
      BY <3>1, <3>2
  <2>4. f = [k \in 0..n |-> f[k]]
    OBVIOUS
  <2>5. [k \in 0..n |-> f[k]] = [k \in 0..n |-> IF k = 0 THEN 1 ELSE 256 * f[k - 1]]
    BY <2>3
  <2>6. W(f)
    BY <2>4, <2>5, Zenon
  <2> QED
    BY <2>6
<1>3. Weight = CHOOSE f : W(f)
  BY <1>1 DEF Weight
<1>4. W(Weight)
  BY <1>2, <1>3
<1>5. \A k \in 0..n : Weight[k] = IF k = 0 THEN 1 ELSE 256 * Weight[k - 1]
  BY <1>4
<1> DEFINE T == {k \in Nat : k <= n /\ Weight[k] \notin Nat \ {0}}
<1>6. ASSUME T # {} PROVE FALSE
  <2>1. PICK k \in T : \A y \in T : k <= y
    BY <1>6, Least
  <2>2. k \in 0..n /\ Weight[k] \notin Nat \ {0}
    OBVIOUS
  <2>3. k # 0 => k - 1 \in Nat /\ k - 1 <= n /\ ~(k <= k - 1)
    BY <2>2
  <2>4. k # 0 => Weight[k - 1] \in Nat \ {0}
    BY <2>1, <2>3
  <2>5. Weight[k] = IF k = 0 THEN 1 ELSE 256 * Weight[k - 1]
    BY <1>5, <2>2
  <2> QED
    BY <2>2, <2>4, <2>5
<1>7. \A k \in 0..n : Weight[k] \in Nat \ {0}
  BY <1>6
<1> HIDE DEF W
<1> QED
  BY <1>1, <1>5, <1>7

(* Quotient and remainder of a natural. *)
LEMMA DivMod ==
    ASSUME NEW v \in Nat, NEW w \in Nat \ {0}
    PROVE  \E b \in Nat, r \in 0..w - 1 : b = v \div w /\ r = v % w /\ v = b * w + r
OBVIOUS

(* They are the only such. *)
LEMMA DivIs ==
    ASSUME NEW v \in Nat, NEW w \in Nat \ {0}, NEW b \in Nat, NEW r \in 0..w - 1, v = b * w + r
    PROVE  v \div w = b
OBVIOUS

(* A number without its last two digits is it without the one and the other. *)
LEMMA DivDiv ==
    ASSUME NEW v \in Nat, NEW w \in Nat \ {0}
    PROVE  v \div (256 * w) = (v \div w) \div 256
<1>1. PICK a \in Nat, r \in 0..w - 1 : a = v \div w /\ v = a * w + r
  BY DivMod
<1>2. PICK b \in Nat, s \in 0..255 : b = a \div 256 /\ a = b * 256 + s
  <2>1. PICK b \in Nat, s \in 0..256 - 1 : b = a \div 256 /\ a = b * 256 + s
    BY DivMod
  <2> QED
    BY <2>1
<1>3. v = b * (256 * w) + (s * w + r)
  <2>1. (b * 256 + s) * w = b * (256 * w) + s * w
    OBVIOUS
  <2>2. v = (b * 256 + s) * w + r
    BY <1>1, <1>2, Zenon
  <2>3. b * (256 * w) \in Nat /\ s * w \in Nat
    OBVIOUS
  <2> QED
    BY <2>1, <2>2, <2>3
<1>4. s * w + r \in 0..256 * w - 1 /\ 256 * w \in Nat \ {0}
  <2>1. s * w \in Nat /\ s * w <= 255 * w
    OBVIOUS
  <2> QED
    BY <2>1
<1>5. v \div (256 * w) = b
  BY <1>3, <1>4, DivIs
<1> QED
  BY <1>1, <1>2, <1>5

(* Either byte order has one place for each byte. *)
LEMMA Places ==
    ASSUME NEW i \in 1..FieldLength
    PROVE  Place(i) \in 1..FieldLength /\ Place(Place(i)) = i
BY EndType DEF Place

(* get_unajust_frame_length reads what the peer wrote, in either order of  *)
(* the bytes.                                                              *)
LEMMA FieldHolds ==
    ASSUME NEW v \in Claims
    PROVE  /\ FieldBytes(v) \in Seq(Nat) /\ Len(FieldBytes(v)) = FieldLength
           /\ FieldValue(FieldBytes(v)) = v
<1>1. PICK n \in Nat : n = FieldLength /\ n # 0
  BY EndType
<1>2. v \in Nat /\ v < Weight[n]
  BY <1>1, DecoderAssumption
<1> DEFINE q(i) == v \div Weight[n - i]
           e(i) == q(Place(i)) % 256
<1>3. /\ \A i \in 0..n : q(i) \in Nat
      /\ q(0) = 0 /\ q(n) = v
      /\ \A i \in 1..n : q(i) = 256 * q(i - 1) + (q(i) % 256) /\ q(i) % 256 \in Nat
  <2>1. ASSUME NEW i \in 0..n PROVE q(i) \in Nat
    <3>1. n - i \in 0..FieldLength
      BY <1>1
    <3>2. Weight[n - i] \in Nat \ {0}
      BY <3>1, WeightIs
    <3> QED
      BY <1>2, <3>2, DivMod, Zenon
  <2>2. q(0) = 0
    <3>1. PICK w \in Nat \ {0} : w = Weight[n]
      <4>1. n \in 0..FieldLength
        BY <1>1
      <4> QED
        BY <4>1, WeightIs
    <3>2. v = 0 * w + v /\ v \in 0..w - 1
      BY <1>2, <3>1
    <3>3. v \div w = 0
      BY <1>2, <3>2, DivIs
    <3> QED
      BY <3>1, <3>3
  <2>3. q(n) = v
    <3>1. Weight[n - n] = 1
      BY WeightIs
    <3>2. v = v * 1 + 0
      BY <1>2
    <3>3. v \div 1 = v
      BY <1>2, <3>2, DivIs
    <3> QED
      BY <3>1, <3>3
  <2>4. ASSUME NEW i \in 1..n PROVE q(i) = 256 * q(i - 1) + (q(i) % 256) /\ q(i) % 256 \in Nat
    <3>1. n - i \in 0..FieldLength /\ n - (i - 1) \in 1..FieldLength /\ n - (i - 1) - 1 = n - i
      BY <1>1
    <3>2. PICK w \in Nat \ {0} : w = Weight[n - i]
      BY <3>1, WeightIs
    <3>3. Weight[n - (i - 1)] = 256 * w
      BY <3>1, <3>2, WeightIs
    <3>4. PICK a \in Nat : a = q(i)
      BY <2>1
    <3>5. q(i - 1) = a \div 256
      BY <1>2, <3>2, <3>3, <3>4, DivDiv
    <3>6. PICK b \in Nat, r \in 0..256 - 1 : b = a \div 256 /\ r = a % 256 /\ a = b * 256 + r
      BY DivMod
    <3>7. a = 256 * (a \div 256) + (a % 256) /\ a % 256 \in Nat
      <4>1. a = 256 * b + r /\ r \in Nat
        BY <3>6
      <4>2. 256 * b + r = 256 * (a \div 256) + (a % 256)
        BY <3>6, Zenon
      <4> QED
        BY <3>6, <4>1, <4>2
    <3> HIDE DEF q
    <3> QED
      BY <3>4, <3>5, <3>7
  <2> HIDE DEF q
  <2> QED
    BY <2>1, <2>2, <2>3, <2>4
<1>4. FieldBytes(v) = [i \in 1..n |-> e(i)]
  BY <1>1 DEF FieldBytes
<1> HIDE DEF q
<1>5. ASSUME NEW i \in 1..n PROVE e(i) \in Nat /\ e(Place(i)) = (q(i) % 256)
  <2>1. Place(i) \in 1..n /\ Place(Place(i)) = i
    BY <1>1, Places
  <2> QED
    BY <1>3, <2>1
<1> HIDE DEF e
<1>6. FieldBytes(v) \in [1..n -> Nat] /\ \A i \in 1..n : FieldBytes(v)[i] = e(i)
  BY <1>4, <1>5
<1>7. FieldBytes(v) \in Seq(Nat) /\ Len(FieldBytes(v)) = n
  <2>1. PICK d \in [1..n -> Nat] : d = FieldBytes(v)
    BY <1>6
  <2>2. d \in Seq(Nat) /\ Len(d) = n
    OBVIOUS
  <2> QED
    BY <2>1, <2>2
<1> DEFINE d == [i \in 1..n |-> FieldBytes(v)[Place(i)]]
           H(f) == f = [i \in 0..n |-> IF i = 0 THEN 0 ELSE 256 * f[i - 1] + FieldBytes(v)[Place(i)]]
           value == CHOOSE f : H(f)
<1>8. \A i \in 1..n : FieldBytes(v)[Place(i)] = (q(i) % 256)
  BY <1>1, <1>5, <1>6, Places
<1>9. H(value)
  <2>1. d \in [1..n -> Nat]
    BY <1>3, <1>8
  <2>2. PICK f \in [0..n -> Nat] : Horner(f, 0, d, n)
    BY <2>1, HornerExists
  <2>3. ASSUME NEW i \in 0..n
        PROVE  f[i] = IF i = 0 THEN 0 ELSE 256 * f[i - 1] + FieldBytes(v)[Place(i)]
    <3>1. f[i] = IF i = 0 THEN 0 ELSE 256 * f[i - 1] + d[i]
      BY <2>2 DEF Horner
    <3>2. i # 0 => d[i] = FieldBytes(v)[Place(i)]
      OBVIOUS
    <3> QED
      BY <3>1, <3>2, Zenon
  <2>4. f = [i \in 0..n |-> f[i]]
    OBVIOUS
  <2>5. [i \in 0..n |-> f[i]]
           = [i \in 0..n |-> IF i = 0 THEN 0 ELSE 256 * f[i - 1] + FieldBytes(v)[Place(i)]]
    BY <2>3
  <2>6. H(f)
    BY <2>4, <2>5, Zenon
  <2> HIDE DEF H
  <2> QED
    BY <2>6
<1>10. FieldValue(FieldBytes(v)) = value[n]
  BY <1>1 DEF FieldValue
<1>11. ASSUME NEW i \in 0..n
       PROVE  value[i] = IF i = 0 THEN 0 ELSE 256 * value[i - 1] + (q(i) % 256)
  <2> HIDE DEF value
  <2>1. value[i] = IF i = 0 THEN 0 ELSE 256 * value[i - 1] + FieldBytes(v)[Place(i)]
    BY <1>9
  <2>2. i # 0 => FieldBytes(v)[Place(i)] = (q(i) % 256)
    BY <1>8
  <2> QED
    BY <2>1, <2>2, Zenon
<1> HIDE DEF value
<1> DEFINE T == {i \in Nat : i <= n /\ value[i] # q(i)}
<1>12. ASSUME T # {} PROVE FALSE
  <2>1. PICK i \in T : \A y \in T : i <= y
    BY <1>12, Least
  <2>2. i \in 0..n /\ value[i] # q(i)
    OBVIOUS
  <2>3. i # 0 => i \in 1..n /\ i - 1 \in Nat /\ i - 1 <= n /\ ~(i <= i - 1)
    BY <2>2
  <2>4. i # 0 => value[i - 1] = q(i - 1)
    BY <2>1, <2>3
  <2>5. value[i] = IF i = 0 THEN 0 ELSE 256 * value[i - 1] + (q(i) % 256)
    BY <1>11, <2>2
  <2>6. i # 0 => q(i) = 256 * q(i - 1) + (q(i) % 256)
    BY <1>3, <2>3
  <2> QED
    BY <1>3, <2>2, <2>4, <2>5, <2>6, Zenon
<1>13. value[n] = q(n)
  BY <1>12
<1> QED
  BY <1>1, <1>3, <1>7, <1>10, <1>13

-----------------------------------------------------------------------------
(* Frames.  Each has its length field where the decoder looks for it.      *)
LEMMA SeqIs ==
    ASSUME NEW S, NEW n \in Nat, NEW d \in [1..n -> S]
    PROVE  d \in Seq(S) /\ Len(d) = n
OBVIOUS

(* A frame fills its header at least. *)
LEMMA WireLengthIs ==
    ASSUME NEW v \in Claims
    PROVE  /\ WireLength(v) \in Nat /\ WireLength(v) >= End /\ FrameLength(v) \in Nat
           /\ FrameLength(v) >= End => WireLength(v) = FrameLength(v)
           /\ FrameLength(v) < End => WireLength(v) = End
<1>1. v \in Nat /\ Adjustment \in Int /\ Adjustment >= -End /\ End \in Nat
  BY DecoderAssumption, EndType
<1>2. FrameLength(v) \in Nat
  BY <1>1 DEF FrameLength
<1> QED
  BY <1>1, <1>2 DEF WireLength

(* A frame is bytes, its length field among them. *)
LEMMA FrameIs ==
    ASSUME NEW f \in Nat, NEW v \in Claims
    PROVE  /\ Frame(f, v) \in Seq(Nat) /\ Len(Frame(f, v)) = WireLength(v)
           /\ \A i \in 1..FieldLength : Frame(f, v)[Offset + i] = FieldBytes(v)[i]
<1>1. PICK n \in Nat, o \in Nat, l \in Nat, e \in Nat :
         /\ n = FieldLength /\ o = Offset /\ l = WireLength(v) /\ e = End
         /\ e = o + n /\ l >= e
  <2>1. FieldLength \in Nat /\ Offset \in Nat /\ End = Offset + FieldLength
    BY EndType DEF End
  <2> QED
    BY <2>1, WireLengthIs
<1>2. PICK b \in Seq(Nat) : b = FieldBytes(v) /\ Len(b) = n
  BY <1>1, FieldHolds
<1> DEFINE w(i) == IF i \in o + 1..e THEN b[i - o] ELSE 16 * f + i
<1>3. Frame(f, v) = [i \in 1..l |-> w(i)]
  BY <1>1, <1>2 DEF Frame
<1>4. ASSUME NEW i \in 1..l PROVE w(i) \in Nat
  <2>1. i \in o + 1..e => i - o \in 1..Len(b)
    BY <1>1, <1>2
  <2>2. i \in o + 1..e => b[i - o] \in Nat
    BY <2>1
  <2>3. 16 * f + i \in Nat
    OBVIOUS
  <2> QED
    BY <2>2, <2>3
<1>5. ASSUME NEW i \in 1..n PROVE o + i \in 1..l /\ w(o + i) = b[i]
  <2>1. o + i \in 1..l /\ o + i \in o + 1..e /\ (o + i) - o = i
    BY <1>1
  <2> QED
    BY <2>1
<1> HIDE DEF w
<1>6. PICK d \in [1..l -> Nat] : d = Frame(f, v)
  BY <1>3, <1>4
<1>7. d \in Seq(Nat) /\ Len(d) = l
  BY SeqIs
<1>8. \A i \in 1..n : d[o + i] = b[i]
  BY <1>3, <1>5, <1>6
<1> QED
  BY <1>1, <1>2, <1>6, <1>7, <1>8

-----------------------------------------------------------------------------
(* The stream of the first k frames.                                       *)
StreamOf(claims, k) == FlattenSeq([f \in 1..k |-> Frame(f, claims[f])])

(* Each frame has its claim. *)
LEMMA ClaimOf ==
    ASSUME NEW claims \in Seq(Claims), NEW f \in 1..Len(claims)
    PROVE  f \in Nat /\ claims[f] \in Claims
OBVIOUS

(* The first k frames. *)
LEMMA FramesAre ==
    ASSUME NEW claims \in Seq(Claims), NEW k \in 0..Len(claims)
    PROVE  /\ [f \in 1..k |-> Frame(f, claims[f])] \in Seq(Seq(Nat))
           /\ Len([f \in 1..k |-> Frame(f, claims[f])]) = k
           /\ \A i \in 1..k : [f \in 1..k |-> Frame(f, claims[f])][i] = Frame(i, claims[i])
<1> DEFINE p == [f \in 1..k |-> Frame(f, claims[f])]
<1>1. k \in Nat /\ Len(claims) \in Nat
  BY LenProperties
<1>2. ASSUME NEW f \in 1..k PROVE Frame(f, claims[f]) \in Seq(Nat)
  <2>1. f \in 1..Len(claims)
    BY <1>1
  <2> QED
    BY <2>1, ClaimOf, FrameIs
<1>3. p \in [1..k -> Seq(Nat)]
  BY <1>2
<1>4. \A i \in 1..k : p[i] = Frame(i, claims[i])
  OBVIOUS
<1> HIDE DEF p
<1>5. p \in Seq(Seq(Nat)) /\ Len(p) = k
  BY <1>1, <1>3, SeqIs
<1> QED
  BY <1>4, <1>5 DEF p

(* The stream of none, and of all. *)
LEMMA StreamBegins ==
    ASSUME NEW claims \in Seq(Claims)
    PROVE  StreamOf(claims, 0) = <<>> /\ StreamOf(claims, Len(claims)) = Stream(claims)
<1>1. Len(claims) \in Nat /\ DOMAIN claims = 1..Len(claims)
  BY LenProperties
<1>2. StreamOf(claims, Len(claims)) = Stream(claims)
  BY <1>1 DEF StreamOf, Stream
<1> DEFINE p == [f \in 1..0 |-> Frame(f, claims[f])]
<1>3. Len(p) = 0 /\ p = <<>>
  <2>1. 0 \in 0..Len(claims)
    BY <1>1
  <2>2. p \in Seq(Seq(Nat)) /\ Len(p) = 0
    BY <2>1, FramesAre
  <2> HIDE DEF p
  <2> QED
    BY <2>2
<1>4. FlattenSeq(p) = <<>>
  <2> HIDE DEF p
  <2> QED
    BY <1>3 DEF FlattenSeq
<1> QED
  BY <1>2, <1>4 DEF StreamOf

(* The next frame is behind them. *)
LEMMA StreamGrows ==
    ASSUME NEW claims \in Seq(Claims), NEW n \in Nat, n + 1 \in 1..Len(claims)
    PROVE  StreamOf(claims, n + 1) = StreamOf(claims, n) \o Frame(n + 1, claims[n + 1])
<1>1. n \in 0..Len(claims) /\ n + 1 \in 0..Len(claims)
  BY LenProperties
<1> DEFINE q == [f \in 1..n |-> Frame(f, claims[f])]
           p == [f \in 1..n + 1 |-> Frame(f, claims[f])]
<1>2. /\ q \in Seq(Seq(Nat)) /\ Len(q) = n
      /\ \A i \in 1..n : q[i] = Frame(i, claims[i])
  BY <1>1, FramesAre
<1>3. /\ p \in Seq(Seq(Nat)) /\ Len(p) = n + 1
      /\ \A i \in 1..n + 1 : p[i] = Frame(i, claims[i])
  BY <1>1, FramesAre
<1>4. StreamOf(claims, n) = FlattenSeq(q) /\ StreamOf(claims, n + 1) = FlattenSeq(p)
  BY DEF StreamOf
<1> HIDE DEF p, q
<1>5. \A i \in 1..n : q[i] = p[i]
  <2>1. \A i \in 1..n : i \in 1..n + 1
    OBVIOUS
  <2> QED
    BY <1>2, <1>3, <2>1
<1>6. n + 1 \in 1..n + 1
  OBVIOUS
<1>7. FlattenSeq(p) = FlattenSeq(q) \o p[n + 1]
  BY <1>2, <1>3, <1>5, FlattenMore
<1> QED
  BY <1>3, <1>4, <1>6, <1>7

(* A stream is bytes. *)
LEMMA StreamBytes ==
    ASSUME NEW claims \in Seq(Claims), NEW k \in 0..Len(claims)
    PROVE  StreamOf(claims, k) \in Seq(Nat)
<1> DEFINE T == {i \in Nat : i \in 0..Len(claims) /\ StreamOf(claims, i) \notin Seq(Nat)}
<1>1. ASSUME T # {} PROVE FALSE
  <2>1. PICK i \in T : \A y \in T : i <= y
    BY <1>1, Least
  <2>2. i \in 0..Len(claims) /\ StreamOf(claims, i) \notin Seq(Nat)
    OBVIOUS
  <2>3. i # 0
    <3>1. <<>> \in Seq(Nat)
      OBVIOUS
    <3> QED
      BY <2>2, <3>1, StreamBegins
  <2>4. PICK n \in Nat : i = n + 1 /\ n \in 0..Len(claims) /\ n + 1 \in 1..Len(claims) /\ ~(i <= n)
    <3>1. i - 1 \in Nat /\ i = (i - 1) + 1
      BY <2>2, <2>3
    <3> QED
      BY <2>2, <2>3, <3>1, LenProperties
  <2>5. StreamOf(claims, n) \in Seq(Nat)
    BY <2>1, <2>4
  <2>6. Frame(n + 1, claims[n + 1]) \in Seq(Nat)
    BY <2>4, ClaimOf, FrameIs
  <2>7. StreamOf(claims, n) \o Frame(n + 1, claims[n + 1]) \in Seq(Nat)
    BY <2>5, <2>6, ConcatProperties
  <2> QED
    BY <2>2, <2>4, <2>7, StreamGrows
<1>2. k \in Nat
  OBVIOUS
<1> QED
  BY <1>1, <1>2

(* The stream of one frame more is longer by that frame. *)
LEMMA StreamLength ==
    ASSUME NEW claims \in Seq(Claims), NEW n \in Nat, n + 1 \in 1..Len(claims)
    PROVE  /\ Len(StreamOf(claims, n)) \in Nat
           /\ Len(StreamOf(claims, n + 1))
                 = Len(StreamOf(claims, n)) + WireLength(claims[n + 1])
<1>1. n \in 0..Len(claims)
  BY LenProperties
<1>2. StreamOf(claims, n) \in Seq(Nat)
  BY <1>1, StreamBytes
<1>3. /\ Frame(n + 1, claims[n + 1]) \in Seq(Nat)
      /\ Len(Frame(n + 1, claims[n + 1])) = WireLength(claims[n + 1])
  BY ClaimOf, FrameIs
<1>4. Len(StreamOf(claims, n) \o Frame(n + 1, claims[n + 1]))
         = Len(StreamOf(claims, n)) + Len(Frame(n + 1, claims[n + 1]))
  BY <1>2, <1>3, ConcatProperties
<1> QED
  BY <1>2, <1>3, <1>4, StreamGrows, LenProperties

(* Frames that follow leave a stream as it is. *)
LEMMA StreamKeeps ==
    ASSUME NEW claims \in Seq(Claims), NEW k \in 0..Len(claims), NEW n \in k..Len(claims)
    PROVE  /\ Len(StreamOf(claims, k)) <= Len(StreamOf(claims, n))
           /\ \A i \in 1..Len(StreamOf(claims, k)) :
                 StreamOf(claims, n)[i] = StreamOf(claims, k)[i]
<1>1. k \in Nat /\ Len(claims) \in Nat
  BY LenProperties
<1>2. StreamOf(claims, k) \in Seq(Nat)
  BY StreamBytes
<1>3. PICK s \in Seq(Nat), l \in Nat : s = StreamOf(claims, k) /\ l = Len(s)
  BY <1>2, LenProperties
<1> DEFINE Keeps(m) == /\ l <= Len(StreamOf(claims, m))
                       /\ \A i \in 1..l : StreamOf(claims, m)[i] = s[i]
           T == {m \in Nat : m \in k..Len(claims) /\ ~Keeps(m)}
<1>4. ASSUME T # {} PROVE FALSE
  <2>1. PICK m \in T : \A y \in T : m <= y
    BY <1>4, Least
  <2>2. m \in k..Len(claims) /\ ~Keeps(m)
    OBVIOUS
  <2>3. m # k
    BY <1>3, <2>2
  <2>4. PICK j \in Nat : /\ m = j + 1 /\ j \in k..Len(claims) /\ j \in 0..Len(claims)
                         /\ j + 1 \in 1..Len(claims) /\ ~(m <= j)
    <3>1. m - 1 \in Nat /\ m = (m - 1) + 1
      BY <1>1, <2>2, <2>3
    <3> QED
      BY <1>1, <2>2, <2>3, <3>1
  <2>5. Keeps(j)
    BY <2>1, <2>4
  <2>6. PICK t \in Seq(Nat), u \in Seq(Nat) :
           t = StreamOf(claims, j) /\ u = Frame(j + 1, claims[j + 1])
    BY <2>4, StreamBytes, ClaimOf, FrameIs
  <2>7. StreamOf(claims, m) = t \o u
    BY <2>4, <2>6, StreamGrows
  <2>8. /\ Len(t \o u) = Len(t) + Len(u)
        /\ \A i \in 1..Len(t) + Len(u) :
              (t \o u)[i] = IF i <= Len(t) THEN t[i] ELSE u[i - Len(t)]
    BY ConcatProperties
  <2>9. Len(t) \in Nat /\ Len(u) \in Nat /\ l <= Len(t)
    BY <2>5, <2>6, LenProperties
  <2>10. ASSUME NEW i \in 1..l PROVE (t \o u)[i] = s[i]
    <3>1. i \in 1..Len(t) + Len(u) /\ i <= Len(t)
      BY <2>9
    <3>2. t[i] = s[i]
      BY <2>5, <2>6
    <3> QED
      BY <2>8, <3>1, <3>2
  <2>11. l <= Len(t \o u)
    BY <2>8, <2>9
  <2> QED
    BY <2>2, <2>7, <2>10, <2>11
<1>5. n \in Nat /\ n \in k..Len(claims)
  BY <1>1
<1>6. Keeps(n)
  BY <1>4, <1>5
<1> QED
  BY <1>3, <1>6

(* What is behind the first n frames begins with the next. *)
LEMMA StreamHolds ==
    ASSUME NEW claims \in Seq(Claims), NEW n \in Nat, n + 1 \in 1..Len(claims),
           NEW i \in 1..WireLength(claims[n + 1])
    PROVE  Stream(claims)[Len(StreamOf(claims, n)) + i] = Frame(n + 1, claims[n + 1])[i]
<1>1. Len(claims) \in Nat /\ n \in 0..Len(claims) /\ n + 1 \in 0..Len(claims)
      /\ Len(claims) \in n + 1..Len(claims)
  BY LenProperties
<1>2. PICK t \in Seq(Nat), u \in Seq(Nat), w \in Nat, l \in Nat :
         /\ t = StreamOf(claims, n) /\ u = Frame(n + 1, claims[n + 1])
         /\ w = WireLength(claims[n + 1]) /\ w = Len(u) /\ l = Len(t)
  <2>1. StreamOf(claims, n) \in Seq(Nat)
    BY <1>1, StreamBytes
  <2>2. claims[n + 1] \in Claims /\ n + 1 \in Nat
    BY ClaimOf
  <2> QED
    BY <2>1, <2>2, FrameIs, WireLengthIs, LenProperties
<1>3. StreamOf(claims, n + 1) = t \o u
  BY <1>2, StreamGrows
<1>4. /\ Len(t \o u) = Len(t) + Len(u)
      /\ \A m \in 1..Len(t) + Len(u) :
            (t \o u)[m] = IF m <= Len(t) THEN t[m] ELSE u[m - Len(t)]
  BY ConcatProperties
<1>5. i \in 1..w
  BY <1>2
<1>6. l + i \in 1..Len(t) + Len(u) /\ ~(l + i <= l) /\ (l + i) - l = i
  BY <1>2, <1>5
<1>7. (t \o u)[l + i] = u[i]
  BY <1>2, <1>4, <1>6
<1>8. Stream(claims)[l + i] = StreamOf(claims, n + 1)[l + i]
  <2>1. l + i \in 1..Len(StreamOf(claims, n + 1))
    BY <1>3, <1>4, <1>6
  <2>2. \A m \in 1..Len(StreamOf(claims, n + 1)) :
           StreamOf(claims, Len(claims))[m] = StreamOf(claims, n + 1)[m]
    BY <1>1, StreamKeeps
  <2>3. StreamOf(claims, Len(claims)) = Stream(claims)
    BY StreamBegins
  <2> QED
    BY <2>1, <2>2, <2>3
<1> QED
  BY <1>2, <1>3, <1>7, <1>8

(* What is sent is bytes. *)
LEMMA StreamIsBytes == ASSUME NEW claims \in Seq(Claims) PROVE Stream(claims) \in Seq(Nat)
<1>1. Len(claims) \in 0..Len(claims)
  BY LenProperties
<1>2. StreamOf(claims, Len(claims)) \in Seq(Nat)
  BY <1>1, StreamBytes
<1> QED
  BY <1>2, StreamBegins

-----------------------------------------------------------------------------
(* IInv holds at first. *)
LEMMA InitIInv == Init => IInv
<1> SUFFICES ASSUME Init
             PROVE  IInv
  OBVIOUS
<1>1. wire \in Seq(Nat)
  <2>1. PICK n \in 1..MaxFrames : sent \in [1..n -> Claims]
    BY DEF Init
  <2>2. n \in Nat
    OBVIOUS
  <2>3. sent \in Seq(Claims)
    BY <2>1, <2>2, SeqIs
  <2> QED
    BY <2>3, StreamIsBytes DEF Init
<1>2. buffer = <<>> /\ ended = "empty"
  BY DEF Init
<1> QED
  BY <1>1, <1>2 DEF IInv, Bytes, Blocked

(* An arrival leaves the header alone. *)
LEMMA ArriveKeeps ==
    ASSUME IInv, NEW n \in 1..Len(wire), Arrive(n)
    PROVE  IInv' /\ Len(buffer') >= Len(buffer) /\ UNCHANGED out
<1> DEFINE more == SubSeq(wire, 1, n)
<1>1. Len(wire) \in Nat /\ Len(buffer) \in Nat
  BY LenProperties DEF IInv, Bytes
<1>2. more \in Seq(Nat) /\ SubSeq(wire, n + 1, Len(wire)) \in Seq(Nat)
  BY <1>1, Cut DEF IInv, Bytes
<1>3. buffer' = buffer \o more
  BY DEF Arrive, Written
<1>4. Len(more) \in Nat /\ buffer' \in Seq(Nat) /\ Len(buffer') = Len(buffer) + Len(more)
  BY <1>2, <1>3, ConcatProperties, LenProperties DEF IInv, Bytes
<1>5. Bytes'
  BY <1>2, <1>4 DEF Bytes, Arrive
<1>6. ASSUME HeaderIn
      PROVE  HeaderIn' /\ (TooLong' <=> TooLong)
  <2>1. Len(buffer) > End /\ Len(buffer') > End
    BY <1>1, <1>4, <1>6, EndType DEF HeaderIn
  <2>2. SubSeq(buffer', Offset + 1, End) = SubSeq(buffer, Offset + 1, End)
    BY <1>2, <1>3, <2>1, FieldKept DEF IInv, Bytes
  <2> QED
    BY <2>1, <2>2 DEF HeaderIn, TooLong, TooShort, HeadLength
<1>7. Blocked'
  BY <1>6 DEF IInv, Blocked, Arrive
<1> QED
  BY <1>1, <1>4, <1>5, <1>7 DEF IInv, Arrive

(* Taking the first n bytes out of the buffer leaves bytes, and a decode    *)
(* that ended otherwise than at a frame too long has nothing to keep.       *)
LEMMA TakeKeeps ==
    ASSUME Bytes, NEW n \in 0..Len(buffer), wire' = wire, ended' # "too long",
           buffer' = SubSeq(buffer, n + 1, Len(buffer))
    PROVE  IInv'
<1>1. SubSeq(buffer, n + 1, Len(buffer)) \in Seq(Nat)
  BY Cut DEF Bytes
<1> QED
  BY <1>1 DEF IInv, Bytes, Blocked

(* One turn of decode's loop. *)
LEMMA DecodeEndsKeeps ==
    ASSUME IInv, DecodeEnds
    PROVE  IInv' /\ (ended = "too long" => FALSE)
<1>1. Len(buffer) \in Nat
  BY LenProperties DEF IInv, Bytes
<1>2. ~HeaderIn
  BY EndType DEF DecodeEnds, HeaderIn
<1>3. wire' = wire /\ ended' # "too long" /\ buffer' = SubSeq(buffer, 0 + 1, Len(buffer))
  BY DEF DecodeEnds, Return
<1>4. Bytes /\ 0 \in 0..Len(buffer)
  BY <1>1 DEF IInv
<1>5. IInv'
  BY <1>3, <1>4, TakeKeeps
<1> QED
  BY <1>2, <1>5 DEF IInv, Blocked

(* A frame at the head of the buffer: a frame that is too long stays there. *)
LEMMA DecodeFrameKeeps ==
    ASSUME IInv, DecodeFrame
    PROVE  IInv' /\ (ended = "too long" => buffer' = buffer /\ out' = out)
<1>1. Len(buffer) \in Nat /\ Len(buffer) > End
  BY LenProperties DEF IInv, Bytes, DecodeFrame, HeaderIn
<1>2. CASE TooShort /\ Return("dropped", OfTooShort(HeadLength))
  <2>1. /\ End \in 0..Len(buffer) /\ wire' = wire /\ ended' # "too long"
        /\ buffer' = SubSeq(buffer, End + 1, Len(buffer))
    BY <1>1, <1>2, EndType DEF Return, OfTooShort
  <2>2. IInv'
    BY <2>1, TakeKeeps DEF IInv
  <2>3. ~TooLong
    BY <1>2 DEF TooLong
  <2> QED
    BY <2>2, <2>3 DEF IInv, Blocked
<1>3. CASE TooLong /\ Return("too long", OfTooLong(HeadLength))
  <2>1. /\ buffer' = SubSeq(buffer, 0 + 1, Len(buffer)) /\ wire' = wire /\ out' = out
        /\ TooLong
    BY <1>3 DEF Return, OfTooLong
  <2>2. SubSeq(buffer, 0 + 1, Len(buffer)) = buffer
    BY SubSeqFull DEF IInv, Bytes
  <2>3. buffer' = buffer
    BY <2>1, <2>2
  <2>4. HeaderIn' /\ TooLong'
    BY <1>1, <2>1, <2>3 DEF HeaderIn, TooLong, TooShort, HeadLength
  <2> QED
    BY <2>1, <2>3, <2>4 DEF IInv, Bytes, Blocked
<1>4. CASE /\ HeadLength \in End..MaxFrameLength
           /\ \/ Len(buffer) < HeadLength /\ Return("partial", 0)
              \/ Len(buffer) >= HeadLength /\ Strip > HeadLength /\ Return("dropped", HeadLength)
              \/ Len(buffer) >= HeadLength /\ Strip <= HeadLength /\ PassOn(HeadLength)
  <2>1. HeadLength \in Nat /\ ~TooLong
    BY <1>4, EndType, DecoderAssumption DEF TooLong
  <2>2. ended # "too long"
    BY <2>1 DEF IInv, Blocked
  <2>3. wire' = wire /\ ended' # "too long"
    BY <1>4, <2>2 DEF Return, PassOn
  <2>4. CASE buffer' = SubSeq(buffer, 0 + 1, Len(buffer))
    <3>1. Bytes /\ 0 \in 0..Len(buffer)
      BY <1>1 DEF IInv
    <3> QED
      BY <2>2, <2>3, <2>4, <3>1, TakeKeeps
  <2>5. CASE Len(buffer) >= HeadLength /\ buffer' = SubSeq(buffer, HeadLength + 1, Len(buffer))
    <3>1. Bytes /\ HeadLength \in 0..Len(buffer)
      BY <1>1, <2>1, <2>5 DEF IInv
    <3> QED
      BY <2>2, <2>3, <2>5, <3>1, TakeKeeps
  <2>6. IInv'
    BY <1>4, <2>4, <2>5 DEF Return, PassOn
  <2> QED
    BY <2>2, <2>6
<1> QED
  BY <1>2, <1>3, <1>4 DEF DecodeFrame

(* Every step keeps IInv, and none gets past a frame that is too long. *)
LEMMA NextKeeps ==
    ASSUME IInv, [Next]_vars
    PROVE  IInv' /\ (ended = "too long" => out' = out /\ Len(buffer') >= Len(buffer))
<1>1. Len(buffer) \in Nat
  BY LenProperties DEF IInv, Bytes
<1>2. CASE \E n \in 1..Len(wire) : Arrive(n)
  BY <1>2, ArriveKeeps
<1>3. CASE FireRead \/ UNCHANGED vars
  <2>1. buffer' = buffer /\ wire' = wire /\ ended' = ended /\ out' = out
    BY <1>3 DEF FireRead, vars
  <2>2. (HeaderIn' <=> HeaderIn) /\ (TooLong' <=> TooLong)
    BY <2>1 DEF HeaderIn, TooLong, TooShort, HeadLength
  <2>3. IInv'
    BY <2>1, <2>2 DEF IInv, Bytes, Blocked
  <2> QED
    BY <1>1, <2>1, <2>3
<1>4. CASE DecodeEnds
  BY <1>4, DecodeEndsKeeps
<1>5. CASE DecodeFrame
  <2>1. IInv' /\ (ended = "too long" => buffer' = buffer /\ out' = out)
    BY <1>5, DecodeFrameKeeps
  <2>2. buffer' = buffer => Len(buffer') >= Len(buffer)
    BY <1>1
  <2> QED
    BY <2>1, <2>2, Zenon
<1> QED
  BY <1>2, <1>3, <1>4, <1>5 DEF Next

-----------------------------------------------------------------------------
(* The first sequence is the end of the second. *)
EndOf(s, t) == Len(s) <= Len(t) /\ \A i \in 1..Len(s) : s[i] = t[Len(t) - Len(s) + i]

(* The end of a sequence is its suffix. *)
LEMMA EndIsSuffix ==
    ASSUME NEW s \in Seq(Nat), NEW t \in Seq(Nat), EndOf(s, t)
    PROVE  IsSuffix(s, t)
<1>1. /\ Len(s) \in Nat /\ Len(t) \in Nat /\ Len(s) <= Len(t)
      /\ \A i \in 1..Len(s) : s[i] = t[Len(t) - Len(s) + i]
  BY LenProperties DEF EndOf
<1>2. ASSUME NEW i \in 1..Len(s)
      PROVE  Reverse(s)[i] = Reverse(t)[i]
  <2>1. Len(s) - i + 1 \in 1..Len(s) /\ i \in 1..Len(t)
    BY <1>1
  <2>2. s[Len(s) - i + 1] = t[Len(t) - Len(s) + (Len(s) - i + 1)]
    BY <1>1, <2>1
  <2>3. Len(t) - Len(s) + (Len(s) - i + 1) = Len(t) - i + 1
    BY <1>1
  <2> QED
    BY <2>1, <2>2, <2>3 DEF Reverse
<1>3. /\ Len(Reverse(s)) = Len(s) /\ Len(Reverse(t)) = Len(t)
      /\ DOMAIN Reverse(s) = 1..Len(s) /\ DOMAIN Reverse(t) = 1..Len(t)
  BY <1>1 DEF Reverse
<1> QED
  BY <1>1, <1>2, <1>3 DEF IsSuffix, IsPrefix

(* How bytes are grouped does not matter. *)
LEMMA Grouped ==
    ASSUME NEW s \in Seq(Nat), NEW t \in Seq(Nat), NEW u \in Seq(Nat)
    PROVE  (s \o t) \o u = s \o (t \o u)
BY ConcatAssociative

(* Taking n bytes from the head leaves the end. *)
LEMMA EndAfterTake ==
    ASSUME NEW bytes \in Seq(Nat), NEW more \in Seq(Nat), NEW n \in 0..Len(bytes),
           NEW t \in Seq(Nat), EndOf(bytes \o more, t)
    PROVE  EndOf(SubSeq(bytes, n + 1, Len(bytes)) \o more, t)
<1> DEFINE rest == SubSeq(bytes, n + 1, Len(bytes))
<1>1. Len(bytes) \in Nat /\ Len(more) \in Nat /\ Len(t) \in Nat
  BY LenProperties
<1>2. /\ rest \in Seq(Nat) /\ Len(rest) = Len(bytes) - n
      /\ \A i \in 1..Len(bytes) - n : rest[i] = bytes[n + i]
  <2>1. \A i \in n + 1..Len(bytes) : bytes[i] \in Nat
    BY <1>1, ElementOfSeq
  <2> QED
    BY <1>1, <2>1, SubSeqProperties
<1> HIDE DEF rest
<1>3. /\ Len(bytes \o more) = Len(bytes) + Len(more)
      /\ \A i \in 1..Len(bytes) + Len(more) :
            (bytes \o more)[i] = IF i <= Len(bytes) THEN bytes[i] ELSE more[i - Len(bytes)]
  BY ConcatProperties
<1>4. /\ Len(rest \o more) = Len(bytes) - n + Len(more)
      /\ \A i \in 1..Len(bytes) - n + Len(more) :
            (rest \o more)[i] = IF i <= Len(bytes) - n THEN rest[i] ELSE more[i - (Len(bytes) - n)]
  <2>1. rest \in Seq(Nat) /\ more \in Seq(Nat)
    BY <1>2
  <2>2. /\ Len(rest \o more) = Len(rest) + Len(more)
        /\ \A i \in 1..Len(rest) + Len(more) :
              (rest \o more)[i] = IF i <= Len(rest) THEN rest[i] ELSE more[i - Len(rest)]
    BY <2>1, ConcatProperties
  <2> QED
    BY <1>2, <2>2
<1>5. ASSUME NEW i \in 1..Len(bytes) - n + Len(more)
      PROVE  (rest \o more)[i] = (bytes \o more)[n + i]
  <2>1. n + i \in 1..Len(bytes) + Len(more)
    BY <1>1
  <2>2. CASE i <= Len(bytes) - n
    BY <1>1, <1>2, <1>3, <1>4, <2>1, <2>2
  <2>3. CASE ~(i <= Len(bytes) - n)
    <3>1. ~(n + i <= Len(bytes)) /\ n + i - Len(bytes) = i - (Len(bytes) - n)
      BY <1>1, <2>3
    <3> QED
      BY <1>3, <1>4, <2>1, <2>3, <3>1
  <2> QED
    BY <2>2, <2>3
<1>6. ASSUME NEW i \in 1..Len(bytes) - n + Len(more)
      PROVE  (bytes \o more)[n + i] = t[Len(t) - (Len(bytes) - n + Len(more)) + i]
  <2>1. n + i \in 1..Len(bytes \o more)
    BY <1>1, <1>3
  <2>2. (bytes \o more)[n + i] = t[Len(t) - Len(bytes \o more) + (n + i)]
    BY <2>1 DEF EndOf
  <2>3. Len(t) - Len(bytes \o more) + (n + i) = Len(t) - (Len(bytes) - n + Len(more)) + i
    BY <1>1, <1>3
  <2> QED
    BY <2>2, <2>3
<1>7. Len(bytes) - n + Len(more) <= Len(t)
  BY <1>1, <1>3 DEF EndOf
<1> QED
  BY <1>4, <1>5, <1>6, <1>7 DEF EndOf, rest

(* What was put into the buffer and what is under way is an end of the     *)
(* stream, and each posted fire_read is for a byte at least.               *)
InPlace ==
    /\ sent \in Seq(Claims) /\ Stream(sent) \in Seq(Nat)
    /\ posted \in Nat /\ posted + Len(wire) <= Len(Stream(sent))
    /\ decoding \in BOOLEAN
    /\ ended \in {"empty", "header", "partial", "too long", "dropped"}
    /\ EndOf(buffer \o wire, Stream(sent))

(* It is so at first. *)
LEMMA InitInPlace == Init => InPlace
<1> SUFFICES ASSUME Init
             PROVE  InPlace
  OBVIOUS
<1>1. PICK n \in 1..MaxFrames : sent \in [1..n -> Claims]
  BY DEF Init
<1>2. posted = 0 /\ decoding = FALSE /\ ended = "empty"
  BY DEF Init
<1>3. sent \in Seq(Claims) /\ Stream(sent) \in Seq(Nat) /\ wire = Stream(sent)
  <2>1. n \in Nat
    OBVIOUS
  <2>2. sent \in Seq(Claims)
    BY <1>1, <2>1, SeqIs
  <2> QED
    BY <2>2, StreamIsBytes DEF Init
<1>4. buffer \o wire = wire
  BY <1>3, ConcatEmptySeq DEF Init
<1>5. Len(wire) \in Nat
  BY <1>3, LenProperties
<1>6. EndOf(wire, Stream(sent))
  BY <1>3, <1>5 DEF EndOf
<1> QED
  <2>1. posted \in Nat /\ posted + Len(wire) <= Len(Stream(sent))
    BY <1>2, <1>3, <1>5
  <2> QED
    BY <1>2, <1>3, <1>4, <1>6, <2>1, Zenon DEF InPlace

(* An arrival moves bytes from the wire to the buffer. *)
LEMMA ArriveInPlace ==
    ASSUME Bytes, InPlace, NEW n \in 1..Len(wire), Arrive(n)
    PROVE  InPlace'
<1> DEFINE more == SubSeq(wire, 1, n)
           rest == SubSeq(wire, n + 1, Len(wire))
<1>1. Len(wire) \in Nat /\ n \in 0..Len(wire)
  BY LenProperties DEF Bytes
<1>2. more \in Seq(Nat) /\ rest \in Seq(Nat)
  BY <1>1, Cut DEF Bytes
<1>3. more \o rest = wire
  <2>1. 1 \in 1..Len(wire) + 1 /\ n \in 1 - 1..Len(wire) /\ Len(wire) \in n..Len(wire)
    BY <1>1
  <2>2. more \o rest = SubSeq(wire, 1, Len(wire))
    BY <2>1, ConcatAdjacentSubSeq DEF Bytes
  <2> QED
    BY <2>2, SubSeqFull DEF Bytes
<1>4. Len(rest) = Len(wire) - n
  <2>1. \A i \in n + 1..Len(wire) : wire[i] \in Nat
    BY <1>1, ElementOfSeq DEF Bytes
  <2> QED
    BY <1>1, <2>1, SubSeqProperties
<1> HIDE DEF more, rest
<1>5. (buffer \o more) \o rest = buffer \o wire
  <2>1. (buffer \o more) \o rest = buffer \o (more \o rest)
    <3>1. buffer \in Seq(Nat)
      BY DEF Bytes
    <3> QED
      BY <1>2, <3>1, Grouped
  <2> QED
    BY <1>3, <2>1
<1>6. buffer' = buffer \o more /\ wire' = rest
  BY DEF Arrive, Written, more, rest
<1>7. Len(Stream(sent)) \in Nat
  BY LenProperties DEF InPlace
<1>8. posted' \in Nat /\ posted' + Len(wire') <= Len(Stream(sent))
  <2>1. posted \in Nat /\ posted + Len(wire) <= Len(Stream(sent)) /\ posted' = posted + 1
    BY DEF Arrive, InPlace
  <2>2. Len(wire') = Len(wire) - n
    BY <1>4, <1>6
  <2> QED
    BY <1>1, <1>7, <2>1, <2>2
<1>9. buffer' \o wire' = buffer \o wire
  BY <1>5, <1>6
<1>10. sent' = sent /\ decoding' = decoding /\ ended' = ended /\ Stream(sent)' = Stream(sent)
  BY DEF Arrive, Stream
<1> QED
  BY <1>8, <1>9, <1>10 DEF InPlace, EndOf

(* What decode retrieves it takes from the head. *)
LEMMA TakeInPlace ==
    ASSUME Bytes, InPlace, NEW n \in 0..Len(buffer), UNCHANGED <<sent, wire, posted>>,
           buffer' = SubSeq(buffer, n + 1, Len(buffer)), decoding' \in BOOLEAN,
           ended' \in {"empty", "header", "partial", "too long", "dropped"}
    PROVE  InPlace'
<1>1. EndOf(SubSeq(buffer, n + 1, Len(buffer)) \o wire, Stream(sent))
  BY EndAfterTake DEF Bytes, InPlace
<1>2. Stream(sent)' = Stream(sent)
  BY DEF Stream
<1> QED
  BY <1>1, <1>2 DEF InPlace, EndOf

(* Every step leaves the stream in its order. *)
LEMMA NextInPlace ==
    ASSUME IInv, InPlace, [Next]_vars
    PROVE  InPlace'
<1>1. Len(buffer) \in Nat /\ Bytes /\ 0 \in 0..Len(buffer)
  BY LenProperties DEF IInv, Bytes
<1>2. CASE \E n \in 1..Len(wire) : Arrive(n)
  BY <1>1, <1>2, ArriveInPlace
<1>3. CASE FireRead
  <2>1. /\ posted > 0 /\ posted' = posted - 1 /\ decoding' = TRUE
        /\ sent' = sent /\ wire' = wire /\ buffer' = buffer /\ ended' = ended
    BY <1>3 DEF FireRead
  <2>2. Stream(sent)' = Stream(sent) /\ EndOf(buffer \o wire, Stream(sent))'
    BY <2>1 DEF InPlace, Stream, EndOf
  <2>3. posted' \in Nat /\ posted' + Len(wire) <= Len(Stream(sent))
    <3>1. Len(wire) \in Nat /\ Len(Stream(sent)) \in Nat
      BY LenProperties DEF IInv, Bytes, InPlace
    <3>2. posted \in Nat /\ posted + Len(wire) <= Len(Stream(sent))
      BY DEF InPlace
    <3> QED
      BY <2>1, <3>1, <3>2
  <2> QED
    BY <2>1, <2>2, <2>3 DEF InPlace
<1>4. CASE UNCHANGED vars
  BY <1>4 DEF InPlace, EndOf, Stream, vars
<1>5. CASE DecodeEnds
  <2>1. /\ UNCHANGED <<sent, wire, posted>> /\ buffer' = SubSeq(buffer, 0 + 1, Len(buffer))
        /\ decoding' \in BOOLEAN /\ ended' \in {"empty", "header", "partial", "too long", "dropped"}
    BY <1>5 DEF DecodeEnds, Return
  <2> QED
    BY <1>1, <2>1, TakeInPlace
<1>6. CASE DecodeFrame
  <2>1. /\ UNCHANGED <<sent, wire, posted>> /\ decoding' \in BOOLEAN
        /\ ended' \in {"empty", "header", "partial", "too long", "dropped"}
    BY <1>6 DEF DecodeFrame, Return, PassOn, InPlace
  <2>2. Len(buffer) > End
    BY <1>6 DEF DecodeFrame, HeaderIn
  <2>3. \/ buffer' = SubSeq(buffer, End + 1, Len(buffer))
        \/ buffer' = SubSeq(buffer, 0 + 1, Len(buffer))
        \/ /\ HeadLength \in End..MaxFrameLength /\ Len(buffer) >= HeadLength
           /\ buffer' = SubSeq(buffer, HeadLength + 1, Len(buffer))
    BY <1>6 DEF DecodeFrame, Return, PassOn, OfTooShort, OfTooLong
  <2>4. End \in 0..Len(buffer)
    BY <1>1, <2>2, EndType
  <2>5. HeadLength \in End..MaxFrameLength /\ Len(buffer) >= HeadLength
           => HeadLength \in 0..Len(buffer)
    BY <1>1, EndType, DecoderAssumption
  <2> QED
    BY <1>1, <2>1, <2>3, <2>4, <2>5, TakeInPlace
<1> QED
  BY <1>2, <1>3, <1>4, <1>5, <1>6 DEF Next

-----------------------------------------------------------------------------
(* The frames that are passed on, by their number among those.             *)
Rank(f) == Cardinality({g \in Taken : g <= f})

(* They are finitely many. *)
LEMMA TakenAre ==
    ASSUME sent \in Seq(Claims)
    PROVE  /\ Taken \subseteq 1..Len(sent) /\ Taken \subseteq Nat /\ IsFiniteSet(Taken)
           /\ Cardinality(Taken) \in Nat
           /\ \A f \in Nat : IsFiniteSet({g \in Taken : g <= f}) /\ Rank(f) \in Nat
<1>1. Len(sent) \in Nat /\ DOMAIN sent = 1..Len(sent)
  BY LenProperties
<1>2. Taken \subseteq 1..Len(sent)
  BY <1>1 DEF Taken
<1>3. IsFiniteSet(1..Len(sent))
  BY <1>1, FS_Interval
<1>4. IsFiniteSet(Taken)
  BY <1>2, <1>3, FS_Subset
<1>5. \A f \in Nat : IsFiniteSet({g \in Taken : g <= f})
  BY <1>4, FS_Subset
<1>6. Cardinality(Taken) \in Nat /\ \A f \in Nat : Rank(f) \in Nat
  BY <1>4, <1>5, FS_CardinalityType DEF Rank
<1>7. Taken \subseteq Nat
  BY <1>1, <1>2
<1> QED
  BY <1>2, <1>4, <1>5, <1>6, <1>7

(* The next frame counts if it is passed on. *)
LEMMA RankGrows ==
    ASSUME sent \in Seq(Claims), NEW n \in Nat
    PROVE  Rank(n + 1) = IF n + 1 \in Taken THEN Rank(n) + 1 ELSE Rank(n)
<1> DEFINE U == {g \in Taken : g <= n}
           V == {g \in Taken : g <= n + 1}
<1>1. IsFiniteSet(U)
  BY TakenAre
<1>2. n + 1 \notin U
  OBVIOUS
<1>3. V = IF n + 1 \in Taken THEN U \cup {n + 1} ELSE U
  BY TakenAre
<1>4. Cardinality(U \cup {n + 1}) = Cardinality(U) + 1
  <2> HIDE DEF U
  <2> QED
    BY <1>1, <1>2, FS_AddElement
<1>5. Rank(n) = Cardinality(U) /\ Rank(n + 1) = Cardinality(V)
  BY DEF Rank
<1> HIDE DEF U, V
<1> QED
  BY <1>3, <1>4, <1>5

(* None counts at first, and all at last. *)
LEMMA RankBegins ==
    ASSUME sent \in Seq(Claims)
    PROVE  /\ Rank(0) = 0
           /\ \A n \in Nat : (\A f \in Taken : f <= n) => Rank(n) = Cardinality(Taken)
<1>1. {g \in Taken : g <= 0} = {}
  BY TakenAre
<1>2. Rank(0) = 0
  BY <1>1, FS_EmptySet DEF Rank
<1>3. ASSUME NEW n \in Nat, \A f \in Taken : f <= n
      PROVE  Rank(n) = Cardinality(Taken)
  <2>1. {g \in Taken : g <= n} = Taken
    BY <1>3
  <2> QED
    BY <2>1 DEF Rank
<1> QED
  BY <1>2, <1>3

(* A frame that is passed on counts more than those before it. *)
LEMMA RankOrders ==
    ASSUME sent \in Seq(Claims), NEW f \in Nat, NEW g \in Taken, f < g
    PROVE  Rank(f) < Rank(g)
<1> DEFINE U == {h \in Taken : h <= f}
           V == {h \in Taken : h <= g}
<1>1. g \in Nat /\ Taken \subseteq Nat /\ IsFiniteSet(V)
  BY TakenAre
<1>2. U \subseteq V /\ g \in V /\ g \notin U
  <2>1. \A h \in Taken : h <= f => h <= g
    BY <1>1
  <2>2. g <= g /\ ~(g <= f)
    BY <1>1
  <2> QED
    BY <2>1, <2>2
<1>3. Rank(f) = Cardinality(U) /\ Rank(g) = Cardinality(V) /\ Rank(f) \in Nat /\ Rank(g) \in Nat
  BY <1>1, TakenAre DEF Rank
<1> HIDE DEF U, V
<1>4. /\ Cardinality(U) <= Cardinality(V)
      /\ Cardinality(V) = Cardinality(U) => V = U
  BY <1>1, <1>2, FS_Subset
<1>5. Cardinality(U) # Cardinality(V)
  BY <1>2, <1>4
<1> QED
  BY <1>3, <1>4, <1>5

(* As many are expected as are passed on. *)
LEMMA ExpectedLength ==
    ASSUME sent \in Seq(Claims)
    PROVE  /\ Len(Expected) = Cardinality(Taken) /\ Cardinality(Taken) \in Nat
           /\ DOMAIN Expected = 1..Cardinality(Taken)
<1>1. PICK c \in Nat : c = Cardinality(Taken)
  BY TakenAre
<1> DEFINE e(i) == Passed(CHOOSE f \in Taken : Cardinality({g \in Taken : g <= f}) = i)
<1>2. Expected = [i \in 1..c |-> e(i)]
  BY <1>1 DEF Expected
<1> HIDE DEF e
<1> QED
  BY <1>1, <1>2

(* Each is expected at its number. *)
LEMMA ExpectedAt ==
    ASSUME sent \in Seq(Claims), NEW f \in Taken
    PROVE  /\ Rank(f) \in 1..Cardinality(Taken)
           /\ Expected[Rank(f)] = Passed(f)
<1>1. f \in Nat /\ Taken \subseteq Nat /\ IsFiniteSet(Taken) /\ f \in 1..Len(sent)
  BY TakenAre
<1>2. Rank(f) \in Nat /\ Cardinality(Taken) \in Nat
  BY <1>1, TakenAre
<1>3. Rank(f) <= Cardinality(Taken)
  <2>1. {g \in Taken : g <= f} \in SUBSET Taken
    OBVIOUS
  <2> QED
    BY <1>1, <2>1, FS_Subset DEF Rank
<1>4. Rank(f) > 0
  <2>1. 0 \in Nat /\ 0 < f
    BY <1>1
  <2>2. Rank(0) < Rank(f)
    BY <2>1, RankOrders
  <2> QED
    BY <2>2, RankBegins
<1>5. Rank(f) \in 1..Cardinality(Taken)
  BY <1>2, <1>3, <1>4
<1>6. ASSUME NEW h \in Taken, Rank(h) = Rank(f) PROVE h = f
  <2>1. h \in Nat /\ f \in Nat
    BY <1>1
  <2>2. h < f => Rank(h) < Rank(f)
    BY <2>1, RankOrders
  <2>3. f < h => Rank(f) < Rank(h)
    BY <2>1, RankOrders
  <2> QED
    BY <1>2, <1>6, <2>1, <2>2, <2>3
<1>7. (CHOOSE h \in Taken : Rank(h) = Rank(f)) = f
  BY <1>6
<1>8. Expected[Rank(f)] = Passed(CHOOSE h \in Taken : Rank(h) = Rank(f))
  BY <1>5, Zenon DEF Expected, Rank
<1> QED
  BY <1>5, <1>7, <1>8

-----------------------------------------------------------------------------
(* decode stands behind the first k frames: what is left is the rest of    *)
(* the stream, and what was passed on is what those frames have to show.   *)
(* Where no frame but one below its own header is too long, none is taken. *)
CursorAt(k) ==
    /\ Len(buffer) + Len(wire) + Len(StreamOf(sent, k)) = Len(Stream(sent))
    /\ \A f \in NotTaken : f > k \/ FrameLength(sent[f]) < End
    /\ out \in Seq(Seq(Nat)) /\ Len(out) = Rank(k)
    /\ \A i \in 1..Rank(k) : out[i] = Expected[i]

Cursor == \E k \in 0..Len(sent) : CursorAt(k)

(* Why the last decode stopped still holds when nothing arrived since. *)
Idle ==
    posted = 0 /\ ~decoding =>
        /\ ended = "empty" => buffer = <<>>
        /\ ended = "header" => ~HeaderIn
        /\ ended = "partial" => HeaderIn /\ ~TooShort /\ Len(buffer) < HeadLength

Held == IInv /\ InPlace

(* The lengths are numbers. *)
LEMMA Lengths ==
    ASSUME Held
    PROVE  /\ Len(buffer) \in Nat /\ Len(wire) \in Nat /\ Len(sent) \in Nat
           /\ Len(Stream(sent)) \in Nat /\ sent \in Seq(Claims)
           /\ Len(buffer \o wire) = Len(buffer) + Len(wire)
           /\ \A i \in 1..Len(buffer) : (buffer \o wire)[i] = buffer[i]
<1>1. buffer \in Seq(Nat) /\ wire \in Seq(Nat) /\ sent \in Seq(Claims) /\ Stream(sent) \in Seq(Nat)
  BY DEF Held, IInv, Bytes, InPlace
<1>2. /\ Len(buffer \o wire) = Len(buffer) + Len(wire)
      /\ \A i \in 1..Len(buffer) + Len(wire) :
            (buffer \o wire)[i] = IF i <= Len(buffer) THEN buffer[i] ELSE wire[i - Len(buffer)]
  BY <1>1, ConcatProperties
<1>3. Len(buffer) \in Nat /\ Len(wire) \in Nat /\ Len(sent) \in Nat /\ Len(Stream(sent)) \in Nat
  BY <1>1, LenProperties
<1> QED
  BY <1>1, <1>2, <1>3

(* As long as a frame is left, it is whole in the buffer and on the wire,  *)
(* and the buffer begins with it.                                          *)
LEMMA FrameLeft ==
    ASSUME Held, NEW k \in 0..Len(sent), CursorAt(k), k # Len(sent)
    PROVE  /\ k \in Nat /\ k + 1 \in 1..Len(sent) /\ sent[k + 1] \in Claims
           /\ WireLength(sent[k + 1]) <= Len(buffer) + Len(wire)
           /\ \A i \in 1..WireLength(sent[k + 1]) :
                 i <= Len(buffer) => buffer[i] = Frame(k + 1, sent[k + 1])[i]
<1>1. PICK l \in Nat, m \in Nat, n \in Nat, t \in Nat :
         l = Len(buffer) /\ m = Len(wire) /\ n = Len(sent) /\ t = Len(Stream(sent))
  BY Lengths
<1>2. k \in Nat /\ sent \in Seq(Claims)
  BY Lengths
<1>3. k # n
  BY <1>1
<1>4. k + 1 \in 1..Len(sent) /\ k + 1 \in 0..Len(sent) /\ n \in k + 1..Len(sent)
  BY <1>1, <1>2, <1>3
<1>5. sent[k + 1] \in Claims
  BY <1>2, <1>4, ClaimOf
<1>6. PICK w \in Nat, s \in Nat :
         /\ w = WireLength(sent[k + 1]) /\ s = Len(StreamOf(sent, k))
         /\ Len(StreamOf(sent, k + 1)) = s + w
  BY <1>2, <1>4, <1>5, StreamLength, WireLengthIs
<1>7. l + m + s = t
  BY <1>1, <1>6 DEF CursorAt
<1>8. s + w <= t
  <2>1. Len(StreamOf(sent, k + 1)) <= Len(StreamOf(sent, Len(sent)))
    BY <1>1, <1>2, <1>4, StreamKeeps
  <2> QED
    BY <1>1, <1>2, <1>6, <2>1, StreamBegins
<1>9. ASSUME NEW i \in 1..w, i <= l PROVE buffer[i] = Frame(k + 1, sent[k + 1])[i]
  <2>1. i \in 1..Len(buffer) /\ i \in 1..l + m
    BY <1>1, <1>9
  <2>2. (buffer \o wire)[i] = buffer[i] /\ Len(buffer \o wire) = l + m
    BY <1>1, <2>1, Lengths
  <2>3. (buffer \o wire)[i] = Stream(sent)[t - (l + m) + i]
    BY <1>1, <2>1, <2>2 DEF Held, InPlace, EndOf
  <2>4. t - (l + m) + i = s + i
    BY <1>7
  <2>5. Stream(sent)[s + i] = Frame(k + 1, sent[k + 1])[i]
    BY <1>2, <1>4, <1>6, StreamHolds
  <2> QED
    BY <2>2, <2>3, <2>4, <2>5
<1>10. w <= l + m
  BY <1>7, <1>8
<1> QED
  BY <1>1, <1>2, <1>4, <1>5, <1>6, <1>9, <1>10

(* One is left as long as bytes are. *)
LEMMA NextFrame ==
    ASSUME Held, NEW k \in 0..Len(sent), CursorAt(k), Len(buffer) + Len(wire) > 0
    PROVE  /\ k \in Nat /\ k + 1 \in 1..Len(sent) /\ sent[k + 1] \in Claims
           /\ WireLength(sent[k + 1]) <= Len(buffer) + Len(wire)
           /\ \A i \in 1..WireLength(sent[k + 1]) :
                 i <= Len(buffer) => buffer[i] = Frame(k + 1, sent[k + 1])[i]
<1>1. PICK l \in Nat, m \in Nat, t \in Nat :
         l = Len(buffer) /\ m = Len(wire) /\ t = Len(Stream(sent))
  BY Lengths
<1>2. k = Len(sent) => Len(StreamOf(sent, k)) = t
  BY <1>1, Lengths, StreamBegins
<1>3. l + m + Len(StreamOf(sent, k)) = t
  BY <1>1 DEF CursorAt
<1>4. k # Len(sent)
  BY <1>1, <1>2, <1>3
<1> QED
  BY <1>4, FrameLeft

(* The length that decode reads is that of the next frame. *)
LEMMA HeadIs ==
    ASSUME Held, NEW k \in 0..Len(sent), CursorAt(k), HeaderIn
    PROVE  HeadLength = FrameLength(sent[k + 1])
<1>1. PICK l \in Nat, n \in Nat, o \in Nat, e \in Nat :
         /\ l = Len(buffer) /\ n = FieldLength /\ o = Offset /\ e = End
         /\ e = o + n /\ n # 0 /\ l > e
  <2>1. /\ Len(buffer) \in Nat /\ FieldLength \in Nat \ {0} /\ Offset \in Nat
        /\ End = Offset + FieldLength /\ Len(buffer) > End /\ End \in Nat
    BY Lengths, EndType DEF End, HeaderIn
  <2> QED
    BY <2>1
<1>2. Len(buffer) + Len(wire) > 0
  BY <1>1, Lengths
<1>3. /\ k \in Nat /\ k + 1 \in Nat /\ sent[k + 1] \in Claims
      /\ \A i \in 1..WireLength(sent[k + 1]) :
            i <= Len(buffer) => buffer[i] = Frame(k + 1, sent[k + 1])[i]
  BY <1>2, NextFrame
<1>4. PICK v \in Claims, w \in Nat : v = sent[k + 1] /\ w = WireLength(v) /\ w >= e
  BY <1>1, <1>3, WireLengthIs
<1>5. FieldBytes(v) \in Seq(Nat) /\ Len(FieldBytes(v)) = n /\ FieldValue(FieldBytes(v)) = v
  BY <1>1, FieldHolds
<1>6. \A i \in 1..n : Frame(k + 1, v)[o + i] = FieldBytes(v)[i]
  BY <1>1, <1>3, FrameIs
<1> DEFINE field == SubSeq(buffer, o + 1, e)
<1>7. /\ field \in Seq(Nat) /\ Len(field) = n
      /\ \A i \in 1..n : field[i] = buffer[o + i]
  <2>1. \A i \in 1..Len(buffer) : buffer[i] \in Nat
    BY DEF Held, IInv, Bytes
  <2>2. \A i \in o + 1..e : buffer[i] \in Nat
    BY <1>1, <2>1
  <2>3. /\ SubSeq(buffer, o + 1, e) \in Seq(Nat)
        /\ Len(SubSeq(buffer, o + 1, e)) = IF o + 1 <= e THEN e - (o + 1) + 1 ELSE 0
        /\ \A i \in 1..e - (o + 1) + 1 : SubSeq(buffer, o + 1, e)[i] = buffer[(o + 1) + i - 1]
    BY <2>2, SubSeqProperties
  <2>4. e - (o + 1) + 1 = n /\ o + 1 <= e /\ \A i \in 1..n : (o + 1) + i - 1 = o + i
    BY <1>1
  <2> QED
    BY <2>3, <2>4
<1> HIDE DEF field
<1>8. ASSUME NEW i \in 1..n PROVE field[i] = FieldBytes(v)[i]
  <2>1. o + i \in 1..w /\ o + i <= l
    BY <1>1, <1>4
  <2>2. buffer[o + i] = Frame(k + 1, v)[o + i]
    BY <1>1, <1>3, <1>4, <2>1
  <2> QED
    BY <1>6, <1>7, <2>2
<1>9. field = FieldBytes(v)
  BY <1>5, <1>7, <1>8, SeqEqual
<1>10. HeadLength = FrameLength(FieldValue(field))
  BY <1>1 DEF HeadLength, field
<1> QED
  BY <1>4, <1>5, <1>9, <1>10

-----------------------------------------------------------------------------
(* No step changes what was sent, nor what should become of it.            *)
LEMMA SameSent ==
    ASSUME sent' = sent, NEW k
    PROVE  /\ Taken' = Taken /\ NotTaken' = NotTaken /\ Expected' = Expected
           /\ Rank(k)' = Rank(k) /\ StreamOf(sent, k)' = StreamOf(sent, k)
           /\ Stream(sent)' = Stream(sent)
<1>1. Taken' = Taken /\ NotTaken' = NotTaken
  BY DEF Taken, NotTaken
<1>2. Expected' = Expected
  BY <1>1 DEF Expected, Passed
<1>3. Rank(k)' = Rank(k)
  BY <1>1 DEF Rank
<1>4. StreamOf(sent, k)' = StreamOf(sent, k) /\ Stream(sent)' = Stream(sent)
  BY DEF StreamOf, Stream
<1> QED
  BY <1>1, <1>2, <1>3, <1>4

(* A step that takes nothing out of the buffer leaves decode where it is. *)
LEMMA StandsStill ==
    ASSUME Cursor, sent' = sent, out' = out,
           Len(buffer') + Len(wire') = Len(buffer) + Len(wire)
    PROVE  Cursor'
<1>1. PICK k \in 0..Len(sent) : CursorAt(k)
  BY DEF Cursor
<1>2. /\ Taken' = Taken /\ NotTaken' = NotTaken /\ Expected' = Expected
      /\ Rank(k)' = Rank(k) /\ StreamOf(sent, k)' = StreamOf(sent, k)
      /\ Stream(sent)' = Stream(sent)
  BY SameSent
<1>3. /\ Len(buffer') + Len(wire') + Len(StreamOf(sent, k)') = Len(Stream(sent)')
      /\ \A f \in NotTaken' : f > k \/ FrameLength(sent'[f]) < End
      /\ out' \in Seq(Seq(Nat)) /\ Len(out') = Rank(k)'
      /\ \A i \in 1..Rank(k)' : out'[i] = Expected'[i]
  BY <1>1, <1>2, Zenon DEF CursorAt
<1>4. CursorAt(k)'
  BY <1>3, Zenon DEF CursorAt, FrameLength
<1> QED
  BY <1>4 DEF Cursor

(* What is passed on of a frame is bytes. *)
LEMMA PassedIs ==
    ASSUME sent \in Seq(Claims), NEW f \in Taken
    PROVE  Passed(f) \in Seq(Nat)
<1>1. f \in 1..Len(sent)
  BY TakenAre
<1>2. f \in Nat /\ sent[f] \in Claims
  BY <1>1, ClaimOf
<1>3. FrameLength(sent[f]) >= End /\ FrameLength(sent[f]) >= Strip
  BY DEF Taken
<1>4. PICK l \in Nat, s \in Nat, d \in Seq(Nat) :
         /\ l = FrameLength(sent[f]) /\ s = Strip /\ d = Frame(f, sent[f])
         /\ l = Len(d) /\ s <= l
  <2>1. Strip \in Nat
    BY DecoderAssumption
  <2> QED
    BY <1>2, <1>3, <2>1, WireLengthIs, FrameIs
<1>5. SubSeq(d, s + 1, l) \in Seq(Nat)
  <2>1. \A i \in s + 1..l : d[i] \in Nat
    BY <1>4
  <2> QED
    BY <2>1, SubSeqProperties
<1> QED
  BY <1>4, <1>5 DEF Passed

(* What is left when n bytes are taken from the head. *)
LEMMA TakenOff ==
    ASSUME NEW bytes \in Seq(Nat), NEW n \in 0..Len(bytes)
    PROVE  Len(SubSeq(bytes, n + 1, Len(bytes))) = Len(bytes) - n
<1>1. PICK l \in Nat : l = Len(bytes) /\ n \in Nat /\ n <= l
  BY LenProperties
<1>2. ASSUME NEW i \in n + 1..l PROVE bytes[i] \in Nat
  <2>1. i \in 1..Len(bytes)
    BY <1>1
  <2> QED
    BY <2>1, ElementOfSeq
<1>3. Len(SubSeq(bytes, n + 1, l)) = IF n + 1 <= l THEN l - (n + 1) + 1 ELSE 0
  BY <1>2, <1>1, SubSeqProperties
<1>4. n + 1 <= l => l - (n + 1) + 1 = l - n
  BY <1>1
<1>5. ~(n + 1 <= l) => 0 = l - n
  BY <1>1
<1> QED
  BY <1>1, <1>3, <1>4, <1>5, Zenon

(* Taking the next frame out of the buffer, passed on or not.              *)
LEMMA MovesOn ==
    ASSUME Held, NEW k \in 0..Len(sent), CursorAt(k), Len(buffer) + Len(wire) > 0,
           WireLength(sent[k + 1]) <= Len(buffer), sent' = sent, wire' = wire,
           buffer' = SubSeq(buffer, WireLength(sent[k + 1]) + 1, Len(buffer)),
           IF k + 1 \in Taken THEN out' = Append(out, Passed(k + 1)) ELSE out' = out,
           k + 1 \in NotTaken => FrameLength(sent[k + 1]) < End
    PROVE  Cursor'
<1>1. /\ k \in Nat /\ k + 1 \in 1..Len(sent) /\ sent[k + 1] \in Claims
      /\ Len(sent) \in Nat /\ sent \in Seq(Claims) /\ k + 1 \in 0..Len(sent)
  BY NextFrame, Lengths
<1>2. /\ Taken' = Taken /\ NotTaken' = NotTaken /\ Expected' = Expected
      /\ Rank(k + 1)' = Rank(k + 1) /\ StreamOf(sent, k + 1)' = StreamOf(sent, k + 1)
      /\ Stream(sent)' = Stream(sent)
  BY SameSent
<1>3. PICK w \in Nat, l \in Nat, m \in Nat, s \in Nat, t \in Nat :
         /\ w = WireLength(sent[k + 1]) /\ l = Len(buffer) /\ m = Len(wire)
         /\ s = Len(StreamOf(sent, k)) /\ t = Len(Stream(sent)) /\ w <= l
         /\ Len(StreamOf(sent, k + 1)) = s + w
  <2>1. /\ Len(StreamOf(sent, k)) \in Nat
        /\ Len(StreamOf(sent, k + 1)) = Len(StreamOf(sent, k)) + WireLength(sent[k + 1])
    BY <1>1, StreamLength
  <2>2. WireLength(sent[k + 1]) \in Nat
    BY <1>1, WireLengthIs
  <2>3. Len(buffer) \in Nat /\ Len(wire) \in Nat /\ Len(Stream(sent)) \in Nat
    BY Lengths
  <2> QED
    BY <2>1, <2>2, <2>3, Zenon
<1>4. Len(buffer') = l - w
  <2>1. buffer' = SubSeq(buffer, w + 1, Len(buffer)) /\ w \in 0..Len(buffer)
    BY <1>3
  <2> QED
    BY <1>3, <2>1, TakenOff DEF Held, IInv, Bytes
<1>5. Len(buffer') + Len(wire') + Len(StreamOf(sent, k + 1)') = Len(Stream(sent)')
  <2>1. l + m + s = t
    BY <1>3, Zenon DEF CursorAt
  <2>2. (l - w) + m + (s + w) = t
    BY <2>1
  <2> QED
    BY <1>2, <1>3, <1>4, <2>2, Zenon
<1>6. \A f \in NotTaken' : f > k + 1 \/ FrameLength(sent[f]) < End
  <2>1. \A f \in NotTaken : f \in Nat
    BY <1>1 DEF NotTaken
  <2>2. \A f \in NotTaken : f > k \/ FrameLength(sent[f]) < End
    BY DEF CursorAt
  <2>3. ASSUME NEW f \in NotTaken, f > k PROVE f > k + 1 \/ FrameLength(sent[f]) < End
    <3>1. f = k + 1 \/ f > k + 1
      BY <1>1, <2>1, <2>3
    <3> QED
      BY <3>1
  <2> QED
    BY <1>2, <2>2, <2>3
<1>7. PICK o \in Seq(Seq(Nat)), r \in Nat :
         /\ o = out /\ r = Rank(k) /\ Len(o) = r
         /\ \A i \in 1..r : o[i] = Expected[i]
         /\ Rank(k + 1) = IF k + 1 \in Taken THEN r + 1 ELSE r
  <2>1. Rank(k) \in Nat /\ Rank(k + 1) = IF k + 1 \in Taken THEN Rank(k) + 1 ELSE Rank(k)
    BY <1>1, TakenAre, RankGrows
  <2> QED
    BY <2>1 DEF CursorAt
<1>8. /\ out' \in Seq(Seq(Nat)) /\ Len(out') = Rank(k + 1)
      /\ \A i \in 1..Rank(k + 1) : out'[i] = Expected[i]
  <2>1. CASE k + 1 \notin Taken
    BY <1>7, <2>1
  <2>2. CASE k + 1 \in Taken
    <3>1. PICK e \in Seq(Nat) : e = Passed(k + 1)
      BY <1>1, <2>2, PassedIs
    <3>2. out' = Append(o, e)
      BY <1>7, <2>2, <3>1
    <3>3. /\ Append(o, e) \in Seq(Seq(Nat)) /\ Len(Append(o, e)) = r + 1
          /\ \A i \in 1..r : Append(o, e)[i] = o[i]
          /\ Append(o, e)[r + 1] = e
      BY <1>7, AppendProperties
    <3>4. Rank(k + 1) = r + 1 /\ Expected[r + 1] = e
      BY <1>1, <1>7, <2>2, <3>1, ExpectedAt
    <3>5. ASSUME NEW i \in 1..r + 1 PROVE Append(o, e)[i] = Expected[i]
      <4>1. i \in 1..r \/ i = r + 1
        OBVIOUS
      <4> QED
        BY <1>7, <3>3, <3>4, <4>1, Zenon
    <3> QED
      BY <3>2, <3>3, <3>4, <3>5
  <2> QED
    BY <2>1, <2>2
<1>9. CursorAt(k + 1)'
  BY <1>2, <1>5, <1>6, <1>8, Zenon DEF CursorAt, FrameLength
<1> QED
  BY <1>1, <1>9 DEF Cursor

(* What is cut out of the buffer is what is cut out of the frame.          *)
LEMMA SubSeqSame ==
    ASSUME NEW f \in Seq(Nat), NEW g \in Seq(Nat), NEW m \in Nat, NEW n \in Nat,
           n <= Len(f), n <= Len(g), \A i \in 1..n : f[i] = g[i]
    PROVE  SubSeq(f, m + 1, n) = SubSeq(g, m + 1, n)
<1>1. ASSUME NEW i \in m + 1..n PROVE f[i] = g[i] /\ f[i] \in Nat /\ g[i] \in Nat
  <2>1. i \in 1..n /\ i \in 1..Len(f) /\ i \in 1..Len(g)
    OBVIOUS
  <2> QED
    BY <2>1
<1>2. /\ SubSeq(f, m + 1, n) \in Seq(Nat)
      /\ Len(SubSeq(f, m + 1, n)) = IF m + 1 <= n THEN n - (m + 1) + 1 ELSE 0
      /\ \A i \in 1..n - (m + 1) + 1 : SubSeq(f, m + 1, n)[i] = f[(m + 1) + i - 1]
  BY <1>1, SubSeqProperties
<1>3. /\ SubSeq(g, m + 1, n) \in Seq(Nat)
      /\ Len(SubSeq(g, m + 1, n)) = IF m + 1 <= n THEN n - (m + 1) + 1 ELSE 0
      /\ \A i \in 1..n - (m + 1) + 1 : SubSeq(g, m + 1, n)[i] = g[(m + 1) + i - 1]
  BY <1>1, SubSeqProperties
<1>4. ASSUME NEW i \in 1..Len(SubSeq(f, m + 1, n))
      PROVE  SubSeq(f, m + 1, n)[i] = SubSeq(g, m + 1, n)[i]
  <2>1. i \in 1..n - (m + 1) + 1 /\ (m + 1) + i - 1 \in m + 1..n
    BY <1>2
  <2> QED
    BY <1>1, <1>2, <1>3, <2>1
<1> QED
  BY <1>2, <1>3, <1>4, SeqEqual

-----------------------------------------------------------------------------
(* At first nothing is behind decode. *)
LEMMA InitCursor == Init => Cursor /\ Idle
<1> SUFFICES ASSUME Init
             PROVE  Cursor /\ Idle
  OBVIOUS
<1>1. /\ wire = Stream(sent) /\ buffer = <<>> /\ out = <<>> /\ ended = "empty"
  BY DEF Init
<1>2. sent \in Seq(Claims)
  BY InitInPlace DEF InPlace
<1>3. PICK t \in Nat, n \in Nat : t = Len(Stream(sent)) /\ n = Len(sent)
  BY <1>2, StreamIsBytes, LenProperties
<1>4. StreamOf(sent, 0) = <<>> /\ Rank(0) = 0
  BY <1>2, StreamBegins, RankBegins
<1>5. \A f \in NotTaken : f > 0
  <2>1. NotTaken \subseteq 1..Len(sent)
    BY <1>2, LenProperties DEF NotTaken
  <2> QED
    BY <2>1
<1>6. Len(buffer) + Len(wire) + Len(StreamOf(sent, 0)) = Len(Stream(sent))
  BY <1>1, <1>3, <1>4
<1>7. out \in Seq(Seq(Nat)) /\ Len(out) = Rank(0) /\ \A i \in 1..Rank(0) : out[i] = Expected[i]
  BY <1>1, <1>4
<1>8. CursorAt(0)
  BY <1>5, <1>6, <1>7, Zenon DEF CursorAt
<1>9. 0 \in 0..Len(sent)
  BY <1>3
<1> QED
  BY <1>1, <1>8, <1>9 DEF Cursor, Idle

(* A return that retrieves nothing. *)
LEMMA NothingRetrieved ==
    ASSUME Held, NEW why, Return(why, 0)
    PROVE  /\ buffer' = buffer /\ wire' = wire /\ sent' = sent /\ out' = out /\ ended' = why
           /\ HeaderIn' = HeaderIn /\ TooShort' = TooShort /\ HeadLength' = HeadLength
<1>1. buffer' = SubSeq(buffer, 0 + 1, Len(buffer))
  BY DEF Return
<1>2. SubSeq(buffer, 0 + 1, Len(buffer)) = buffer
  BY SubSeqFull DEF Held, IInv, Bytes
<1>3. buffer' = buffer
  BY <1>1, <1>2
<1> QED
  BY <1>3 DEF Return, HeaderIn, TooShort, HeadLength

(* decode ends for want of bytes. *)
LEMMA DecodeEndsStands ==
    ASSUME Held, Cursor, DecodeEnds
    PROVE  Cursor' /\ Idle'
<1>1. CASE buffer = <<>> /\ Return("empty", 0)
  <2>1. buffer' = buffer /\ wire' = wire /\ sent' = sent /\ out' = out /\ ended' = "empty"
    BY <1>1, NothingRetrieved
  <2> QED
    BY <1>1, <2>1, StandsStill DEF Idle
<1>2. CASE ~HeaderIn /\ Return("header", 0)
  <2>1. /\ buffer' = buffer /\ wire' = wire /\ sent' = sent /\ out' = out /\ ended' = "header"
        /\ HeaderIn' = HeaderIn
    BY <1>2, NothingRetrieved
  <2> QED
    BY <1>2, <2>1, StandsStill DEF Idle
<1> QED
  BY <1>1, <1>2 DEF DecodeEnds

(* A frame that is passed on is the next of those that are. *)
LEMMA PassedOn ==
    ASSUME Held, NEW k \in 0..Len(sent), CursorAt(k), HeaderIn,
           HeadLength \in End..MaxFrameLength, Len(buffer) >= HeadLength, Strip <= HeadLength
    PROVE  k + 1 \in Taken /\ SubSeq(buffer, Strip + 1, HeadLength) = Passed(k + 1)
<1>1. /\ End \in Nat /\ MaxFrameLength \in Nat /\ Strip \in Nat /\ sent \in Seq(Claims)
      /\ Len(buffer) \in Nat /\ DOMAIN sent = 1..Len(sent) /\ Len(buffer) + Len(wire) > 0
  BY EndType, DecoderAssumption, Lengths DEF HeaderIn
<1>2. /\ k \in Nat /\ k + 1 \in 1..Len(sent) /\ sent[k + 1] \in Claims
      /\ \A i \in 1..WireLength(sent[k + 1]) :
            i <= Len(buffer) => buffer[i] = Frame(k + 1, sent[k + 1])[i]
  BY <1>1, NextFrame
<1>3. PICK h \in Nat, v \in Claims :
         /\ h = HeadLength /\ v = sent[k + 1] /\ h = FrameLength(v) /\ h = WireLength(v)
         /\ End <= h /\ h <= MaxFrameLength /\ h <= Len(buffer) /\ Strip <= h
  <2>1. HeadLength = FrameLength(sent[k + 1])
    BY HeadIs
  <2>2. HeadLength \in Nat /\ HeadLength >= End /\ HeadLength <= MaxFrameLength
    BY <1>1
  <2>3. WireLength(sent[k + 1]) = FrameLength(sent[k + 1])
    BY <1>2, <2>1, <2>2, WireLengthIs
  <2> QED
    BY <1>1, <1>2, <2>1, <2>2, <2>3
<1>4. ASSUME NEW g \in NotTaken PROVE k + 1 < g
  <2>1. g \in 1..Len(sent) /\ g \in Nat /\ FrameLength(sent[g]) > MaxFrameLength
    BY <1>1 DEF NotTaken
  <2>2. FrameLength(sent[g]) \in Nat
    BY <1>1, <2>1, ClaimOf, WireLengthIs
  <2>3. ~(FrameLength(sent[g]) < End)
    BY <1>1, <1>3, <2>1, <2>2
  <2>4. g > k
    BY <2>3 DEF CursorAt
  <2>5. g # k + 1
    <3>1. ~(h > MaxFrameLength)
      BY <1>1, <1>3
    <3> QED
      BY <1>3, <2>1, <3>1
  <2> QED
    BY <1>2, <2>1, <2>4, <2>5
<1>5. k + 1 \in Taken
  <2>1. FrameLength(sent[k + 1]) >= End /\ FrameLength(sent[k + 1]) >= Strip
    BY <1>1, <1>3
  <2> QED
    BY <1>1, <1>2, <1>4, <2>1 DEF Taken
<1>6. SubSeq(buffer, Strip + 1, h) = SubSeq(Frame(k + 1, v), Strip + 1, h)
  <2>1. Frame(k + 1, v) \in Seq(Nat) /\ Len(Frame(k + 1, v)) = h
    BY <1>2, <1>3, FrameIs
  <2>2. buffer \in Seq(Nat)
    BY DEF Held, IInv, Bytes
  <2>3. ASSUME NEW i \in 1..h PROVE buffer[i] = Frame(k + 1, v)[i]
    <3>1. i <= Len(buffer) /\ i \in 1..WireLength(sent[k + 1])
      BY <1>1, <1>3
    <3> QED
      BY <1>2, <1>3, <3>1
  <2>4. h <= Len(buffer) /\ h <= Len(Frame(k + 1, v))
    BY <1>3, <2>1
  <2> QED
    BY <1>1, <2>1, <2>2, <2>3, <2>4, SubSeqSame
<1> QED
  BY <1>3, <1>5, <1>6 DEF Passed

(* decode meets a frame. *)
LEMMA DecodeFrameMoves ==
    ASSUME Held, Cursor, DecodeFrame
    PROVE  Cursor' /\ Idle'
<1>1. PICK k \in 0..Len(sent) : CursorAt(k)
  BY DEF Cursor
<1>2. /\ HeaderIn /\ decoding /\ End \in Nat /\ MaxFrameLength \in Nat /\ Strip \in Nat
      /\ Len(buffer) \in Nat /\ Len(buffer) > End /\ Len(buffer) + Len(wire) > 0
      /\ DOMAIN sent = 1..Len(sent)
  <2>1. HeaderIn /\ decoding /\ Len(buffer) > End
    BY DEF DecodeFrame, HeaderIn
  <2>2. End \in Nat /\ MaxFrameLength \in Nat /\ Strip \in Nat
    BY EndType, DecoderAssumption
  <2>3. Len(buffer) \in Nat /\ Len(wire) \in Nat /\ DOMAIN sent = 1..Len(sent)
    BY Lengths, LenProperties
  <2> QED
    BY <2>1, <2>2, <2>3
<1>3. /\ k \in Nat /\ k + 1 \in 1..Len(sent) /\ sent[k + 1] \in Claims
      /\ HeadLength = FrameLength(sent[k + 1]) /\ HeadLength \in Nat
      /\ HeadLength >= End => WireLength(sent[k + 1]) = HeadLength
      /\ HeadLength < End => WireLength(sent[k + 1]) = End
  BY <1>1, <1>2, NextFrame, HeadIs, WireLengthIs
<1>4. k + 1 \in NotTaken <=> HeadLength > MaxFrameLength
  BY <1>2, <1>3 DEF NotTaken
<1>5. k + 1 \in Taken => HeadLength >= End /\ HeadLength >= Strip
  BY <1>3 DEF Taken
<1>6. CASE TooShort /\ Return("dropped", OfTooShort(HeadLength))
  <2>1. /\ sent' = sent /\ wire' = wire /\ out' = out /\ ended' = "dropped"
        /\ buffer' = SubSeq(buffer, End + 1, Len(buffer)) /\ HeadLength < End
    BY <1>6 DEF Return, OfTooShort, TooShort
  <2>2. WireLength(sent[k + 1]) = End /\ WireLength(sent[k + 1]) <= Len(buffer)
    BY <1>2, <1>3, <2>1
  <2>3. k + 1 \notin Taken
    BY <1>2, <1>3, <1>5, <2>1
  <2>4. Cursor'
    BY <1>1, <1>2, <1>3, <2>1, <2>2, <2>3, MovesOn
  <2> QED
    BY <2>1, <2>4 DEF Idle
<1>7. CASE TooLong /\ Return("too long", OfTooLong(HeadLength))
  <2>1. Return("too long", 0)
    BY <1>7 DEF OfTooLong
  <2>2. buffer' = buffer /\ wire' = wire /\ sent' = sent /\ out' = out /\ ended' = "too long"
    BY <2>1, NothingRetrieved
  <2> QED
    BY <2>2, StandsStill DEF Idle
<1>8. CASE HeadLength \in End..MaxFrameLength /\ Len(buffer) < HeadLength /\ Return("partial", 0)
  <2>1. /\ buffer' = buffer /\ wire' = wire /\ sent' = sent /\ out' = out /\ ended' = "partial"
        /\ HeaderIn' = HeaderIn /\ TooShort' = TooShort /\ HeadLength' = HeadLength
    BY <1>8, NothingRetrieved
  <2>2. ~TooShort
    BY <1>2, <1>8 DEF TooShort
  <2>3. Cursor'
    BY <2>1, StandsStill
  <2>4. HeaderIn' /\ ~TooShort' /\ Len(buffer') < HeadLength'
    BY <1>2, <1>8, <2>1, <2>2, Zenon
  <2> QED
    BY <2>1, <2>3, <2>4 DEF Idle
<1>9. CASE /\ HeadLength \in End..MaxFrameLength /\ Len(buffer) >= HeadLength
           /\ Strip > HeadLength /\ Return("dropped", HeadLength)
  <2>1. /\ sent' = sent /\ wire' = wire /\ out' = out /\ ended' = "dropped"
        /\ buffer' = SubSeq(buffer, HeadLength + 1, Len(buffer))
    BY <1>9 DEF Return
  <2>2. WireLength(sent[k + 1]) = HeadLength /\ WireLength(sent[k + 1]) <= Len(buffer)
    BY <1>2, <1>3, <1>9
  <2>3. k + 1 \notin Taken /\ k + 1 \notin NotTaken
    BY <1>2, <1>3, <1>4, <1>5, <1>9
  <2>4. Cursor'
    BY <1>1, <1>2, <2>1, <2>2, <2>3, MovesOn
  <2> QED
    BY <2>1, <2>4 DEF Idle
<1>10. CASE /\ HeadLength \in End..MaxFrameLength /\ Len(buffer) >= HeadLength
            /\ Strip <= HeadLength /\ PassOn(HeadLength)
  <2>1. /\ sent' = sent /\ wire' = wire /\ decoding' = decoding
        /\ out' = Append(out, SubSeq(buffer, Strip + 1, HeadLength))
        /\ buffer' = SubSeq(buffer, HeadLength + 1, Len(buffer))
    BY <1>10 DEF PassOn
  <2>2. WireLength(sent[k + 1]) = HeadLength /\ WireLength(sent[k + 1]) <= Len(buffer)
    BY <1>2, <1>3, <1>10
  <2>3. k + 1 \in Taken /\ SubSeq(buffer, Strip + 1, HeadLength) = Passed(k + 1)
    BY <1>1, <1>2, <1>10, PassedOn
  <2>4. k + 1 \notin NotTaken
    BY <1>2, <1>3, <1>4, <1>10
  <2>5. Cursor'
    BY <1>1, <1>2, <2>1, <2>2, <2>3, <2>4, MovesOn
  <2> QED
    BY <1>2, <2>1, <2>5 DEF Idle
<1> QED
  BY <1>6, <1>7, <1>8, <1>9, <1>10 DEF DecodeFrame

(* Every step keeps decode behind whole frames. *)
LEMMA NextMoves ==
    ASSUME Held, Cursor, Idle, [Next]_vars
    PROVE  Cursor' /\ Idle'
<1>1. ASSUME NEW n \in 1..Len(wire), Arrive(n) PROVE Cursor' /\ Idle'
  <2>1. /\ sent' = sent /\ out' = out /\ posted' = posted + 1 /\ posted \in Nat
        /\ buffer' = buffer \o SubSeq(wire, 1, n) /\ wire' = SubSeq(wire, n + 1, Len(wire))
    BY <1>1 DEF Arrive, Written, Held, InPlace
  <2>2. PICK m \in Nat, l \in Nat : m = Len(wire) /\ l = Len(buffer) /\ n \in Nat /\ n <= m
    BY Lengths
  <2>3. wire \in Seq(Nat) /\ buffer \in Seq(Nat) /\ n \in 0..Len(wire)
    BY <2>2 DEF Held, IInv, Bytes
  <2>4. Len(wire') = m - n
    BY <2>1, <2>2, <2>3, TakenOff
  <2>5. SubSeq(wire, 1, n) \in Seq(Nat) /\ Len(SubSeq(wire, 1, n)) = n
    <3>1. \A i \in 1..n : wire[i] \in Nat
      BY <2>2, <2>3
    <3>2. /\ SubSeq(wire, 1, n) \in Seq(Nat)
          /\ Len(SubSeq(wire, 1, n)) = IF 1 <= n THEN n - 1 + 1 ELSE 0
      BY <2>2, <3>1, SubSeqProperties
    <3>3. 1 <= n /\ n - 1 + 1 = n
      BY <2>2
    <3> QED
      BY <3>2, <3>3
  <2>6. Len(buffer') = l + n
    <3>1. Len(buffer \o SubSeq(wire, 1, n)) = Len(buffer) + Len(SubSeq(wire, 1, n))
      BY <2>3, <2>5, ConcatProperties
    <3> QED
      BY <2>1, <2>2, <2>5, <3>1
  <2>7. Len(buffer') + Len(wire') = Len(buffer) + Len(wire)
    BY <2>2, <2>4, <2>6
  <2>8. posted' # 0
    BY <2>1
  <2> QED
    BY <2>1, <2>7, <2>8, StandsStill DEF Idle
<1>2. CASE FireRead
  <2>1. sent' = sent /\ out' = out /\ buffer' = buffer /\ wire' = wire /\ decoding' = TRUE
    BY <1>2 DEF FireRead
  <2> QED
    BY <2>1, StandsStill DEF Idle
<1>3. CASE UNCHANGED vars
  <2>1. /\ sent' = sent /\ out' = out /\ buffer' = buffer /\ wire' = wire
        /\ posted' = posted /\ decoding' = decoding /\ ended' = ended
    BY <1>3 DEF vars
  <2>2. Idle'
    BY <2>1 DEF Idle, HeaderIn, TooShort, HeadLength
  <2> QED
    BY <2>1, <2>2, StandsStill
<1> QED
  BY <1>1, <1>2, <1>3, DecodeEndsStands, DecodeFrameMoves DEF Next

-----------------------------------------------------------------------------
(* However the stream is cut into arrivals, the buffer and what is under   *)
(* way are what decode left of it, in its order.                           *)
THEOREM LengthFieldTypeOK == Spec => []TypeOK
<1>1. IInv /\ InPlace => TypeOK
  <2> SUFFICES ASSUME IInv, InPlace
               PROVE  TypeOK
    OBVIOUS
  <2>1. buffer \o wire \in Seq(Nat) /\ Len(wire) \in Nat /\ Len(Stream(sent)) \in Nat
    BY ConcatProperties, LenProperties DEF IInv, Bytes, InPlace
  <2>2. IsSuffix(buffer \o wire, Stream(sent))
    BY <2>1, EndIsSuffix DEF InPlace
  <2> QED
    <3>1. posted \in Nat /\ posted + Len(wire) <= Len(Stream(sent))
      BY DEF InPlace
    <3>2. posted \in 0..Len(Stream(sent))
      BY <2>1, <3>1
    <3> QED
      BY <2>2, <3>2 DEF InPlace, TypeOK
<1>2. IInv /\ [Next]_vars => IInv'
  BY NextKeeps
<1>3. IInv /\ InPlace /\ [Next]_vars => InPlace'
  BY NextInPlace
<1> QED
  BY <1>1, <1>2, <1>3, InitIInv, InitInPlace, PTL DEF Spec

(* Once a decode has met a frame that is too long, nothing more is passed  *)
(* on and nothing is taken out of the buffer.                              *)
THEOREM TooLongBlocksForGood == Spec => TooLongBlocks
<1>1. IInv /\ [Next]_vars => IInv'
  BY NextKeeps
<1>2. IInv /\ [Next]_vars
        => [ended = "too long" => out' = out /\ Len(buffer') >= Len(buffer)]_vars
  BY NextKeeps
<1> QED
  BY <1>1, <1>2, InitIInv, PTL DEF Spec, TooLongBlocks

-----------------------------------------------------------------------------
(* What was passed on, when it agrees with what was to be passed on as far *)
(* as it goes.                                                             *)
LEMMA Agreed ==
    ASSUME sent \in Seq(Claims), NEW o \in Seq(Seq(Nat)), NEW r \in Nat, Len(o) = r,
           r <= Cardinality(Taken), \A i \in 1..r : o[i] = Expected[i]
    PROVE  /\ o = SubSeq(Expected, 1, r)
           /\ r = Cardinality(Taken) => o = Expected
<1>1. PICK c \in Nat : c = Cardinality(Taken) /\ Len(Expected) = c /\ r <= c
  BY ExpectedLength
<1> DEFINE S == {Expected[i] : i \in 1..c}
<1>2. \A i \in 1..c : Expected[i] \in S
  OBVIOUS
<1> HIDE DEF S
<1>3. \A i \in 1..r : Expected[i] \in S /\ o[i] \in S
  <2>1. \A i \in 1..r : i \in 1..c
    BY <1>1
  <2> QED
    BY <1>2, <2>1
<1>4. /\ SubSeq(Expected, 1, r) \in Seq(S)
      /\ Len(SubSeq(Expected, 1, r)) = IF 1 <= r THEN r - 1 + 1 ELSE 0
      /\ \A i \in 1..r - 1 + 1 : SubSeq(Expected, 1, r)[i] = Expected[1 + i - 1]
  BY <1>3, SubSeqProperties
<1>5. SubSeq(o, 1, r) \in Seq(S) /\ SubSeq(o, 1, r) = o
  BY <1>3, SubSeqProperties, SubSeqFull
<1>6. Len(SubSeq(Expected, 1, r)) = r /\ \A i \in 1..r : SubSeq(Expected, 1, r)[i] = Expected[i]
  <2>1. r - 1 + 1 = r /\ (~(1 <= r) => r = 0) /\ \A i \in 1..r : 1 + i - 1 = i
    OBVIOUS
  <2> QED
    BY <1>4, <2>1
<1>7. o = SubSeq(Expected, 1, r)
  BY <1>4, <1>5, <1>6, SeqEqual
<1>8. SubSeq(Expected, 1, c) = Expected
  <2>1. Expected \in [1..c -> S]
    <3> DEFINE e(i) == Passed(CHOOSE f \in Taken : Cardinality({g \in Taken : g <= f}) = i)
    <3>1. Expected = [i \in 1..c |-> e(i)]
      BY <1>1 DEF Expected
    <3> HIDE DEF e
    <3> QED
      BY <1>2, <3>1
  <2>2. Expected \in Seq(S) /\ Len(Expected) = c
    BY <2>1, SeqIs
  <2> QED
    BY <2>2, SubSeqFull
<1> QED
  BY <1>1, <1>7, <1>8

(* No more count than there are. *)
LEMMA RankBound ==
    ASSUME sent \in Seq(Claims), NEW k \in Nat
    PROVE  Rank(k) \in Nat /\ Rank(k) <= Cardinality(Taken)
<1>1. {g \in Taken : g <= k} \in SUBSET Taken
  OBVIOUS
<1> QED
  BY <1>1, TakenAre, FS_Subset DEF Rank

(* What decode passed on is the beginning of what is expected. *)
LEMMA CursorAgrees ==
    ASSUME Held, NEW k \in 0..Len(sent), CursorAt(k)
    PROVE  /\ IsPrefix(out, Expected) /\ out = SubSeq(Expected, 1, Rank(k))
           /\ Rank(k) = Cardinality(Taken) => out = Expected
<1>1. k \in Nat /\ sent \in Seq(Claims)
  BY Lengths
<1>2. PICK r \in Nat : r = Rank(k) /\ r <= Cardinality(Taken) /\ Cardinality(Taken) \in Nat
  BY <1>1, RankBound, TakenAre
<1>3. out \in Seq(Seq(Nat)) /\ Len(out) = r /\ \A i \in 1..r : out[i] = Expected[i]
  BY <1>2 DEF CursorAt
<1>4. out = SubSeq(Expected, 1, r) /\ (r = Cardinality(Taken) => out = Expected)
  BY <1>1, <1>2, <1>3, Agreed
<1>5. SubSeq(out, 1, Len(out)) = out
  BY <1>3, SubSeqFull
<1>6. Len(out) <= Len(Expected)
  BY <1>1, <1>2, <1>3, ExpectedLength
<1>7. IsPrefix(out, Expected)
  BY <1>3, <1>4, <1>5, <1>6 DEF IsPrefix
<1> QED
  BY <1>2, <1>4, <1>7

(* Behind the last frame everything has been passed on. *)
LEMMA AllPassed ==
    ASSUME Held, NEW k \in 0..Len(sent), CursorAt(k), \A f \in Taken : f <= k
    PROVE  out = Expected
<1>1. Rank(k) = Cardinality(Taken)
  BY Lengths, RankBegins
<1> QED
  BY <1>1, CursorAgrees

(* Where decode left no more than a header, that header is the last frame. *)
LEMMA OnlyHeaderLeft ==
    ASSUME Held, NEW k \in 0..Len(sent), CursorAt(k), k # Len(sent),
           Len(wire) = 0, Len(buffer) <= End
    PROVE  k + 1 = Len(sent) /\ WireLength(sent[k + 1]) = End /\ Len(buffer) = End
<1>1. PICK l \in Nat, n \in Nat, t \in Nat, e \in Nat :
         l = Len(buffer) /\ n = Len(sent) /\ t = Len(Stream(sent)) /\ e = End /\ e # 0 /\ l <= e
  <2>1. End \in Nat /\ End # 0
    BY EndType DEF End
  <2> QED
    BY <2>1, Lengths
<1>2. /\ k \in Nat /\ k + 1 \in 1..Len(sent) /\ sent[k + 1] \in Claims
      /\ WireLength(sent[k + 1]) <= Len(buffer) + Len(wire) /\ sent \in Seq(Claims)
  BY FrameLeft, Lengths
<1>3. PICK w \in Nat, s \in Nat :
         /\ w = WireLength(sent[k + 1]) /\ w >= e /\ w <= l /\ s = Len(StreamOf(sent, k))
         /\ Len(StreamOf(sent, k + 1)) = s + w /\ l + s = t
  <2>1. WireLength(sent[k + 1]) \in Nat /\ WireLength(sent[k + 1]) >= End
    BY <1>2, WireLengthIs
  <2>2. /\ Len(StreamOf(sent, k)) \in Nat
        /\ Len(StreamOf(sent, k + 1)) = Len(StreamOf(sent, k)) + WireLength(sent[k + 1])
    BY <1>2, StreamLength
  <2>3. l + 0 + Len(StreamOf(sent, k)) = t
    BY <1>1, Zenon DEF CursorAt
  <2>4. l + Len(StreamOf(sent, k)) = t /\ WireLength(sent[k + 1]) <= l
    BY <1>1, <1>2, <2>2, <2>3
  <2> QED
    BY <1>1, <2>1, <2>2, <2>4
<1>4. w = e /\ l = e
  BY <1>1, <1>3
<1>5. ASSUME k + 1 # n PROVE FALSE
  <2>1. (k + 1) + 1 \in 1..Len(sent) /\ k + 1 \in Nat
        /\ (k + 1) + 1 \in 0..Len(sent) /\ n \in (k + 1) + 1..Len(sent)
    BY <1>1, <1>2, <1>5
  <2>2. PICK x \in Nat : /\ x = WireLength(sent[(k + 1) + 1]) /\ x >= e
                         /\ Len(StreamOf(sent, (k + 1) + 1)) = (s + w) + x
    <3>1. sent[(k + 1) + 1] \in Claims
      BY <1>2, <2>1, ClaimOf
    <3>2. Len(StreamOf(sent, (k + 1) + 1))
             = Len(StreamOf(sent, k + 1)) + WireLength(sent[(k + 1) + 1])
      BY <1>2, <2>1, StreamLength
    <3>3. WireLength(sent[(k + 1) + 1]) \in Nat /\ WireLength(sent[(k + 1) + 1]) >= End
      BY <3>1, WireLengthIs
    <3> QED
      BY <1>1, <1>3, <3>2, <3>3
  <2>3. (s + w) + x <= t
    <3>1. Len(StreamOf(sent, (k + 1) + 1)) <= Len(StreamOf(sent, Len(sent)))
      BY <1>1, <1>2, <2>1, StreamKeeps
    <3> QED
      BY <1>1, <1>2, <2>2, <3>1, StreamBegins
  <2> QED
    BY <1>1, <1>3, <1>4, <2>2, <2>3
<1> QED
  BY <1>1, <1>3, <1>4, <1>5

(* However the stream is cut into arrivals, the handler behind the decoder *)
(* gets the frames that were sent, whole, in order and each once, and none *)
(* from behind a frame that is too long.                                   *)
THEOREM DecoderFramesInOrder == Spec => []FramesInOrder
<1>1. IInv /\ InPlace /\ Cursor => FramesInOrder
  BY CursorAgrees DEF Held, Cursor, FramesInOrder
<1>2. IInv /\ InPlace /\ Cursor /\ Idle /\ [Next]_vars => IInv' /\ InPlace' /\ Cursor' /\ Idle'
  BY NextKeeps, NextInPlace, NextMoves DEF Held
<1> QED
  BY <1>1, <1>2, InitIInv, InitInPlace, InitCursor, PTL DEF Spec

(* When everything has arrived and every fire_read has run, no frame is    *)
(* left behind, but for a frame that is too long and what follows it, what *)
(* follows a dropped frame, and a last frame without content.              *)
THEOREM DecoderNoneLeftBehind == Spec => []NoneLeftBehind
<1>1. ASSUME IInv, InPlace, Cursor, Idle PROVE NoneLeftBehind
  <2> SUFFICES ASSUME wire = <<>>, posted = 0, ~decoding, ended # "dropped"
               PROVE  \/ out = Expected
                      \/ /\ FrameLength(Last(sent)) = End /\ Len(sent) \in Taken
                         /\ out = SubSeq(Expected, 1, Len(Expected) - 1)
    BY DEF NoneLeftBehind
  <2>1. Held
    BY <1>1 DEF Held
  <2>2. PICK k \in 0..Len(sent) : CursorAt(k)
    BY <1>1 DEF Cursor
  <2>3. /\ Len(wire) = 0 /\ k \in Nat /\ Len(buffer) \in Nat /\ End \in Nat
        /\ Len(sent) \in Nat /\ sent \in Seq(Claims) /\ Taken \subseteq 1..Len(sent)
    BY <2>1, Lengths, EndType, TakenAre
  <2>4. CASE k = Len(sent)
    <3>1. \A f \in Taken : f <= k
      BY <2>3, <2>4
    <3> QED
      BY <2>1, <2>2, <3>1, AllPassed
  <2>5. CASE k # Len(sent) /\ ended \in {"empty", "header"}
    <3>1. Len(buffer) <= End
      <4>1. ended = "empty" => Len(buffer) = 0
        BY <1>1 DEF Idle
      <4>2. ended = "header" => ~(Len(buffer) > End)
        BY <1>1 DEF Idle, HeaderIn
      <4> QED
        BY <2>3, <2>5, <4>1, <4>2
    <3>2. k + 1 = Len(sent) /\ WireLength(sent[k + 1]) = End /\ sent[k + 1] \in Claims
      BY <2>1, <2>2, <2>3, <2>5, <3>1, OnlyHeaderLeft, FrameLeft
    <3>3. CASE Len(sent) \in Taken
      <4>1. FrameLength(Last(sent)) = End
        <5>1. FrameLength(sent[k + 1]) >= End
          BY <3>2, <3>3 DEF Taken
        <5> QED
          BY <3>2, <5>1, WireLengthIs DEF Last
      <4>2. PICK r \in Nat : /\ r = Rank(k) /\ Rank(k + 1) = r + 1
                             /\ Rank(k + 1) = Cardinality(Taken)
        <5>1. \A f \in Taken : f <= k + 1
          BY <2>3, <3>2
        <5> QED
          BY <2>3, <3>2, <3>3, <5>1, RankGrows, RankBegins, TakenAre
      <4>3. Len(Expected) - 1 = Rank(k)
        <5>1. Len(Expected) = r + 1
          BY <2>3, <4>2, ExpectedLength
        <5> QED
          BY <4>2, <5>1
      <4>4. out = SubSeq(Expected, 1, Rank(k))
        BY <2>1, <2>2, CursorAgrees
      <4> QED
        BY <3>3, <4>1, <4>3, <4>4
    <3>4. CASE Len(sent) \notin Taken
      <4>1. \A f \in Taken : f <= k
        BY <2>3, <3>2, <3>4
      <4> QED
        BY <2>1, <2>2, <4>1, AllPassed
    <3> QED
      BY <3>3, <3>4
  <2>6. CASE k # Len(sent) /\ ended = "partial"
    <3>1. HeaderIn /\ ~(HeadLength < End) /\ Len(buffer) < HeadLength
      BY <1>1, <2>6 DEF Idle, TooShort
    <3>2. HeadLength = FrameLength(sent[k + 1])
      BY <2>1, <2>2, <3>1, HeadIs
    <3>3. sent[k + 1] \in Claims /\ WireLength(sent[k + 1]) <= Len(buffer) + Len(wire)
      BY <2>1, <2>2, <2>6, FrameLeft
    <3>4. HeadLength \in Nat /\ WireLength(sent[k + 1]) = HeadLength
      BY <2>3, <3>1, <3>2, <3>3, WireLengthIs
    <3> QED
      BY <2>3, <3>1, <3>3, <3>4
  <2>7. CASE k # Len(sent) /\ ended = "too long"
    <3>1. HeaderIn /\ HeadLength > MaxFrameLength
      BY <1>1, <2>7 DEF IInv, Blocked, TooLong
    <3>2. HeadLength = FrameLength(sent[k + 1])
      BY <2>1, <2>2, <3>1, HeadIs
    <3>3. k + 1 \in NotTaken
      <4>1. DOMAIN sent = 1..Len(sent)
        BY <2>3, LenProperties
      <4>2. k + 1 \in 1..Len(sent)
        BY <2>1, <2>2, <2>7, FrameLeft
      <4> QED
        BY <3>1, <3>2, <4>1, <4>2 DEF NotTaken
    <3>4. \A f \in Taken : f < k + 1 /\ f \in Nat
      BY <2>3, <3>3 DEF Taken
    <3>5. \A f \in Taken : f <= k
      BY <2>3, <3>4
    <3> QED
      BY <2>1, <2>2, <3>5, AllPassed
  <2> QED
    BY <1>1, <2>4, <2>5, <2>6, <2>7 DEF InPlace
<1>2. IInv /\ InPlace /\ Cursor /\ Idle /\ [Next]_vars => IInv' /\ InPlace' /\ Cursor' /\ Idle'
  BY NextKeeps, NextInPlace, NextMoves DEF Held
<1> QED
  BY <1>1, <1>2, InitIInv, InitInPlace, InitCursor, PTL DEF Spec
=============================================================================
