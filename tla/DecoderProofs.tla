---------------------------- MODULE DecoderProofs ----------------------------
(***************************************************************************)
(* Proofs about the MJPEG decoder, for any number of pictures and any cut  *)
(* of their bytes into chunks.                                             *)
(*                                                                         *)
(* Between two chunks the data is what arrived behind the last picture     *)
(* found (DataIsRest): it begins with a part.  So the first markers in it  *)
(* are those of its first picture, and the next one found is the next one  *)
(* sent.                                                                   *)
(***************************************************************************)
EXTENDS MjpegDecoder, FiniteSetTheorems, SequenceTheorems, TLAPS

Byte == Pictures \cup {"--", "ff", "d8", "d9"}

\* The bytes that arrived behind s pictures, up to the m-th.
Rest(s, m) == SubSeq(Bytes, PartLength * s + 1, m)

\* What the events carry.
PictureSlices == {Slices(Jpeg(p))[k] : p \in Pictures, k \in 1 .. EventsPerPicture}

Shape ==
    /\ screen \in Seq(Pictures)
    /\ sent \in 0 .. PartLength * Len(screen)
    /\ seq \in Nat /\ PartLength * seq <= sent
    /\ burst \in Nat
    /\ frames \in Seq(PictureSlices)
    /\ lastFrame = IF seq = 0 THEN <<>> ELSE Jpeg(screen[seq])
    /\ mjpegRequest = "none" => sent = 0
    /\ mjpegRequest = "sent" => sent = 0

DataIsRest ==
    /\ data = Rest(seq, sent)
    /\ imageEnd = EOF
    /\ imageStart = EOF \/ (imageStart = 1 /\ PartLength * seq + 3 <= sent)

\* What waits is what came in bursts.
LagIsBurst == mjpegRequest # "aborted" => sent \div PartLength <= seq + burst

IInv == Shape /\ DataIsRest /\ FramesAreWhole /\ LagIsBurst

-----------------------------------------------------------------------------
(* The bytes.                                                              *)

\* Each picture takes six bytes (mjpeg-decoder.ts:110-139).
LEMMA BytesAre ==
    ASSUME screen \in Seq(Pictures)
    PROVE  /\ Bytes \in Seq(Byte) /\ Len(Bytes) = 6 * Len(screen)
           /\ \A s \in 0 .. Len(screen) - 1 :
                /\ Bytes[6 * s + 1] = "--" /\ Bytes[6 * s + 2] = "ff" /\ Bytes[6 * s + 3] = "d8"
                /\ Bytes[6 * s + 4] = screen[s + 1]
                /\ Bytes[6 * s + 5] = "ff" /\ Bytes[6 * s + 6] = "d9"
<1>1. \A p : /\ Part(p)[1] = "--" /\ Part(p)[2] = "ff" /\ Part(p)[3] = "d8" /\ Part(p)[4] = p
             /\ Part(p)[5] = "ff" /\ Part(p)[6] = "d9"
  BY DEF Part, Jpeg, SOI, EOI
<1>2. \A k \in 1 .. 6 * Len(screen) :
        /\ (k - 1) \div 6 + 1 \in 1 .. Len(screen)
        /\ ((k - 1) % 6) + 1 \in 1 .. 6
  OBVIOUS
<1>3. \A p \in Pictures, i \in 1 .. 6 : Part(p)[i] \in Byte
  BY <1>1 DEF Byte
<1>4. \A k \in 1 .. 6 * Len(screen) : Bytes[k] = Part(screen[(k - 1) \div 6 + 1])[((k - 1) % 6) + 1]
  BY DEF Bytes, PartLength
<1>5. \A k \in 1 .. 6 * Len(screen) : Bytes[k] \in Byte
  <2> TAKE k \in 1 .. 6 * Len(screen)
  <2> DEFINE i == (k - 1) \div 6 + 1
             j == ((k - 1) % 6) + 1
  <2>1. i \in 1 .. Len(screen) /\ j \in 1 .. 6
    BY <1>2
  <2>2. screen[i] \in Pictures
    BY <2>1
  <2>3. Part(screen[i])[j] \in Byte
    BY <2>1, <2>2, <1>3
  <2> QED
    BY <2>3, <1>4
<1>6. Bytes \in [1 .. 6 * Len(screen) -> Byte]
  BY <1>5 DEF Bytes, PartLength
<1>7. Bytes \in Seq(Byte) /\ Len(Bytes) = 6 * Len(screen)
  BY <1>6, IsASeq, LenProperties
<1>8. ASSUME NEW s \in 0 .. Len(screen) - 1, NEW i \in 1 .. 6
      PROVE  Bytes[6 * s + i] = Part(screen[s + 1])[i]
  <2>1. 6 * s + i \in 1 .. 6 * Len(screen) /\ (6 * s + i - 1) \div 6 = s /\ (6 * s + i - 1) % 6 = i - 1
    OBVIOUS
  <2> DEFINE k == 6 * s + i
  <2>2. Bytes[k] = Part(screen[(k - 1) \div 6 + 1])[((k - 1) % 6) + 1]
    BY <2>1, <1>4
  <2>3. (k - 1) \div 6 + 1 = s + 1 /\ ((k - 1) % 6) + 1 = i
    BY <2>1
  <2> HIDE DEF k
  <2>4. Bytes[k] = Part(screen[s + 1])[i]
    BY <2>2, <2>3
  <2> QED
    BY <2>4 DEF k
<1>9. ASSUME NEW s \in 0 .. Len(screen) - 1
      PROVE  /\ Bytes[6 * s + 1] = "--" /\ Bytes[6 * s + 2] = "ff" /\ Bytes[6 * s + 3] = "d8"
             /\ Bytes[6 * s + 4] = screen[s + 1]
             /\ Bytes[6 * s + 5] = "ff" /\ Bytes[6 * s + 6] = "d9"
  <2>1. \A i \in 1 .. 6 : Bytes[6 * s + i] = Part(screen[s + 1])[i]
    BY <1>8
  <2> QED
    BY <2>1, <1>1
<1> QED
  BY <1>7, <1>9

\* A marker of two bytes (mjpeg-decoder.ts:11-12).
LEMMA MarksAre ==
    ASSUME NEW S, NEW q \in Seq(S), NEW a, NEW b
    PROVE  Marks(q, <<a, b>>) = {i \in 0 .. Len(q) - 2 : q[i + 1] = a /\ q[i + 2] = b}
<1>1. ASSUME NEW i \in 0 .. Len(q) - 2
      PROVE  SubSeq(q, i + 1, i + 2) = <<a, b>> <=> q[i + 1] = a /\ q[i + 2] = b
  <2> DEFINE u == SubSeq(q, i + 1, i + 2)
  <2>1. u \in Seq(S) /\ Len(u) = 2 /\ \A k \in 1 .. 2 : u[k] = q[i + k]
    <3>1. i + 1 \in 1 .. Len(q) + 1 /\ i + 2 \in i .. Len(q)
      OBVIOUS
    <3>2. /\ u \in Seq(S) /\ Len(u) = 2
          /\ \A k \in 1 .. (i + 2) - (i + 1) + 1 : u[k] = q[(i + 1) + k - 1]
      BY <3>1, SubSeqProperties
    <3> QED
      BY <3>2
  <2> HIDE DEF u
  <2>3. u[1] = q[i + 1] /\ u[2] = q[i + 2]
    BY <2>1
  <2>2. u = <<q[i + 1], q[i + 2]>>
    BY <2>1, <2>3
  <2> USE DEF u
  <2> QED
    BY <2>2
<1> QED
  BY <1>1 DEF Marks

\* The bytes of a picture (mjpeg-decoder.ts:11-12).
LEMMA JpegIs == \A p : Jpeg(p) = <<"ff", "d8", p, "ff", "d9">>
<1> TAKE p
<1> DEFINE q == Jpeg(p)
<1>1. /\ Len(q) = 5 /\ q[1] = "ff" /\ q[2] = "d8" /\ q[3] = p /\ q[4] = "ff" /\ q[5] = "d9"
      /\ q \in Seq({"ff", "d8", p, "d9"})
  BY DEF Jpeg, SOI, EOI
<1> HIDE DEF q
<1>2. q = <<"ff", "d8", p, "ff", "d9">>
  BY <1>1
<1> QED
  BY <1>2 DEF q

\* What is behind s pictures (mjpeg-decoder.ts:127-136).
LEMMA RestIs ==
    ASSUME screen \in Seq(Pictures), NEW s \in Nat, NEW m \in 6 * s .. 6 * Len(screen)
    PROVE  /\ Rest(s, m) \in Seq(Byte) /\ Len(Rest(s, m)) = m - 6 * s
           /\ \A i \in 1 .. m - 6 * s : Rest(s, m)[i] = Bytes[6 * s + i]
<1>1. Bytes \in Seq(Byte) /\ Len(Bytes) = 6 * Len(screen)
  BY BytesAre
<1> QED
  BY <1>1, SubSeqProperties DEF Rest, PartLength

-----------------------------------------------------------------------------
(* What the decoder finds.                                                 *)

\* The bytes of the next picture, as far as they are there
\* (mjpeg-decoder.ts:127-136).
LEMMA RestStarts ==
    ASSUME screen \in Seq(Pictures), NEW s \in Nat, NEW m \in 6 * s .. 6 * Len(screen)
    PROVE  /\ m >= 6 * s + 1 => Rest(s, m)[1] = "--"
           /\ m >= 6 * s + 3 => Rest(s, m)[2] = "ff" /\ Rest(s, m)[3] = "d8"
           /\ m >= 6 * s + 4 => Rest(s, m)[4] \in Pictures
           /\ m >= 6 * s + 6 => Rest(s, m)[5] = "ff" /\ Rest(s, m)[6] = "d9"
           /\ m >= 6 * s + 6 => Rest(s, m)[4] = screen[s + 1]
<1>1. CASE m = 6 * s
  BY <1>1
<1>2. CASE m > 6 * s
  <2> DEFINE rest == Rest(s, m)
  <2>1. s \in 0 .. Len(screen) - 1
    BY <1>2
  <2>2. \A i \in 1 .. m - 6 * s : rest[i] = Bytes[6 * s + i]
    BY RestIs
  <2>3. /\ Bytes[6 * s + 1] = "--" /\ Bytes[6 * s + 2] = "ff" /\ Bytes[6 * s + 3] = "d8"
        /\ Bytes[6 * s + 4] = screen[s + 1]
        /\ Bytes[6 * s + 5] = "ff" /\ Bytes[6 * s + 6] = "d9"
    BY <2>1, BytesAre
  <2>4. screen[s + 1] \in Pictures
    BY <2>1
  <2> HIDE DEF rest
  <2>5. /\ m >= 6 * s + 1 => rest[1] = "--"
        /\ m >= 6 * s + 3 => rest[2] = "ff" /\ rest[3] = "d8"
        /\ m >= 6 * s + 4 => rest[4] = screen[s + 1]
        /\ m >= 6 * s + 6 => rest[5] = "ff" /\ rest[6] = "d9"
    BY <2>2, <2>3
  <2> QED
    BY <2>4, <2>5 DEF rest
<1> QED
  BY <1>1, <1>2

\* The first marker is the one of the next picture, as soon as it is there
\* (mjpeg-decoder.ts:120-122).
LEMMA StartFound ==
    ASSUME screen \in Seq(Pictures), NEW s \in Nat, NEW m \in 6 * s .. 6 * Len(screen)
    PROVE  IndexOf(Rest(s, m), SOI, 0) = IF m >= 6 * s + 3 THEN 1 ELSE EOF
<1> DEFINE found == {i \in Marks(Rest(s, m), SOI) : i >= 0}
<1>1. found = {i \in 0 .. m - 6 * s - 2 : Rest(s, m)[i + 1] = "ff" /\ Rest(s, m)[i + 2] = "d8"}
  <2>1. Rest(s, m) \in Seq(Byte) /\ Len(Rest(s, m)) = m - 6 * s
    BY RestIs
  <2>2. Marks(Rest(s, m), SOI) =
          {i \in 0 .. Len(Rest(s, m)) - 2 : Rest(s, m)[i + 1] = "ff" /\ Rest(s, m)[i + 2] = "d8"}
    BY <2>1, MarksAre DEF SOI
  <2> QED
    BY <2>1, <2>2
<1>3. m >= 6 * s + 1 => Rest(s, m)[1] # "ff"
  BY RestStarts
<1>4. m >= 6 * s + 3 => Rest(s, m)[2] = "ff" /\ Rest(s, m)[3] = "d8"
  BY RestStarts
<1>5. CASE m >= 6 * s + 3
  <2>1. 1 \in found /\ \A i \in found : i \in Int /\ 1 <= i
    BY <1>1, <1>3, <1>4, <1>5
  <2>2. Min(found) = 1
    BY <2>1 DEF Min
  <2> QED
    BY <2>1, <2>2, <1>5 DEF IndexOf
<1>6. CASE m < 6 * s + 3
  <2>1. found = {}
    BY <1>1, <1>3, <1>6
  <2> QED
    BY <2>1, <1>6 DEF IndexOf
<1> QED
  BY <1>5, <1>6

\* So is the first one behind it (mjpeg-decoder.ts:124-127).
LEMMA EndFound ==
    ASSUME screen \in Seq(Pictures), NEW s \in Nat, NEW m \in 6 * s + 3 .. 6 * Len(screen)
    PROVE  IndexOf(Rest(s, m), EOI, 1 + Len(SOI)) = IF m >= 6 * s + 6 THEN 4 ELSE EOF
<1> DEFINE found == {i \in Marks(Rest(s, m), EOI) : i >= 1 + Len(SOI)}
<1>1. found = {i \in 3 .. m - 6 * s - 2 : Rest(s, m)[i + 1] = "ff" /\ Rest(s, m)[i + 2] = "d9"}
  <2>1. Marks(Rest(s, m), EOI) =
          {i \in 0 .. m - 6 * s - 2 : Rest(s, m)[i + 1] = "ff" /\ Rest(s, m)[i + 2] = "d9"}
    <3>1. Rest(s, m) \in Seq(Byte) /\ Len(Rest(s, m)) = m - 6 * s
      BY RestIs
    <3>2. Marks(Rest(s, m), EOI) =
            {i \in 0 .. Len(Rest(s, m)) - 2 : Rest(s, m)[i + 1] = "ff" /\ Rest(s, m)[i + 2] = "d9"}
      BY <3>1, MarksAre DEF EOI
    <3> QED
      BY <3>1, <3>2
  <2>2. Len(SOI) = 2
    BY DEF SOI
  <2> QED
    BY <2>1, <2>2
<1>2. m \in 6 * s .. 6 * Len(screen)
  OBVIOUS
<1>3. m >= 6 * s + 4 => Rest(s, m)[4] # "ff"
  BY <1>2, RestStarts, DecoderAssumption
<1>4. m >= 6 * s + 6 => Rest(s, m)[5] = "ff" /\ Rest(s, m)[6] = "d9"
  BY <1>2, RestStarts
<1>5. CASE m >= 6 * s + 6
  <2>1. 4 \in found /\ \A i \in found : i \in Int /\ 4 <= i
    BY <1>1, <1>3, <1>4, <1>5
  <2>2. Min(found) = 4
    BY <2>1 DEF Min
  <2> QED
    BY <2>1, <2>2, <1>5 DEF IndexOf
<1>6. CASE m < 6 * s + 6
  <2>1. found = {}
    BY <1>1, <1>3, <1>6
  <2> QED
    BY <2>1, <1>6 DEF IndexOf
<1> QED
  BY <1>5, <1>6

\* A picture is complete with its sixth byte (mjpeg-decoder.ts:127).
LEMMA CompleteIs ==
    ASSUME screen \in Seq(Pictures), NEW s \in Nat, NEW m \in 6 * s .. 6 * Len(screen)
    PROVE  Complete(Rest(s, m)) = m \div 6 - s
<1> DEFINE n == m \div 6 - s
           marks == {i \in 0 .. m - 6 * s - 2 : Rest(s, m)[i + 1] = "ff" /\ Rest(s, m)[i + 2] = "d9"}
           at == [j \in 1 .. n |-> 6 * j - 2]
<1>0. Rest(s, m) \in Seq(Byte) /\ Len(Rest(s, m)) = m - 6 * s
  BY RestIs
<1>1. Marks(Rest(s, m), EOI) = marks
  <2>1. Marks(Rest(s, m), EOI) =
          {i \in 0 .. Len(Rest(s, m)) - 2 : Rest(s, m)[i + 1] = "ff" /\ Rest(s, m)[i + 2] = "d9"}
    BY <1>0, MarksAre DEF EOI
  <2> QED
    BY <1>0, <2>1
<1>2. n \in Nat /\ \A j \in 1 .. n : 6 * j <= m - 6 * s
  OBVIOUS
<1>3. \A j \in 1 .. n : at[j] \in marks
  <2> TAKE j \in 1 .. n
  <2>1. s + j - 1 \in 0 .. Len(screen) - 1 /\ 6 * j <= m - 6 * s
    BY <1>2
  <2>2. Rest(s, m)[6 * j - 1] = Bytes[6 * (s + j - 1) + 5]
    <3>1. 6 * j - 1 \in 1 .. m - 6 * s /\ 6 * s + (6 * j - 1) = 6 * (s + j - 1) + 5
      BY <2>1
    <3> QED
      BY <3>1, RestIs
  <2>3. Rest(s, m)[6 * j] = Bytes[6 * (s + j - 1) + 6]
    <3>1. 6 * j \in 1 .. m - 6 * s /\ 6 * s + 6 * j = 6 * (s + j - 1) + 6
      BY <2>1
    <3> QED
      BY <3>1, RestIs
  <2>4. Rest(s, m)[6 * j - 1] = "ff" /\ Rest(s, m)[6 * j] = "d9"
    BY <2>1, <2>2, <2>3, BytesAre
  <2>5. at[j] = 6 * j - 2 /\ 6 * j - 2 \in 0 .. m - 6 * s - 2
    BY <2>1
  <2> QED
    BY <2>4, <2>5
<1>4. \A i \in marks : \E j \in 1 .. n : at[j] = i
  <2> TAKE i \in marks
  <2> DEFINE j == i \div 6
             k == i % 6
  <2>1. j \in Nat /\ k \in 0 .. 5 /\ i = 6 * j + k /\ i + 2 \in 1 .. m - 6 * s
    OBVIOUS
  <2>2. s + j \in 0 .. Len(screen) - 1
    BY <2>1
  <2>3. Bytes[6 * (s + j) + k + 1] = "ff"
    <3>1. i + 1 \in 1 .. m - 6 * s /\ 6 * s + (i + 1) = 6 * (s + j) + k + 1
      BY <2>1
    <3> QED
      BY <3>1, RestIs
  <2>4. Rest(s, m)[i + 2] = "d9" /\ Rest(s, m)[i + 2] = Bytes[6 * s + (i + 2)]
    BY <2>1, RestIs
  <2>5. k # 0 /\ k # 2 /\ k # 3 /\ k # 5
    <3> DEFINE t == s + j
    <3>1. /\ Bytes[6 * t + 1] = "--" /\ Bytes[6 * t + 3] = "d8"
          /\ Bytes[6 * t + 4] = screen[t + 1] /\ Bytes[6 * t + 6] = "d9"
      BY <2>2, BytesAre
    <3>2. screen[t + 1] # "ff"
      <4>1. screen[t + 1] \in Pictures
        BY <2>2
      <4> QED
        BY <4>1, DecoderAssumption
    <3>3. Bytes[6 * t + k + 1] = "ff" /\ k \in 0 .. 5 /\ t \in Int
      BY <2>1, <2>3
    <3> HIDE DEF t, k
    <3> QED
      BY <3>1, <3>2, <3>3
  <2>6. k # 1
    <3> SUFFICES ASSUME k = 1 PROVE FALSE
      OBVIOUS
    <3>1. 6 * s + (i + 2) = 6 * (s + j) + 3
      BY <2>1
    <3> QED
      BY <3>1, <2>2, <2>4, BytesAre
  <2>7. j + 1 \in 1 .. n /\ 6 * (j + 1) - 2 = i
    <3>1. k = 4
      BY <2>1, <2>5, <2>6
    <3>2. 6 * (j + 1) <= m - 6 * s
      BY <3>1, <2>1
    <3> QED
      BY <3>1, <3>2, <2>1
  <2> QED
    BY <2>7
<1>5. at \in Bijection(1 .. n, marks)
  <2>1. at \in [1 .. n -> marks]
    BY <1>3
  <2>2. \A a, b \in 1 .. n : at[a] = at[b] => a = b
    OBVIOUS
  <2> HIDE DEF at, marks
  <2> QED
    BY <2>1, <2>2, <1>4 DEF Bijection, Injection, Surjection, IsInjective
<1> QED
  BY <1>1, <1>2, <1>5, FS_CountingElements DEF ExistsBijection, Complete

-----------------------------------------------------------------------------

(* Counting changes.                                                       *)

Different(j) == j = 1 \/ screen[j] # screen[j - 1]

\* One more picture counts if it differs (mjpeg-decoder.ts:161-167).
LEMMA OneMoreChange ==
    ASSUME NEW i \in Nat
    PROVE  /\ Changes(i) \in Nat
           /\ Changes(i + 1) = IF Different(i + 1) THEN Changes(i) + 1 ELSE Changes(i)
<1> DEFINE upTo(k) == {j \in 1 .. k : j = 1 \/ screen[j] # screen[j - 1]}
<1>1. IsFiniteSet(upTo(i)) /\ Cardinality(upTo(i)) \in Nat
  <2>1. IsFiniteSet(1 .. i) /\ upTo(i) \in SUBSET (1 .. i)
    BY FS_Interval
  <2> HIDE DEF upTo
  <2>2. IsFiniteSet(upTo(i))
    BY <2>1, FS_Subset
  <2> QED
    BY <2>2, FS_CardinalityType
<1>2. upTo(i + 1) = IF Different(i + 1) THEN upTo(i) \cup {i + 1} ELSE upTo(i)
  BY DEF Different
<1>3. i + 1 \notin upTo(i)
  OBVIOUS
<1> HIDE DEF upTo
<1>4. Cardinality(upTo(i + 1)) = IF Different(i + 1) THEN Cardinality(upTo(i)) + 1 ELSE Cardinality(upTo(i))
  BY <1>1, <1>2, <1>3, FS_AddElement
<1> QED
  BY <1>1, <1>4 DEF upTo, Changes

\* Before the first picture there is none (mjpeg-decoder.ts:44-55).
LEMMA NoChange == Changes(0) = 0
<1>1. {j \in 1 .. 0 : j = 1 \/ screen[j] # screen[j - 1]} = {}
  OBVIOUS
<1> QED
  BY <1>1, FS_EmptySet DEF Changes

\* Each picture has its place among the events (mjpeg-decoder.ts:161-167).
LEMMA ChangesGrow ==
    ASSUME NEW n \in Nat, NEW i \in 1 .. n
    PROVE  Changes(i) \in 1 .. Changes(n)
<1> DEFINE upTo(k) == {j \in 1 .. k : j = 1 \/ screen[j] # screen[j - 1]}
<1>1. upTo(i) \in SUBSET upTo(n) /\ {1} \in SUBSET upTo(i) /\ upTo(n) \in SUBSET (1 .. n)
  OBVIOUS
<1>2. IsFiniteSet(1 .. n)
  BY FS_Interval
<1> HIDE DEF upTo
<1>3. IsFiniteSet(upTo(n))
  BY <1>1, <1>2, FS_Subset
<1>4. IsFiniteSet(upTo(i)) /\ Cardinality(upTo(i)) <= Cardinality(upTo(n))
  BY <1>1, <1>3, FS_Subset
<1>5. Cardinality({1}) = 1 /\ Cardinality({1}) <= Cardinality(upTo(i))
  BY <1>1, <1>4, FS_Subset, FS_Singleton
<1>6. Cardinality(upTo(i)) \in Nat /\ Cardinality(upTo(n)) \in Nat
  BY <1>3, <1>4, FS_CardinalityType
<1> QED
  BY <1>4, <1>5, <1>6 DEF upTo, Changes

-----------------------------------------------------------------------------
(* The steps.                                                              *)

\* One chunk finds the next picture if it is complete (mjpeg-decoder.ts:120-138).
LEMMA FindIs ==
    ASSUME Shape, DataIsRest, NEW m \in sent .. 6 * Len(screen), Find(Rest(seq, m))
    PROVE  /\ imageEnd' = EOF
           /\ \/ /\ m >= 6 * seq + 6
                 /\ OnFrameReady(Jpeg(screen[seq + 1]))
                 /\ data' = Rest(seq + 1, m) /\ imageStart' = EOF
              \/ /\ m < 6 * seq + 6
                 /\ data' = Rest(seq, m) /\ UNCHANGED <<lastFrame, frames, seq>>
                 /\ imageStart' = IF m >= 6 * seq + 3 THEN 1 ELSE EOF
<1> DEFINE bytes == Rest(seq, m)
           start == IF imageStart = EOF THEN IndexOf(bytes, SOI, 0) ELSE imageStart
           end == IF start >= 0 /\ imageEnd = EOF
                  THEN IndexOf(bytes, EOI, start + Len(SOI)) ELSE imageEnd
<1>1. screen \in Seq(Pictures) /\ seq \in Nat /\ m \in 6 * seq .. 6 * Len(screen)
  BY DEF Shape, PartLength
<1>2. start = IF m >= 6 * seq + 3 THEN 1 ELSE EOF
  <2>1. IndexOf(bytes, SOI, 0) = IF m >= 6 * seq + 3 THEN 1 ELSE EOF
    BY <1>1, StartFound
  <2> HIDE DEF bytes
  <2> QED
    BY <2>1 DEF DataIsRest, PartLength, Shape, EOF
<1>3. end = IF m >= 6 * seq + 6 THEN 4 ELSE EOF
  <2>1. CASE m >= 6 * seq + 3
    <3>1. IndexOf(bytes, EOI, 1 + Len(SOI)) = IF m >= 6 * seq + 6 THEN 4 ELSE EOF
      BY <1>1, <2>1, EndFound
    <3>2. start = 1 /\ imageEnd = EOF
      BY <1>2, <2>1 DEF DataIsRest
    <3> HIDE DEF bytes, start
    <3> QED
      BY <3>1, <3>2
  <2>2. CASE m < 6 * seq + 3
    <3>1. start = -1 /\ imageEnd = EOF
      BY <1>2, <2>2, <1>1 DEF DataIsRest, EOF
    <3> HIDE DEF bytes, start
    <3> QED
      BY <3>1, <2>2, <1>1
  <2> QED
    BY <2>1, <2>2, <1>1
<1>4. bytes \in Seq(Byte) /\ Len(bytes) = m - 6 * seq
  BY <1>1, RestIs
<1>5. IF start >= 0 /\ end >= start
      THEN /\ OnFrameReady(SubSeq(bytes, start + 1, end + Len(EOI)))
           /\ data' = SubSeq(bytes, end + Len(EOI) + 1, Len(bytes))
           /\ imageStart' = EOF /\ imageEnd' = EOF
      ELSE /\ data' = bytes
           /\ imageStart' = start /\ imageEnd' = end
           /\ UNCHANGED <<lastFrame, frames, seq>>
  BY DEF Find
<1>6. Len(EOI) = 2
  BY DEF EOI
<1>7. CASE m >= 6 * seq + 6
  <2>1. start = 1 /\ end = 4
    BY <1>1, <1>2, <1>3, <1>7
  <2>2. /\ OnFrameReady(SubSeq(bytes, 2, 6))
        /\ data' = SubSeq(bytes, 7, Len(bytes)) /\ imageStart' = EOF /\ imageEnd' = EOF
    <3> HIDE DEF bytes, start, end
    <3> QED
      BY <1>5, <1>6, <2>1
  <2>3. SubSeq(bytes, 2, 6) = Jpeg(screen[seq + 1])
    <3>1. /\ bytes[2] = "ff" /\ bytes[3] = "d8" /\ bytes[4] = screen[seq + 1]
          /\ bytes[5] = "ff" /\ bytes[6] = "d9"
      BY <1>1, <1>7, RestStarts
    <3> DEFINE picture == SubSeq(bytes, 2, 6)
    <3>2. /\ picture \in Seq(Byte) /\ Len(picture) = 5
          /\ \A i \in 1 .. 5 : picture[i] = bytes[i + 1]
      <4> HIDE DEF bytes
      <4>1. \A i \in 2 .. 6 : bytes[i] \in Byte
        BY <1>1, <1>4, <1>7
      <4>2. /\ picture \in Seq(Byte) /\ Len(picture) = 5
            /\ \A i \in 1 .. 6 - 2 + 1 : picture[i] = bytes[2 + i - 1]
        BY <4>1, SubSeqProperties
      <4> QED
        BY <4>2
    <3> HIDE DEF picture
    <3>3. picture = <<"ff", "d8", screen[seq + 1], "ff", "d9">>
      BY <3>1, <3>2
    <3>4. Jpeg(screen[seq + 1]) = <<"ff", "d8", screen[seq + 1], "ff", "d9">>
      BY JpegIs
    <3> QED
      BY <3>3, <3>4 DEF picture
  <2>4. SubSeq(bytes, 7, Len(bytes)) = Rest(seq + 1, m)
    <3>1. Bytes \in Seq(Byte) /\ Len(Bytes) = 6 * Len(screen)
      BY <1>1, BytesAre
    <3>2. SubSeq(SubSeq(Bytes, 6 * seq + 1, m), 7, m - 6 * seq)
            = SubSeq(Bytes, (6 * seq + 1) + 7 - 1, (6 * seq + 1) + (m - 6 * seq) - 1)
      BY <1>1, <1>7, <3>1, SubSeqOfSubSeq
    <3>3. (6 * seq + 1) + 7 - 1 = 6 * (seq + 1) + 1 /\ (6 * seq + 1) + (m - 6 * seq) - 1 = m
      BY <1>1
    <3> QED
      BY <1>4, <3>2, <3>3 DEF Rest, PartLength
  <2> QED
    BY <1>7, <2>2, <2>3, <2>4
<1>8. CASE m < 6 * seq + 6
  <2>1. end = -1 /\ start \in {-1, 1}
    BY <1>1, <1>2, <1>3, <1>8 DEF EOF
  <2>2. /\ data' = bytes /\ imageStart' = start /\ imageEnd' = end
        /\ UNCHANGED <<lastFrame, frames, seq>>
    <3> HIDE DEF bytes, start, end
    <3> QED
      BY <1>5, <2>1
  <2> QED
    BY <1>8, <1>2, <1>3, <1>1, <2>2
<1> QED
  BY <1>1, <1>7, <1>8

\* What arrives goes behind what is there (mjpeg-decoder.ts:114).
LEMMA ChunkIs ==
    ASSUME Shape, DataIsRest, NEW n \in Nat, sent + n <= 6 * Len(screen)
    PROVE  data \o SubSeq(Bytes, sent + 1, sent + n) = Rest(seq, sent + n)
<1>1. Bytes \in Seq(Byte) /\ Len(Bytes) = 6 * Len(screen)
  BY BytesAre DEF Shape
<1>2. /\ 6 * seq + 1 \in 1 .. Len(Bytes) + 1 /\ sent \in (6 * seq + 1) - 1 .. Len(Bytes)
      /\ sent + n \in sent .. Len(Bytes)
  BY <1>1 DEF Shape, PartLength
<1>3. SubSeq(Bytes, 6 * seq + 1, sent) \o SubSeq(Bytes, sent + 1, sent + n)
        = SubSeq(Bytes, 6 * seq + 1, sent + n)
  BY <1>1, <1>2, ConcatAdjacentSubSeq
<1> QED
  BY <1>3 DEF DataIsRest, Rest, PartLength

\* How many pictures a chunk completes (mjpeg-decoder.ts:110-139).
LEMMA EndsAre ==
    ASSUME screen \in Seq(Pictures), NEW m \in 0 .. 6 * Len(screen)
    PROVE  Complete(SubSeq(Bytes, 1, m)) = m \div 6
<1>1. Rest(0, m) = SubSeq(Bytes, 1, m)
  BY DEF Rest, PartLength
<1>2. Complete(Rest(0, m)) = m \div 6 - 0
  BY CompleteIs
<1>3. m \div 6 - 0 = m \div 6
  OBVIOUS
<1> QED
  BY <1>1, <1>2, <1>3

\* The smaller of two numbers (mjpeg-decoder.ts:162-163).
LEMMA SmallerOfTwo ==
    ASSUME NEW a \in Int, NEW b \in Int
    PROVE  Min({a, b}) = IF a <= b THEN a ELSE b
<1>1. PICK c \in {a, b} : \A y \in {a, b} : c <= y
  OBVIOUS
<1>2. Min({a, b}) \in {a, b} /\ \A y \in {a, b} : Min({a, b}) <= y
  BY <1>1 DEF Min
<1> QED
  BY <1>2

\* A picture makes the same number of events as every other (mjpeg-decoder.ts:162).
LEMMA EventsAre ==
    /\ EventsPerPicture \in Nat
    /\ \A k \in 1 .. EventsPerPicture :
        (k - 1) * FRAME_SLICE \in 0 .. 4 /\ k * FRAME_SLICE = (k - 1) * FRAME_SLICE + FRAME_SLICE
<1> DEFINE F == FRAME_SLICE
           K == (4 + F) \div F
<1>1. F \in Nat /\ F > 0
  BY DecoderAssumption
<1>2. EventsPerPicture = K
  BY <1>1 DEF EventsPerPicture, PartLength
<1> HIDE DEF F
<1>3. K \in Nat /\ K * F <= 4 + F
  BY <1>1
<1> HIDE DEF K
<1>4. ASSUME NEW k \in 1 .. K
      PROVE  (k - 1) * F \in 0 .. 4 /\ k * F = (k - 1) * F + F
  <2>1. k * F <= K * F
    BY <1>1, <1>3
  <2>2. k * F = (k - 1) * F + F
    BY <1>1, <1>3
  <2>3. (k - 1) * F \in Nat
    BY <1>1, <1>3
  <2> QED
    BY <1>1, <1>3, <2>1, <2>2, <2>3
<1> QED
  BY <1>2, <1>3, <1>4 DEF F

\* The events of a picture carry its bytes, in order (mjpeg-decoder.ts:161-165).
LEMMA SlicesAre ==
    ASSUME NEW p \in Pictures
    PROVE  /\ Slices(Jpeg(p)) \in Seq(PictureSlices)
           /\ Len(Slices(Jpeg(p))) = EventsPerPicture
           /\ \A k \in 1 .. EventsPerPicture :
                IsSlice(Slices(Jpeg(p))[k], Jpeg(p), k)
<1> DEFINE K == EventsPerPicture
           F == FRAME_SLICE
           J == Jpeg(p)
           slice(k) == SubSeq(J, (k - 1) * F + 1, Min({k * F, 5}))
<1>1. F \in Nat /\ F > 0 /\ K \in Nat
  BY EventsAre, DecoderAssumption
<1>2. Len(J) = 5 /\ \A i \in 1 .. 5 : J[i] \in Byte
  BY JpegIs DEF Byte
<1>3. Slices(J) = [k \in 1 .. K |-> slice(k)]
  <2>1. (Len(J) + FRAME_SLICE - 1) \div FRAME_SLICE = K
    <3>1. Len(J) + FRAME_SLICE - 1 = PartLength + FRAME_SLICE - 2
      BY <1>1, <1>2 DEF PartLength
    <3> QED
      BY <3>1 DEF EventsPerPicture
  <2> HIDE DEF K, J
  <2> QED
    BY <1>2, <2>1 DEF Slices
<1>4. ASSUME NEW k \in 1 .. K
      PROVE  slice(k) \in PictureSlices /\ IsSlice(slice(k), J, k)
  <2> DEFINE f == (k - 1) * F
             n == Min({f + F, 5})
             u == SubSeq(J, f + 1, n)
  <2>1. f \in 0 .. 4 /\ k * F = f + F
    BY EventsAre
  <2>2. slice(k) = u
    BY <2>1
  <2>3. Slices(J)[k] = slice(k)
    BY <1>3
  <2>4. slice(k) \in PictureSlices
    <3>1. Slices(Jpeg(p))[k] \in {Slices(Jpeg(q))[j] : q \in Pictures, j \in 1 .. EventsPerPicture}
      OBVIOUS
    <3> HIDE DEF slice
    <3> QED
      BY <2>3, <3>1 DEF PictureSlices
  <2> HIDE DEF f, J
  <2>5. n = (IF f + F <= 5 THEN f + F ELSE 5) /\ Min({F, 5 - f}) = IF F <= 5 - f THEN F ELSE 5 - f
    BY <1>1, <2>1, SmallerOfTwo
  <2> HIDE DEF n
  <2>6. n \in f + 1 .. 5 /\ n - f = Min({F, 5 - f})
    BY <1>1, <2>1, <2>5
  <2>7. f + 1 \in Int /\ n \in Int /\ \A i \in f + 1 .. n : J[i] \in Byte
    BY <1>2, <2>1, <2>6
  <2>8. /\ Len(u) = IF f + 1 <= n THEN n - (f + 1) + 1 ELSE 0
        /\ \A b \in 1 .. n - (f + 1) + 1 : u[b] = J[(f + 1) + b - 1]
    BY <2>7, SubSeqProperties
  <2> HIDE DEF u
  <2>9. Len(u) = n - f /\ \A b \in 1 .. n - f : u[b] = J[f + b]
    <3>1. f \in Int /\ n \in Int /\ f + 1 <= n /\ n - (f + 1) + 1 = n - f
      BY <2>1, <2>6
    <3>2. Len(u) = n - f /\ \A b \in 1 .. n - f : u[b] = J[(f + 1) + b - 1]
      BY <2>8, <3>1
    <3>3. \A b \in 1 .. n - f : (f + 1) + b - 1 = f + b
      BY <3>1
    <3> QED
      BY <3>2, <3>3
  <2>10. IsSlice(u, J, k)
    BY <1>2, <2>6, <2>9 DEF IsSlice, f
  <2> QED
    BY <2>2, <2>4, <2>10
<1> HIDE DEF slice
<1>5. Slices(J) \in Seq(PictureSlices)
  <2>1. Slices(J) \in [1 .. K -> PictureSlices]
    BY <1>3, <1>4
  <2> QED
    BY <1>1, <2>1
<1>6. Len(Slices(J)) = K /\ \A k \in 1 .. K : Slices(J)[k] = slice(k)
  BY <1>1, <1>3
<1> QED
  BY <1>4, <1>5, <1>6

\* The events stay (mjpeg-decoder.ts:115-119).
LEMMA FramesStay ==
    ASSUME FramesAreWhole, UNCHANGED <<screen, frames, seq>>
    PROVE  FramesAreWhole'
<1>1. EventsPerPicture' = EventsPerPicture /\ \A i : Changes(i)' = Changes(i)
  BY DEF EventsPerPicture, Changes
<1>2. screen' = screen /\ frames' = frames /\ seq' = seq
  OBVIOUS
<1> QED
  BY <1>1, <1>2 DEF FramesAreWhole

\* Where the events of a picture stand (mjpeg-decoder.ts:161-165).
LEMMA Places ==
    ASSUME NEW c \in Nat
    PROVE  /\ EventsPerPicture * c \in Nat
           /\ EventsPerPicture * (c + 1) = EventsPerPicture * c + EventsPerPicture
           /\ \A a \in 1 .. c, k \in 1 .. EventsPerPicture :
                EventsPerPicture * (a - 1) + k \in 1 .. EventsPerPicture * c
<1> DEFINE K == EventsPerPicture
<1>1. K \in Nat
  BY EventsAre
<1> HIDE DEF K
<1>2. K * c \in Nat /\ K * (c + 1) = K * c + K
  BY <1>1
<1>3. ASSUME NEW a \in 1 .. c, NEW k \in 1 .. K
      PROVE  K * (a - 1) + k \in 1 .. K * c
  <2>1. K * (a - 1) + K <= K * c /\ K * (a - 1) \in Nat
    <3>1. K * (a - 1) + K = K * a /\ K * (a - 1) \in Nat
      BY <1>1
    <3>2. K * a + K * (c - a) = K * c /\ K * (c - a) \in Nat /\ K * a \in Nat
      BY <1>1
    <3> QED
      BY <1>1, <1>2, <3>1, <3>2
  <2> QED
    BY <1>1, <1>2, <2>1
<1> QED
  BY <1>2, <1>3 DEF K

\* A picture that is found makes the next events, or repeats the last one
\* (mjpeg-decoder.ts:150-174).
LEMMA FrameStep ==
    ASSUME Shape, FramesAreWhole, 6 * seq + 6 <= 6 * Len(screen), screen' = screen,
           OnFrameReady(Jpeg(screen[seq + 1]))
    PROVE  /\ seq' = seq + 1
           /\ frames' \in Seq(PictureSlices)
           /\ lastFrame' = Jpeg(screen[seq + 1])
           /\ FramesAreWhole'
<1> DEFINE K == EventsPerPicture
           next == Jpeg(screen[seq + 1])
           Carries(event, p, k) == IsSlice(event, Jpeg(p), k)
<1>1. seq \in Nat /\ screen \in Seq(Pictures) /\ seq + 1 \in 1 .. Len(screen)
  BY DEF Shape
<1>2. screen[seq + 1] \in Pictures
  BY <1>1
<1>3. \A i \in Nat : Changes(i)' = Changes(i)
  BY DEF Changes
<1>4. seq' = seq + 1 /\ lastFrame' = next
  BY DEF OnFrameReady
<1>5. next = lastFrame <=> ~Different(seq + 1)
  <2>1. CASE seq = 0
    <3>1. next # <<>>
      BY JpegIs
    <3> QED
      BY <2>1, <3>1 DEF Shape, Different
  <2>2. CASE seq # 0
    <3>1. \A p, q : Jpeg(p) = Jpeg(q) => p = q
      BY JpegIs
    <3>2. lastFrame = Jpeg(screen[seq]) /\ seq + 1 # 1 /\ (seq + 1) - 1 = seq
      BY <2>2, <1>1 DEF Shape
    <3> QED
      BY <3>1, <3>2 DEF Different
  <2> QED
    BY <2>1, <2>2
<1>6. /\ frames \in Seq(PictureSlices) /\ Len(frames) = K * Changes(seq)
      /\ \A i \in 1 .. seq, k \in 1 .. K : Carries(frames[K * (Changes(i) - 1) + k], screen[i], k)
  BY DEF Shape, FramesAreWhole
<1>7. Changes(seq) \in Nat /\ K \in Nat
  BY <1>1, OneMoreChange, EventsAre
<1>8. \A i \in 1 .. seq : Changes(i) \in 1 .. Changes(seq)
  BY <1>1, ChangesGrow
<1>12. K' = K
  BY DEF EventsPerPicture
<1>9. ASSUME Len(frames') = K * Changes(seq + 1),
             \A i \in 1 .. seq + 1, k \in 1 .. K : Carries(frames'[K * (Changes(i) - 1) + k], screen[i], k)
      PROVE  FramesAreWhole'
  BY <1>1, <1>3, <1>4, <1>9, <1>12 DEF FramesAreWhole
<1>10. CASE Different(seq + 1)
  <2> DEFINE new == Slices(next)
             c == Changes(seq)
  <2>1. frames' = frames \o new
    BY <1>5, <1>10 DEF OnFrameReady
  <2>2. Changes(seq + 1) = c + 1
    BY <1>1, <1>10, OneMoreChange
  <2>3. /\ new \in Seq(PictureSlices) /\ Len(new) = K
        /\ \A k \in 1 .. K : Carries(new[k], screen[seq + 1], k)
    BY <1>2, SlicesAre
  <2>4. /\ K * c \in Nat /\ K * (c + 1) = K * c + K
        /\ \A a \in 1 .. c, k \in 1 .. K : K * (a - 1) + k \in 1 .. K * c
    BY <1>7, Places
  <2> HIDE DEF K, next, Carries, new, c
  <2>5. /\ frames' \in Seq(PictureSlices) /\ Len(frames') = K * c + K
        /\ \A i \in 1 .. K * c + K : frames'[i] = IF i <= K * c THEN frames[i] ELSE new[i - K * c]
    <3>1. Len(frames) = K * c
      BY <1>6 DEF c
    <3>2. /\ frames \o new \in Seq(PictureSlices) /\ Len(frames \o new) = Len(frames) + Len(new)
          /\ \A i \in 1 .. Len(frames) + Len(new) :
               (frames \o new)[i] = IF i <= Len(frames) THEN frames[i] ELSE new[i - Len(frames)]
      BY <1>6, <2>3, ConcatProperties
    <3> QED
      BY <2>1, <2>3, <3>1, <3>2
  <2>6. ASSUME NEW i \in 1 .. seq + 1, NEW k \in 1 .. K
        PROVE  Carries(frames'[K * (Changes(i) - 1) + k], screen[i], k)
    <3>1. CASE i = seq + 1
      <4>1. K * (Changes(i) - 1) + k = K * c + k
        BY <1>7, <2>2, <3>1 DEF c
      <4>2. frames'[K * c + k] = new[k]
        <5> DEFINE x == K * c
        <5>1. x \in Nat /\ frames'[x + k] = new[(x + k) - x] /\ (x + k) - x = k
          <6>1. x \in Nat /\ x + k \in 1 .. x + K /\ ~(x + k <= x) /\ (x + k) - x = k
            BY <1>7, <2>4
          <6> QED
            BY <2>5, <6>1
        <5> QED
          BY <5>1
      <4> QED
        BY <2>3, <3>1, <4>1, <4>2
    <3>2. CASE i \in 1 .. seq
      <4>1. Changes(i) \in 1 .. c
        BY <1>8, <3>2 DEF c
      <4>2. K * (Changes(i) - 1) + k \in 1 .. K * c
        BY <2>4, <4>1
      <4> DEFINE x == K * c
                 z == K * (Changes(i) - 1) + k
      <4>3. frames'[z] = frames[z]
        <5>1. x \in Nat /\ z \in 1 .. x /\ \A j \in 1 .. x + K : frames'[j] = IF j <= x THEN frames[j] ELSE new[j - x]
          BY <2>4, <2>5, <4>2
        <5> HIDE DEF x, z
        <5>2. z \in 1 .. x + K /\ z <= x
          BY <1>7, <5>1
        <5> QED
          BY <5>1, <5>2
      <4> QED
        BY <1>6, <3>2, <4>3
    <3> QED
      BY <3>1, <3>2, <1>1
  <2>7. Len(frames') = K * Changes(seq + 1)
    BY <2>2, <2>4, <2>5
  <2>8. FramesAreWhole'
    BY <1>9, <2>6, <2>7
  <2> QED
    BY <1>4, <2>5, <2>8 DEF next
<1>11. CASE ~Different(seq + 1)
  <2>1. frames' = frames
    BY <1>5, <1>11 DEF OnFrameReady
  <2>2. Changes(seq + 1) = Changes(seq)
    BY <1>1, <1>11, OneMoreChange
  <2>3. seq # 0 /\ screen[seq + 1] = screen[seq]
    BY <1>11, <1>1 DEF Different
  <2> HIDE DEF K, next, Carries
  <2>4. ASSUME NEW i \in 1 .. seq + 1, NEW k \in 1 .. K
        PROVE  Carries(frames'[K * (Changes(i) - 1) + k], screen[i], k)
    <3>1. CASE i = seq + 1
      <4>1. Carries(frames[K * (Changes(seq) - 1) + k], screen[seq], k)
        BY <1>1, <1>6, <2>3
      <4> QED
        BY <3>1, <4>1, <2>1, <2>2, <2>3
    <3>2. CASE i \in 1 .. seq
      BY <3>2, <1>6, <2>1
    <3> QED
      BY <3>1, <3>2, <1>1
  <2>5. FramesAreWhole'
    BY <1>6, <1>9, <2>1, <2>2, <2>4
  <2> QED
    BY <1>4, <1>6, <2>1, <2>5 DEF next
<1> QED
  BY <1>10, <1>11

\* Nothing has arrived yet (mjpeg-decoder.ts:44-55).
LEMMA InitInv == DecoderInit => IInv
<1> SUFFICES ASSUME DecoderInit PROVE IInv
  OBVIOUS
<1>1. /\ screen = <<>> /\ sent = 0 /\ seq = 0 /\ burst = 0 /\ mjpegRequest = "none"
      /\ data = <<>> /\ imageStart = EOF /\ imageEnd = EOF /\ lastFrame = <<>> /\ frames = <<>>
  BY DEF DecoderInit
<1>2. Shape
  BY <1>1 DEF Shape, PartLength
<1>3. DataIsRest
  BY <1>1, SubSeqEmpty DEF DataIsRest, Rest, PartLength
<1>4. FramesAreWhole
  <2>1. EventsPerPicture * 0 = 0
    BY EventsAre
  <2> QED
    BY <1>1, <2>1, NoChange DEF FramesAreWhole
<1>5. LagIsBurst
  BY <1>1 DEF LagIsBurst, PartLength
<1> QED
  BY <1>2, <1>3, <1>4, <1>5 DEF IInv

\* What WDA will send is settled before anything has arrived
\* (mjpeg-decoder.ts:57-66).
LEMMA StartStep == IInv /\ Start => IInv'
<1> SUFFICES ASSUME IInv, Start PROVE IInv'
  OBVIOUS
<1>1. /\ sent = 0 /\ seq = 0 /\ Shape /\ DataIsRest /\ FramesAreWhole /\ LagIsBurst
  BY DEF IInv, Shape, Start, PartLength
<1>2. /\ screen' \in Seq(Pictures) /\ mjpegRequest' = "sent"
      /\ UNCHANGED <<sent, data, imageStart, imageEnd, lastFrame, frames, seq, burst>>
  BY DecoderAssumption DEF Start, Unread
<1>3. Shape'
  BY <1>1, <1>2 DEF Shape, PartLength
<1>4. DataIsRest'
  <2>1. Rest(0, 0) = <<>> /\ Rest(0, 0)' = <<>>
    BY SubSeqEmpty DEF Rest, PartLength
  <2> QED
    BY <1>1, <1>2, <2>1 DEF DataIsRest, PartLength
<1>5. FramesAreWhole'
  <2>2. EventsPerPicture' = EventsPerPicture
    BY DEF EventsPerPicture
  <2>1. Changes(0) = 0 /\ Changes(0)' = 0
    <3>1. {j \in 1 .. 0 : j = 1 \/ screen'[j] # screen'[j - 1]} = {}
      OBVIOUS
    <3> QED
      BY <3>1, NoChange, FS_EmptySet DEF Changes
  <2> QED
    BY <1>1, <1>2, <2>1, <2>2 DEF FramesAreWhole
<1>6. LagIsBurst'
  BY <1>1, <1>2 DEF LagIsBurst, Shape, PartLength
<1> QED
  BY <1>3, <1>4, <1>5, <1>6 DEF IInv

\* What is not about the request stays (mjpeg-decoder.ts:66-83, 176-183).
LEMMA RequestStep ==
    ASSUME IInv, UNCHANGED <<screen, sent, data, imageStart, imageEnd, lastFrame, frames, seq, burst>>,
           mjpegRequest' = mjpegRequest \/ (mjpegRequest' # "none" /\ mjpegRequest' # "sent"),
           mjpegRequest = "aborted" => mjpegRequest' = "aborted"
    PROVE  IInv'
<1>1. Shape'
  BY DEF IInv, Shape
<1>2. DataIsRest'
  BY DEF IInv, DataIsRest, Rest, Bytes
<1>3. FramesAreWhole'
  BY FramesStay DEF IInv
<1>4. LagIsBurst'
  BY DEF IInv, LagIsBurst
<1> QED
  BY <1>1, <1>2, <1>3, <1>4 DEF IInv

\* A chunk is added to the data, and one picture at most taken from it
\* (mjpeg-decoder.ts:110-139).
LEMMA DataStep == IInv /\ OnDataReceived => IInv'
<1> SUFFICES ASSUME IInv, OnDataReceived PROVE IInv'
  OBVIOUS
<1>1. Shape /\ DataIsRest /\ FramesAreWhole /\ LagIsBurst
  BY DEF IInv
<1>2. screen' = screen /\ mjpegRequest = "open"
  BY DEF OnDataReceived
<1>3. Bytes' = Bytes /\ \A s, m : Rest(s, m)' = Rest(s, m)
  BY <1>2 DEF Bytes, Rest
<1>4. /\ screen \in Seq(Pictures) /\ seq \in Nat /\ sent \in 6 * seq .. 6 * Len(screen)
      /\ burst \in Nat /\ Len(Bytes) = 6 * Len(screen)
  BY <1>1, BytesAre DEF Shape, PartLength
<1> DEFINE bytes(n) == data \o SubSeq(Bytes, sent + 1, sent + n)
           ends(n) == Complete(SubSeq(Bytes, 1, sent + n)) - Complete(SubSeq(Bytes, 1, sent))
<1>5. PICK n \in 1 .. MaxChunk :
        /\ sent + n <= Len(Bytes)
        /\ sent' = sent + n
        /\ IF Len(bytes(n)) >= MAX_BUFFER_SIZE
           THEN /\ mjpegRequest' = "aborted"
                /\ data' = bytes(n)
                /\ UNCHANGED <<imageStart, imageEnd, lastFrame, frames, seq, burst>>
           ELSE /\ Find(bytes(n))
                /\ burst' = IF ends(n) > 1 THEN burst + ends(n) - 1 ELSE burst
                /\ UNCHANGED mjpegRequest
  BY DEF OnDataReceived
<1> DEFINE m == sent + n
<1>6. n \in Nat \ {0} /\ m \in sent .. 6 * Len(screen) /\ m \in 6 * seq .. 6 * Len(screen)
  BY <1>4, <1>5, DecoderAssumption
<1>7. bytes(n) = Rest(seq, m)
  BY <1>1, <1>4, <1>5, <1>6, ChunkIs
<1>8. ends(n) = m \div 6 - sent \div 6
  <2>1. Complete(SubSeq(Bytes, 1, m)) = m \div 6
    BY <1>4, <1>6, EndsAre
  <2>2. Complete(SubSeq(Bytes, 1, sent)) = sent \div 6
    BY <1>4, EndsAre
  <2> QED
    BY <2>1, <2>2
<1> HIDE DEF bytes, ends
<1>9. CASE Len(bytes(n)) >= MAX_BUFFER_SIZE
  <2>1. /\ sent' = m /\ data' = Rest(seq, m) /\ mjpegRequest' = "aborted"
        /\ UNCHANGED <<imageStart, imageEnd, lastFrame, frames, seq, burst>>
    BY <1>5, <1>7, <1>9
  <2>2. Shape'
    BY <1>1, <1>2, <1>4, <1>6, <2>1 DEF Shape, PartLength
  <2>3. DataIsRest'
    BY <1>1, <1>3, <1>4, <1>6, <2>1 DEF DataIsRest, PartLength
  <2>4. FramesAreWhole'
    BY <1>1, <1>2, <2>1, FramesStay
  <2>5. LagIsBurst'
    BY <2>1 DEF LagIsBurst
  <2> QED
    BY <2>2, <2>3, <2>4, <2>5 DEF IInv
<1>10. CASE ~(Len(bytes(n)) >= MAX_BUFFER_SIZE)
  <2>1. /\ sent' = m /\ Find(Rest(seq, m)) /\ mjpegRequest' = "open"
        /\ burst' = IF ends(n) > 1 THEN burst + ends(n) - 1 ELSE burst
    BY <1>2, <1>5, <1>7, <1>10
  <2>2. burst' \in Nat /\ (m \div 6 - sent \div 6 > 0 => burst' = burst + (m \div 6 - sent \div 6) - 1)
        /\ burst' >= burst
    BY <1>4, <1>6, <1>8, <2>1
  <2>3. sent \div 6 <= seq + burst
    BY <1>1, <1>2 DEF LagIsBurst, PartLength
  <2>4. CASE /\ m >= 6 * seq + 6
             /\ OnFrameReady(Jpeg(screen[seq + 1]))
             /\ data' = Rest(seq + 1, m) /\ imageStart' = EOF /\ imageEnd' = EOF
    <3>1. /\ seq' = seq + 1
          /\ frames' \in Seq(PictureSlices)
          /\ lastFrame' = Jpeg(screen[seq + 1])
          /\ FramesAreWhole'
      <4>1. 6 * seq + 6 <= 6 * Len(screen)
        BY <1>4, <1>6, <2>4
      <4> QED
        BY <4>1, <1>1, <1>2, <2>4, FrameStep
    <3>2. Shape'
      BY <1>2, <1>4, <1>6, <2>1, <2>2, <2>4, <3>1 DEF Shape, PartLength
    <3>3. DataIsRest'
      BY <1>3, <2>1, <2>4, <3>1 DEF DataIsRest
    <3>4. LagIsBurst'
      <4>1. m \div 6 <= (seq + 1) + burst'
        <5> DEFINE x == m \div 6
                   y == sent \div 6
                   b == burst'
        <5>1. x \in Int /\ y \in Int /\ y <= x
          BY <1>4, <1>6
        <5>2. y <= seq + burst /\ b >= burst /\ (x - y > 0 => b = burst + (x - y) - 1)
          BY <2>2, <2>3
        <5>3. seq \in Int /\ burst \in Int /\ b \in Int
          BY <1>4, <2>2
        <5> HIDE DEF x, y, b
        <5>4. x <= (seq + 1) + b
          BY <5>1, <5>2, <5>3
        <5> QED
          BY <5>4 DEF x, b
      <4> QED
        BY <4>1, <2>1, <3>1 DEF LagIsBurst, PartLength
    <3> QED
      BY <3>1, <3>2, <3>3, <3>4 DEF IInv
  <2>5. CASE /\ m < 6 * seq + 6
             /\ data' = Rest(seq, m) /\ UNCHANGED <<lastFrame, frames, seq>>
             /\ imageStart' = (IF m >= 6 * seq + 3 THEN 1 ELSE EOF) /\ imageEnd' = EOF
    <3>1. Shape'
      BY <1>1, <1>2, <1>4, <1>6, <2>1, <2>2, <2>5 DEF Shape, PartLength
    <3>2. DataIsRest'
      BY <1>3, <1>4, <1>6, <2>1, <2>5 DEF DataIsRest, PartLength
    <3>3. FramesAreWhole'
      BY <1>1, <1>2, <2>5, FramesStay
    <3>4. LagIsBurst'
      <4>1. m \div 6 <= seq + burst'
        <5>1. \A a, b \in Nat : a < 6 * b + 6 => a \div 6 \in Nat /\ a \div 6 <= b
          OBVIOUS
        <5>2. m \in Nat /\ m < 6 * seq + 6
          BY <1>4, <1>6, <2>5
        <5>3. m \div 6 \in Nat /\ m \div 6 <= seq
          BY <1>4, <5>1, <5>2
        <5> DEFINE x == m \div 6
                   b == burst'
        <5>4. x \in Nat /\ x <= seq /\ seq \in Int /\ b \in Nat
          BY <1>4, <2>2, <5>3
        <5> HIDE DEF x, b
        <5>5. x <= seq + b
          BY <5>4
        <5> QED
          BY <5>5 DEF x, b
      <4> QED
        BY <4>1, <2>1, <2>5 DEF LagIsBurst, PartLength
    <3> QED
      BY <3>1, <3>2, <3>3, <3>4 DEF IInv
  <2> QED
    BY <1>1, <1>6, <2>1, <2>4, <2>5, FindIs
<1> QED
  BY <1>9, <1>10

LEMMA Inductive == DecoderSpec => []IInv
<1>1. IInv /\ [DecoderNext]_decoderVars => IInv'
  <2> SUFFICES ASSUME IInv, [DecoderNext]_decoderVars PROVE IInv'
    OBVIOUS
  <2>1. CASE Start
    BY <2>1, StartStep
  <2>2. CASE Answer
    BY <2>2, RequestStep DEF Answer, Unread
  <2>3. CASE Abort
    BY <2>3, RequestStep DEF Abort, Unread
  <2>4. CASE OnDataReceived
    BY <2>4, DataStep
  <2>5. CASE UNCHANGED decoderVars
    BY <2>5, RequestStep DEF decoderVars
  <2> QED
    BY <2>1, <2>2, <2>3, <2>4, <2>5 DEF DecoderNext
<1> QED
  BY <1>1, InitInv, PTL DEF DecoderSpec

-----------------------------------------------------------------------------

\* For any pictures, any cut of their bytes and any length of a slice: the events
\* carry the bytes of the pictures sent, in order, none lost and none twice,
\* without the pictures that repeat the one before (mjpeg-decoder.ts:110-139,161-167).
THEOREM EventsAreWhole == DecoderSpec => []FramesAreWhole
<1>1. IInv => FramesAreWhole
  BY DEF IInv
<1> QED
  BY <1>1, Inductive, PTL

\* For any pictures and any cut of their bytes: a complete picture waits in the
\* data only if one chunk completed several (mjpeg-decoder.ts:124-138).
THEOREM LagAlwaysNeedsBurst == DecoderSpec => []LagNeedsBurst
<1>1. IInv => LagNeedsBurst
  <2> SUFFICES ASSUME IInv, mjpegRequest = "open" PROVE Complete(data) <= burst
    BY DEF LagNeedsBurst
  <2>1. /\ screen \in Seq(Pictures) /\ seq \in Nat /\ sent \in 6 * seq .. 6 * Len(screen)
        /\ burst \in Nat /\ data = Rest(seq, sent) /\ sent \div 6 <= seq + burst
    BY DEF IInv, Shape, DataIsRest, LagIsBurst, PartLength
  <2>2. Complete(data) = sent \div 6 - seq
    BY <2>1, CompleteIs
  <2> QED
    BY <2>1, <2>2
<1> QED
  BY <1>1, Inductive, PTL

=============================================================================
