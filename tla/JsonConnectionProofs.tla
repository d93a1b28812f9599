------------------------ MODULE JsonConnectionProofs ------------------------
(***************************************************************************)
(* Proofs about JsonConnection, for every set of messages, every size of   *)
(* the buffer and any number of messages and cancellations.                *)
(***************************************************************************)
EXTENDS JsonConnection, SequenceFacts

\* What a buffer and a stream are made of.
Bytes == Byte \cup {NUL}

\* The frames of a sequence of messages, apart.
FramesApart(ms) == [k \in DOMAIN ms |-> Append(ms[k], NUL)]
-----------------------------------------------------------------------------
(* Frames.                                                                 *)

LEMMA FrameType ==
  ASSUME NEW m \in Message
  PROVE  /\ m \in Seq(Byte) /\ m \in Seq(Bytes) /\ Len(m) \in Nat
         /\ Append(m, NUL) \in Seq(Bytes) /\ Append(m, NUL) # <<>>
         /\ Len(Append(m, NUL)) = Len(m) + 1
         /\ Append(m, NUL)[Len(m) + 1] = NUL
         /\ \A k \in 1 .. Len(m) : Append(m, NUL)[k] = m[k] /\ m[k] # NUL
<1>1. m \in Seq(Byte)
  BY MessageAssumption
<1>2. m \in Seq(Bytes)
  BY <1>1, SeqMonotonic DEF Bytes
<1>3. Len(m) \in Nat /\ \A k \in 1 .. Len(m) : m[k] # NUL
  BY <1>1, LenProperties, ElementOfSeq, ByteAssumption
<1>4. NUL \in Bytes
  BY DEF Bytes
<1> QED BY <1>1, <1>2, <1>3, <1>4, AppendProperties

LEMMA FramesApartType ==
  ASSUME NEW ms \in Seq(Message)
  PROVE  /\ FramesApart(ms) \in Seq(Seq(Bytes))
         /\ Len(FramesApart(ms)) = Len(ms)
         /\ \A k \in 1 .. Len(ms) : FramesApart(ms)[k] = Append(ms[k], NUL)
<1>1. Len(ms) \in Nat /\ DOMAIN ms = 1 .. Len(ms)
  BY LenProperties
<1>2. \A k \in 1 .. Len(ms) : Append(ms[k], NUL) \in Seq(Bytes)
  BY FrameType, ElementOfSeq
<1>3. FramesApart(ms) = [k \in 1 .. Len(ms) |-> Append(ms[k], NUL)]
  BY <1>1 DEF FramesApart
<1>4. FramesApart(ms) \in [1 .. Len(ms) -> Seq(Bytes)]
  BY <1>2, <1>3
<1>5. FramesApart(ms) \in Seq(Seq(Bytes))
  BY <1>1, <1>4, SeqDef
<1>6. Len(FramesApart(ms)) = Len(ms)
  <2>1. DOMAIN FramesApart(ms) = 1 .. Len(ms)
    BY <1>3
  <2>2. DOMAIN FramesApart(ms) = 1 .. Len(FramesApart(ms)) /\ Len(FramesApart(ms)) \in Nat
    BY <1>5, LenProperties
  <2> QED BY <1>1, <2>1, <2>2
<1> QED BY <1>3, <1>5, <1>6

LEMMA FramesType ==
  ASSUME NEW ms \in Seq(Message)
  PROVE  Frames(ms) \in Seq(Bytes)
BY FramesApartType, FlattenType DEF Frames, FramesApart

LEMMA FramesEmpty == Frames(<<>>) = <<>>
<1>1. FramesApart(<<>>) = <<>>
  BY DEF FramesApart
<1> QED BY <1>1, FlattenEmpty DEF Frames, FramesApart

LEMMA FramesAppend ==
  ASSUME NEW ms \in Seq(Message), NEW m \in Message
  PROVE  Frames(Append(ms, m)) = Frames(ms) \o Append(m, NUL)
<1> DEFINE f == FramesApart(ms)
           g == FramesApart(Append(ms, m))
           e == Append(m, NUL)
           n == Len(ms)
<1>1. n \in Nat
  BY LenProperties
<1>2. Append(ms, m) \in Seq(Message) /\ Len(Append(ms, m)) = n + 1
      /\ (\A k \in 1 .. n : Append(ms, m)[k] = ms[k]) /\ Append(ms, m)[n + 1] = m
  BY AppendProperties
<1>3. f \in Seq(Seq(Bytes)) /\ Len(f) = n /\ \A k \in 1 .. n : f[k] = Append(ms[k], NUL)
  BY FramesApartType
<1>4. g \in Seq(Seq(Bytes)) /\ Len(g) = n + 1
      /\ \A k \in 1 .. n + 1 : g[k] = Append(Append(ms, m)[k], NUL)
  BY <1>2, FramesApartType
<1>5. e \in Seq(Bytes)
  BY FrameType
<1> HIDE DEF f, g, e
<1>6. Append(f, e) \in Seq(Seq(Bytes)) /\ Len(Append(f, e)) = n + 1
      /\ (\A k \in 1 .. n : Append(f, e)[k] = f[k]) /\ Append(f, e)[n + 1] = e
  BY <1>3, <1>5, AppendProperties
<1>7. \A k \in 1 .. n + 1 : g[k] = Append(f, e)[k]
  <2>1. SUFFICES ASSUME NEW k \in 1 .. n + 1 PROVE g[k] = Append(f, e)[k]
    OBVIOUS
  <2>2. CASE k = n + 1
    BY <1>2, <1>4, <1>6, <2>2 DEF e
  <2>3. CASE k # n + 1
    <3>1. k \in 1 .. n
      BY <1>1, <2>3
    <3> QED BY <1>2, <1>3, <1>4, <1>6, <3>1, Zenon
  <2> QED BY <2>2, <2>3
<1>8. g = Append(f, e)
  BY <1>4, <1>6, <1>7, SeqEqual
<1>9. FlattenSeq(Append(f, e)) = FlattenSeq(f) \o e
  BY <1>3, <1>5, FlattenAppend
<1> QED BY <1>8, <1>9 DEF Frames, FramesApart, f, g, e

LEMMA FramesHead ==
  ASSUME NEW ms \in Seq(Message), ms # <<>>
  PROVE  Frames(ms) = Append(Head(ms), NUL) \o Frames(Tail(ms))
<1> DEFINE f == FramesApart(ms)
           g == FramesApart(Tail(ms))
<1>1. f \in Seq(Seq(Bytes)) /\ Len(f) = Len(ms)
      /\ \A k \in 1 .. Len(ms) : f[k] = Append(ms[k], NUL)
  BY FramesApartType
<1>2. Tail(ms) \in Seq(Message) /\ Len(Tail(ms)) = Len(ms) - 1
      /\ \A k \in 1 .. Len(Tail(ms)) : Tail(ms)[k] = ms[k + 1]
  BY HeadTailProperties
<1>3. g \in Seq(Seq(Bytes)) /\ Len(g) = Len(ms) - 1
      /\ \A k \in 1 .. Len(ms) - 1 : g[k] = Append(Tail(ms)[k], NUL)
  BY <1>2, FramesApartType
<1>4. Len(ms) \in Nat /\ Len(ms) > 0
  BY EmptySeq, LenProperties
<1> HIDE DEF f, g
<1>5. f # <<>>
  BY <1>1, <1>4, EmptySeq
<1>6. Tail(f) \in Seq(Seq(Bytes)) /\ Len(Tail(f)) = Len(f) - 1
      /\ \A k \in 1 .. Len(Tail(f)) : Tail(f)[k] = f[k + 1]
  BY <1>1, <1>5, HeadTailProperties
<1>7. Tail(f) = g
  <2>1. \A k \in 1 .. Len(Tail(f)) : Tail(f)[k] = g[k]
    <3>1. SUFFICES ASSUME NEW k \in 1 .. Len(ms) - 1 PROVE Tail(f)[k] = g[k]
      BY <1>1, <1>6
    <3>2. k + 1 \in 1 .. Len(ms)
      BY <1>4
    <3>3. Tail(f)[k] = Append(ms[k + 1], NUL)
      BY <1>1, <1>6, <3>2
    <3>4. Tail(ms)[k] = ms[k + 1]
      BY <1>2
    <3> QED BY <1>3, <3>3, <3>4
  <2> QED BY <1>1, <1>3, <1>6, <2>1, SeqEqual
<1>8. Head(f) = Append(Head(ms), NUL)
  <2>1. Head(f) = f[1] /\ Head(ms) = ms[1]
    BY <1>1, <1>5
  <2> QED BY <1>1, <1>4, <2>1
<1>9. FlattenSeq(f) = Head(f) \o FlattenSeq(Tail(f))
  BY <1>1, <1>5, FlattenHead
<1> QED BY <1>7, <1>8, <1>9 DEF Frames, FramesApart, f, g
-----------------------------------------------------------------------------
(* Taking the first message out of a buffer.                               *)

\* The buffer holds a NUL, and its bytes and the rest of the stream are the
\* frame of m and the bytes of the tail.
Begins(buf, rest, m, tail) ==
    Holds(buf) /\ buf \o rest = Append(m, NUL) \o tail

\* m is taken out, and the tail is left.
Takes(buf, rest, m, tail) ==
    /\ MessageEnd(buf) = Len(m) + 1
    /\ SubSeq(buf, 1, Len(m)) = m
    /\ BehindMessage(buf) \in Seq(Bytes)
    /\ Len(BehindMessage(buf)) <= Len(buf)
    /\ BehindMessage(buf) \o rest = tail

\* In bytes that begin with a frame the first NUL is the one of that frame,
\* so a buffer that holds a NUL holds the whole frame, whatever it ends in.
LEMMA FirstFrame ==
  ASSUME NEW m \in Message, NEW tail \in Seq(Bytes),
         NEW buf \in Seq(Bytes), NEW rest \in Seq(Bytes)
  PROVE  Begins(buf, rest, m, tail) => Takes(buf, rest, m, tail)
<1> DEFINE e == Len(m) + 1
           frame == Append(m, NUL)
           back == SubSeq(buf, e + 1, Len(buf))
<1>1. /\ Len(m) \in Nat /\ Len(buf) \in Nat /\ Len(rest) \in Nat /\ Len(tail) \in Nat
      /\ DOMAIN buf = 1 .. Len(buf) /\ m \in Seq(Bytes)
      /\ \A k \in 1 .. Len(m) : m[k] # NUL
  BY FrameType, LenProperties
<1>2. /\ frame \in Seq(Bytes) /\ Len(frame) = e /\ frame[e] = NUL
      /\ \A k \in 1 .. Len(m) : frame[k] = m[k]
  BY FrameType
<1> HIDE DEF frame
<1>3. \A k \in 1 .. Len(buf) + Len(rest) :
          (buf \o rest)[k] = IF k <= Len(buf) THEN buf[k] ELSE rest[k - Len(buf)]
  BY ConcatProperties
<1>4. \A k \in 1 .. e + Len(tail) :
          (frame \o tail)[k] = IF k <= e THEN frame[k] ELSE tail[k - e]
  BY <1>2, ConcatProperties
<1>5. Len(buf \o rest) = Len(buf) + Len(rest) /\ Len(frame \o tail) = e + Len(tail)
  <2>1. Len(buf \o rest) = Len(buf) + Len(rest)
    BY ConcatProperties
  <2>2. Len(frame \o tail) = Len(frame) + Len(tail)
    BY <1>2, ConcatProperties, Zenon
  <2> QED BY <1>2, <2>1, <2>2, Zenon
<1>6. \A q, r \in Seq(Bytes) : frame \o q = frame \o r => q = r
  BY <1>2, ConcatSimplifications
<1>7. SUFFICES ASSUME Holds(buf), buf \o rest = frame \o tail
                PROVE  Takes(buf, rest, m, tail)
  BY Zenon DEF Begins, frame
<1>8. Len(buf) + Len(rest) = e + Len(tail) /\ buf \o rest = frame \o tail
  BY <1>5, <1>7, Zenon
<1>9. \A k \in 1 .. Len(buf) : k < e => buf[k] = m[k] /\ buf[k] # NUL
  <2>1. SUFFICES ASSUME NEW k \in 1 .. Len(buf), k < e
                 PROVE  buf[k] = m[k] /\ buf[k] # NUL
    OBVIOUS
  <2>2. k \in 1 .. Len(buf) + Len(rest) /\ k \in 1 .. e + Len(tail) /\ k <= e
        /\ k <= Len(buf) /\ k \in 1 .. Len(m)
    BY <1>1, <2>1
  <2>3. buf[k] = (buf \o rest)[k] /\ (frame \o tail)[k] = frame[k]
    BY <1>3, <1>4, <2>2, Zenon
  <2> QED BY <1>1, <1>2, <1>8, <2>2, <2>3
<1>10. e \in 1 .. Len(buf) /\ buf[e] = NUL
  <2>1. PICK k \in 1 .. Len(buf) : buf[k] = NUL
    BY <1>1, <1>7 DEF Holds, Range
  <2>2. ~(k < e)
    BY <1>9, <2>1
  <2>3. e \in 1 .. Len(buf)
    BY <1>1, <2>1, <2>2
  <2>4. e \in 1 .. Len(buf) + Len(rest) /\ e \in 1 .. e + Len(tail) /\ e <= Len(buf) /\ e <= e
    BY <1>1, <2>3
  <2>5. buf[e] = (buf \o rest)[e] /\ (frame \o tail)[e] = frame[e]
    BY <1>3, <1>4, <2>4, Zenon
  <2> QED BY <1>2, <1>8, <2>3, <2>5
<1>11. MessageEnd(buf) = e
  <2> DEFINE N == {k \in DOMAIN buf : buf[k] = NUL}
             P(x) == x \in N /\ \A y \in N : x <= y
  <2>1. e \in N /\ N \subseteq Int /\ \A y \in N : e <= y
    BY <1>1, <1>9, <1>10
  <2>2. \A x : P(x) => x = e
    <3>1. SUFFICES ASSUME NEW x, P(x) PROVE x = e
      OBVIOUS
    <3>2. x \in Int /\ e \in Int /\ x <= e /\ e <= x
      BY <1>1, <2>1, <3>1
    <3> QED BY <3>2
  <2>3. P(e)
    BY <2>1
  <2>4. (CHOOSE x : P(x)) = e
    <3> HIDE DEF P
    <3>1. P(CHOOSE x : P(x))
      BY <2>3, Zenon
    <3> QED BY <2>2, <3>1, Zenon
  <2>5. Min(N) = CHOOSE x : P(x)
    BY Zenon DEF Min
  <2>6. MessageEnd(buf) = Min(N)
    BY Zenon DEF MessageEnd
  <2> QED BY <2>4, <2>5, <2>6, Zenon
<1>12. SubSeq(buf, 1, Len(m)) = m
  <2>1. \A k \in 1 .. Len(m) : buf[k] = m[k]
    BY <1>1, <1>9, <1>10
  <2>2. SubSeq(buf, 1, Len(m)) = SubSeq(m, 1, Len(m))
    BY <1>1, <1>10, <2>1, SubSeqAgree
  <2> QED BY <1>1, <2>2, SubSeqFull
<1>13. BehindMessage(buf) = back
  BY <1>11, Zenon DEF BehindMessage
<1>14. back \in Seq(Bytes)
  <2>1. \A k \in e + 1 .. Len(buf) : buf[k] \in Bytes
    BY <1>1, ElementOfSeq
  <2> QED BY <1>1, <2>1, SubSeqProperties
<1>15. buf = frame \o back
  <2>1. buf = (SubSeq(buf, 1, e - 1) \o <<buf[e]>>) \o back
    BY <1>10, SplitAt
  <2>2. e - 1 = Len(m)
    BY <1>1
  <2>3. frame = m \o <<NUL>>
    BY <1>1, AppendIsConcat DEF frame, Bytes
  <2> QED BY <1>10, <1>12, <2>1, <2>2, <2>3, Zenon
<1> HIDE DEF back
<1>16. Len(back) <= Len(buf)
  BY <1>2, <1>14, <1>15, ConcatLonger, Zenon
<1>17. back \o rest = tail
  <2>1. back \o rest \in Seq(Bytes) /\ tail \in Seq(Bytes)
    BY <1>14, ConcatProperties
  <2>2. (frame \o back) \o rest = frame \o (back \o rest)
    <3>1. frame \in Seq(Bytes) /\ back \in Seq(Bytes) /\ rest \in Seq(Bytes)
      BY <1>2, <1>14
    <3> QED BY <3>1, ConcatAssociative, SMTT(30)
  <2>3. frame \o (back \o rest) = frame \o tail
    BY <1>8, <1>15, <2>2, Zenon
  <2> QED BY <1>6, <2>1, <2>3, Zenon
<1> QED BY <1>11, <1>12, <1>13, <1>14, <1>16, <1>17, Zenon DEF Takes

LEMMA FramesNotEmpty ==
  ASSUME NEW ms \in Seq(Message), Frames(ms) = <<>>
  PROVE  ms = <<>>
<1>1. SUFFICES ASSUME ms # <<>> PROVE FALSE
  OBVIOUS
<1>2. Head(ms) \in Message /\ Tail(ms) \in Seq(Message)
  BY <1>1, HeadTailProperties
<1> DEFINE frame == Append(Head(ms), NUL)
           tail == Frames(Tail(ms))
<1>3. frame \in Seq(Bytes) /\ tail \in Seq(Bytes)
  BY <1>2, FrameType, FramesType
<1>4. frame # <<>>
  BY <1>2, FrameType
<1>5. frame \o tail = <<>>
  BY <1>1, FramesHead
<1> HIDE DEF frame, tail
<1>6. frame \o tail = <<>> => frame = <<>>
  BY <1>3, ConcatEqualIffEmpty
<1> QED BY <1>4, <1>5, <1>6

\* A buffer that holds a NUL begins with the next message that is due.
LEMMA TakeFirst ==
  ASSUME NEW s \in Seq(Message), NEW n \in Nat, n <= Len(s),
         NEW buf \in Seq(Bytes), NEW rest \in Seq(Bytes),
         Holds(buf), buf \o rest = Frames(SubSeq(s, n + 1, Len(s)))
  PROVE  /\ n < Len(s)
         /\ FirstMessage(buf) = Channel!Parse(s[n + 1])
         /\ BehindMessage(buf) \in Seq(Bytes)
         /\ Len(BehindMessage(buf)) <= Len(buf)
         /\ BehindMessage(buf) \o rest = Frames(SubSeq(s, (n + 1) + 1, Len(s)))
<1> DEFINE ms == SubSeq(s, n + 1, Len(s))
           m == s[n + 1]
           tail == Frames(SubSeq(s, (n + 1) + 1, Len(s)))
<1>1. Len(s) \in Nat /\ ms \in Seq(Message) /\ Len(ms) = Len(s) - n
  BY SplitBehind, LenProperties
<1>2. buf # <<>>
  BY EmptySeq DEF Holds, Range
<1>3. Frames(ms) # <<>>
  BY <1>2, ConcatEqualIffEmpty
<1>4. n < Len(s)
  <2>1. ms # <<>>
    BY <1>3, FramesEmpty
  <2> HIDE DEF ms
  <2>2. Len(ms) # 0
    BY <1>1, <2>1, EmptySeq
  <2> QED BY <1>1, <2>2
<1>5. ms # <<>> /\ Head(ms) = m /\ Tail(ms) = SubSeq(s, (n + 1) + 1, Len(s))
  BY <1>4, AdvanceBehind
<1>6. m \in Message /\ Tail(ms) \in Seq(Message)
  <2>1. n + 1 \in 1 .. Len(s)
    BY <1>1, <1>4
  <2>2. Tail(ms) \in Seq(Message)
    BY <1>1, <1>5, HeadTailProperties
  <2> QED BY <2>1, <2>2, ElementOfSeq
<1>7. tail \in Seq(Bytes)
  BY <1>5, <1>6, FramesType
<1>8. Frames(ms) = Append(m, NUL) \o tail
  <2> HIDE DEF ms, m
  <2>1. Frames(ms) = Append(Head(ms), NUL) \o Frames(Tail(ms))
    BY <1>1, <1>5, FramesHead
  <2> QED BY <1>5, <2>1, Zenon
<1> HIDE DEF ms, m, tail
<1>9. Begins(buf, rest, m, tail)
  BY <1>8, Zenon DEF ms, Begins
<1>10. Takes(buf, rest, m, tail)
  BY <1>6, <1>7, <1>9, FirstFrame, Zenon
<1>11. FirstMessage(buf) = Channel!Parse(m)
  <2>1. Len(m) \in Nat
    BY <1>6, FrameType, LenProperties
  <2>2. MessageEnd(buf) - 1 = Len(m)
    BY <1>10, <2>1 DEF Takes
  <2> QED BY <1>10, <2>2, Zenon DEF FirstMessage, Takes
<1> QED BY <1>4, <1>10, <1>11, Zenon DEF m, tail, Takes

\* What is left when the stream has been read to its end without a NUL is
\* nothing, or the beginning of one frame.
LEMMA ReadOut ==
  ASSUME NEW s \in Seq(Message), NEW n \in Nat, n <= Len(s),
         NEW buf \in Seq(Bytes), NEW tail \in Seq(Bytes),
         ~Holds(buf), \A k \in 1 .. Len(tail) - 1 : tail[k] # NUL,
         tail # <<>> => tail[Len(tail)] = NUL,
         buf \o tail = Frames(SubSeq(s, n + 1, Len(s)))
  PROVE  n = IF tail = <<>> THEN Len(s) ELSE Len(s) - 1
<1> DEFINE ms == SubSeq(s, n + 1, Len(s))
           m == Head(ms)
           frame == Append(m, NUL)
           more == Frames(Tail(ms))
<1>1. Len(s) \in Nat /\ ms \in Seq(Message) /\ Len(ms) = Len(s) - n
  BY SplitBehind, LenProperties
<1>2. CASE ms = <<>>
  <2>1. n = Len(s)
    <3> HIDE DEF ms
    <3>1. Len(ms) = 0
      BY <1>2, EmptySeq
    <3> QED BY <1>1, <3>1
  <2>2. buf \o tail = <<>>
    BY <1>2, FramesEmpty
  <2>3. tail = <<>>
    BY <2>2, ConcatEqualIffEmpty
  <2> QED BY <2>1, <2>3
<1>3. CASE ms # <<>>
  <2>1. m \in Message /\ Tail(ms) \in Seq(Message) /\ Len(Tail(ms)) = Len(ms) - 1
    BY <1>1, <1>3, HeadTailProperties
  <2>2. frame \in Seq(Bytes) /\ more \in Seq(Bytes) /\ m \in Seq(Bytes)
    BY <2>1, FrameType, FramesType
  <2>3. Len(m) \in Nat /\ Len(frame) = Len(m) + 1 /\ frame[Len(m) + 1] = NUL
    BY <2>1, FrameType, Zenon
  <2>4. Frames(ms) = frame \o more
    <3> HIDE DEF ms
    <3> QED BY <1>1, <1>3, FramesHead
  <2>5. buf \o tail = frame \o more
    BY <2>4
  <2> DEFINE e == Len(m) + 1
  <2> HIDE DEF ms, m, frame, more
  <2>6. Len(buf) \in Nat /\ Len(tail) \in Nat /\ Len(more) \in Nat
        /\ DOMAIN buf = 1 .. Len(buf)
    BY <2>2, LenProperties
  <2>7. Len(buf \o tail) = Len(buf) + Len(tail)
        /\ \A k \in 1 .. Len(buf) + Len(tail) :
             (buf \o tail)[k] = IF k <= Len(buf) THEN buf[k] ELSE tail[k - Len(buf)]
    BY ConcatProperties, Zenon
  <2>8. Len(frame \o more) = Len(frame) + Len(more)
        /\ \A k \in 1 .. Len(frame) + Len(more) :
             (frame \o more)[k] = IF k <= Len(frame) THEN frame[k] ELSE more[k - Len(frame)]
    BY <2>2, ConcatProperties, Zenon
  <2>9. Len(buf) + Len(tail) = e + Len(more)
    BY <2>3, <2>5, <2>7, <2>8, Zenon
  <2>10. (buf \o tail)[e] = NUL
    <3>1. e \in 1 .. Len(frame) + Len(more) /\ e <= Len(frame)
      BY <2>3, <2>6
    <3>2. (frame \o more)[e] = frame[e]
      BY <2>8, <3>1, Zenon
    <3> QED BY <2>3, <2>5, <3>2, Zenon
  <2>11. e \in 1 .. Len(buf) + Len(tail)
    BY <2>3, <2>6, <2>9
  <2>12. ~(e <= Len(buf))
    <3>1. SUFFICES ASSUME e <= Len(buf) PROVE FALSE
      OBVIOUS
    <3>2. (buf \o tail)[e] = buf[e]
      BY <2>7, <2>11, <3>1, Zenon
    <3>3. e \in DOMAIN buf
      BY <2>6, <2>11, <3>1
    <3> QED BY <2>10, <3>2, <3>3, Zenon DEF Holds, Range
  <2>13. e - Len(buf) = Len(tail)
    <3>1. (buf \o tail)[e] = tail[e - Len(buf)]
      BY <2>7, <2>11, <2>12, Zenon
    <3>2. e - Len(buf) \in 1 .. Len(tail)
      BY <2>3, <2>6, <2>11, <2>12
    <3>3. tail[e - Len(buf)] = NUL
      BY <2>10, <3>1, Zenon
    <3>4. e - Len(buf) \notin 1 .. Len(tail) - 1
      BY <3>3, Zenon
    <3> QED BY <2>6, <3>2, <3>4
  <2>14. Len(more) = 0 /\ Len(tail) # 0
    BY <2>3, <2>6, <2>9, <2>11, <2>12, <2>13
  <2>15. more = <<>> /\ tail # <<>>
    BY <2>2, <2>14, EmptySeq, Zenon
  <2>16. Tail(ms) = <<>>
    BY <2>1, <2>15, FramesNotEmpty, Zenon DEF more
  <2>17. Len(ms) - 1 = 0
    BY <2>1, <2>16, EmptySeq
  <2> QED BY <1>1, <2>15, <2>17
<1> QED BY <1>2, <1>3
-----------------------------------------------------------------------------
(* The inductive invariant.                                                *)

Results == {Channel!Parse(m) : m \in Message}

\* The messages that have left the buffer, and the frames that have not.
Taken == Len(received) + Len(posted)

Remaining(n) == Frames(SubSeq(sent, n + 1, Len(sent)))

Types == TypeOK /\ received \in Seq(Results)

\* BytesConserved, with the bytes grouped by the end that holds them.
Conserved == (readbuf \o chunk) \o (wire \o outgoing) = Remaining(Taken)

TakenWereSent == Taken <= Len(sent)

PostedIsNext ==
    posted # <<>> => /\ Len(received) < Len(sent)
                     /\ posted = <<Channel!Parse(sent[Len(received) + 1])>>

\* What is still to be written is the end of one frame.
OutgoingIsEnd ==
    /\ outgoing # <<>> => outgoing[Len(outgoing)] = NUL
    /\ \A k \in 1 .. Len(outgoing) - 1 : outgoing[k] # NUL

\* A read waits only for bytes of a message that is not in the buffer.
NothingOverlooked ==
    receive \in {"reading", "read", "eof", "aborted"} => ~Holds(readbuf)

\* At an end of file there is no message in the buffer and none can come.
EndIsEnd ==
    ended \/ receive = "eof" =>
        closed /\ wire = <<>> /\ chunk = <<>> /\ posted = <<>> /\ ~Holds(readbuf)

IInv == /\ Types
        /\ Conserved
        /\ TakenWereSent
        /\ PostedIsNext
        /\ OutgoingIsEnd
        /\ NothingOverlooked
        /\ EndIsEnd
-----------------------------------------------------------------------------
(* What the steps of the proof below share.                                *)

LEMMA RemainingAppend ==
  ASSUME NEW s \in Seq(Message), NEW n \in Nat, n <= Len(s), NEW m \in Message
  PROVE  Frames(SubSeq(Append(s, m), n + 1, Len(Append(s, m))))
           = Frames(SubSeq(s, n + 1, Len(s))) \o Append(m, NUL)
<1>1. SubSeq(Append(s, m), n + 1, Len(Append(s, m))) = Append(SubSeq(s, n + 1, Len(s)), m)
  BY AppendBehind
<1>2. SubSeq(s, n + 1, Len(s)) \in Seq(Message)
  BY SplitBehind
<1> QED BY <1>1, <1>2, FramesAppend

\* The types in the form in which the steps use them.
LEMMA TypeFacts ==
  ASSUME IInv
  PROVE  /\ sent \in Seq(Message) /\ Len(sent) \in Nat
         /\ outgoing \in Seq(Bytes) /\ wire \in Seq(Bytes)
         /\ readbuf \in Seq(Bytes) /\ chunk \in Seq(Bytes)
         /\ Len(outgoing) \in Nat /\ Len(wire) \in Nat
         /\ Len(readbuf) \in Nat /\ Len(chunk) \in Nat
         /\ readbuf \o chunk \in Seq(Bytes) /\ wire \o outgoing \in Seq(Bytes)
         /\ received \in Seq(Results) /\ Len(received) \in Nat
         /\ Len(posted) = IF posted = <<>> THEN 0 ELSE 1
         /\ Taken \in Nat /\ Taken <= Len(sent)
         /\ Cap \in Nat
<1>1. /\ sent \in Seq(Message)
      /\ outgoing \in Seq(Bytes) /\ wire \in Seq(Bytes)
      /\ readbuf \in Seq(Bytes) /\ chunk \in Seq(Bytes)
      /\ received \in Seq(Results)
  BY DEF IInv, Types, TypeOK, Bytes
<1>2. /\ Len(sent) \in Nat /\ Len(outgoing) \in Nat /\ Len(wire) \in Nat
      /\ Len(readbuf) \in Nat /\ Len(chunk) \in Nat /\ Len(received) \in Nat
  BY <1>1, LenProperties
<1>3. readbuf \o chunk \in Seq(Bytes) /\ wire \o outgoing \in Seq(Bytes)
  BY <1>1, ConcatProperties
<1>4. Len(posted) = IF posted = <<>> THEN 0 ELSE 1
  BY EmptySeq DEF IInv, PostedIsNext
<1>5. Taken \in Nat /\ Taken <= Len(sent)
  BY <1>2, <1>4 DEF IInv, TakenWereSent, Taken
<1> QED BY <1>1, <1>2, <1>3, <1>4, <1>5, CapAssumption

\* A step that moves no byte and no message.
LEMMA NothingMoves ==
  ASSUME IInv, UNCHANGED <<sent, outgoing, wire, readbuf, chunk, posted, received>>
  PROVE  Conserved' /\ TakenWereSent' /\ PostedIsNext' /\ OutgoingIsEnd'
<1>1. Conserved'
  BY DEF IInv, Conserved, Remaining, Taken
<1>2. TakenWereSent' /\ PostedIsNext' /\ OutgoingIsEnd'
  BY DEF IInv, TakenWereSent, Taken, PostedIsNext, OutgoingIsEnd
<1> QED BY <1>1, <1>2

\* A receive that finds no message in buf reads on.
LEMMA ReadsOn ==
  ASSUME IInv, NEW buf \in Seq(Bytes), Len(buf) <= Cap, ~Holds(buf), posted = <<>>,
         buf \o (wire \o outgoing) = Remaining(Taken), StartRead(buf),
         blocking' \in BOOLEAN, UNCHANGED <<senderVars, wire, closed, cancels>>
  PROVE  IInv'
<1> USE DEF StartRead, senderVars
<1>1. /\ readbuf' = buf /\ chunk' = <<>> /\ wire' = wire /\ outgoing' = outgoing
      /\ sent' = sent /\ posted' = posted /\ received' = received
  OBVIOUS
<1>2. Types'
  <2>1. Len(readbuf') + Len(chunk') <= Cap
    BY <1>1, LenProperties, EmptySeq
  <2>2. readbuf' \in Seq(Byte \cup {NUL}) /\ chunk' \in Seq(Byte \cup {NUL})
    BY <1>1, EmptySeq DEF Bytes
  <2> QED BY <2>1, <2>2, <1>1 DEF IInv, Types, TypeOK, Stages
<1>3. Conserved'
  <2>1. buf \o <<>> = buf
    BY ConcatEmptySeq
  <2>2. Remaining(Taken)' = Remaining(Taken)
    BY <1>1, Zenon DEF Remaining, Taken
  <2> QED BY <1>1, <2>1, <2>2, Zenon DEF Conserved
<1>4. TakenWereSent' /\ PostedIsNext' /\ OutgoingIsEnd'
  BY <1>1 DEF IInv, TakenWereSent, Taken, PostedIsNext, OutgoingIsEnd
<1>5. NothingOverlooked' /\ EndIsEnd'
  BY <1>1 DEF IInv, NothingOverlooked, EndIsEnd
<1> QED BY <1>2, <1>3, <1>4, <1>5 DEF IInv

\* A receive that finds a message in buf takes it out.
LEMMA TakesOut ==
  ASSUME IInv, NEW buf \in Seq(Bytes), Len(buf) <= Cap, Holds(buf), posted = <<>>,
         buf \o (wire \o outgoing) = Remaining(Taken),
         readbuf' = BehindMessage(buf), chunk' = <<>>, Taken' = Taken + 1,
         UNCHANGED <<senderVars, wire>>
  PROVE  /\ Taken = Len(received) /\ Len(received) < Len(sent)
         /\ FirstMessage(buf) = Channel!Parse(sent[Len(received) + 1])
         /\ FirstMessage(buf) \in Results
         /\ readbuf' \in Seq(Bytes) /\ Len(readbuf') + Len(chunk') <= Cap
         /\ Conserved' /\ TakenWereSent' /\ OutgoingIsEnd'
<1> DEFINE rest == wire \o outgoing
           n == Len(received)
<1>1. Taken = n /\ n \in Nat /\ n <= Len(sent) /\ sent \in Seq(Message) /\ Len(sent) \in Nat
      /\ rest \in Seq(Bytes) /\ Cap \in Nat
  BY TypeFacts DEF Taken
<1>2. buf \o rest = Frames(SubSeq(sent, n + 1, Len(sent)))
  BY <1>1 DEF Remaining
<1> HIDE DEF rest, n
<1>3. /\ n < Len(sent)
      /\ FirstMessage(buf) = Channel!Parse(sent[n + 1])
      /\ BehindMessage(buf) \in Seq(Bytes)
      /\ Len(BehindMessage(buf)) <= Len(buf)
      /\ BehindMessage(buf) \o rest = Frames(SubSeq(sent, (n + 1) + 1, Len(sent)))
  BY <1>1, <1>2, TakeFirst
<1>4. FirstMessage(buf) \in Results
  <2>1. n + 1 \in 1 .. Len(sent)
    BY <1>1, <1>3
  <2>2. sent[n + 1] \in Message
    BY <1>1, <2>1, ElementOfSeq
  <2> QED BY <1>3, <2>2, Zenon DEF Results
<1>5. readbuf' \in Seq(Bytes) /\ Len(readbuf') + Len(chunk') <= Cap
  BY <1>1, <1>3, LenProperties, EmptySeq
<1>6. Conserved'
  <2>1. readbuf' \o chunk' = BehindMessage(buf)
    BY <1>3, ConcatEmptySeq
  <2>2. wire' \o outgoing' = rest
    BY DEF rest, senderVars
  <2>3. Remaining(Taken)' = Frames(SubSeq(sent, (n + 1) + 1, Len(sent)))
    BY <1>1 DEF Remaining, senderVars
  <2> QED BY <1>3, <2>1, <2>2, <2>3, Zenon DEF Conserved
<1>7. TakenWereSent' /\ OutgoingIsEnd'
  BY <1>1, <1>3 DEF IInv, TakenWereSent, OutgoingIsEnd, senderVars
<1> QED BY <1>1, <1>3, <1>4, <1>5, <1>6, <1>7 DEF n
-----------------------------------------------------------------------------
(* The steps.                                                              *)

LEMMA InitHolds == Init => IInv
<1> SUFFICES ASSUME Init PROVE IInv
  OBVIOUS
<1> USE DEF Init
<1>1. Types
  <2>1. <<>> \in Seq(Message) /\ <<>> \in Seq(Byte \cup {NUL}) /\ <<>> \in Seq(Results)
    BY EmptySeq
  <2>2. Len(readbuf) + Len(chunk) <= Cap
    BY EmptySeq, CapAssumption
  <2>3. cancels \in 0 .. MaxCancels
    BY BoundAssumption
  <2> QED BY <2>1, <2>2, <2>3, Zenon DEF Types, TypeOK, Stages
<1>2. Conserved
  <2>1. <<>> \o <<>> = <<>>
    BY EmptySeq, ConcatEmptySeq
  <2>2. SubSeq(sent, Taken + 1, Len(sent)) = <<>>
    BY EmptySeq, SubSeqEmpty DEF Taken
  <2>3. Remaining(Taken) = <<>>
    BY <2>2, FramesEmpty DEF Remaining
  <2> QED BY <2>1, <2>3, Zenon DEF Conserved
<1>3. TakenWereSent /\ PostedIsNext /\ OutgoingIsEnd
  BY EmptySeq DEF TakenWereSent, Taken, PostedIsNext, OutgoingIsEnd
<1>4. NothingOverlooked /\ EndIsEnd
  BY DEF NothingOverlooked, EndIsEnd
<1> QED BY <1>1, <1>2, <1>3, <1>4 DEF IInv

LEMMA SendKeeps ==
  ASSUME IInv, NEW m \in Message, Send(m)
  PROVE  IInv'
<1> USE DEF Send, bufferVars, callVars
<1>1. /\ sent' = Append(sent, m) /\ outgoing' = Append(m, NUL) /\ outgoing = <<>>
      /\ ~closed
      /\ UNCHANGED <<wire, closed, readbuf, chunk, receive, blocking, posted, ended,
                     received, cancels>>
  OBVIOUS
<1>2. sent' \in Seq(Message) /\ Len(sent') = Len(sent) + 1
      /\ \A k \in 1 .. Len(sent) : sent'[k] = sent[k]
  BY <1>1, TypeFacts, AppendProperties
<1>3. outgoing' \in Seq(Bytes)
  BY <1>1, FrameType
<1>4. Types'
  BY <1>1, <1>2, <1>3 DEF IInv, Types, TypeOK, Bytes
<1>5. Conserved'
  <2> DEFINE buf == readbuf \o chunk
             frame == Append(m, NUL)
  <2>1. buf \in Seq(Bytes) /\ wire \in Seq(Bytes) /\ frame \in Seq(Bytes)
    BY TypeFacts, FrameType
  <2>2. Remaining(Taken)' = Remaining(Taken) \o frame
    <3>1. Taken' = Taken
      BY <1>1 DEF Taken
    <3>2. sent \in Seq(Message) /\ Taken \in Nat /\ Taken <= Len(sent)
      BY TypeFacts
    <3> QED BY <1>1, <3>1, <3>2, RemainingAppend DEF Remaining
  <2>3. wire \o outgoing = wire
    BY <1>1, TypeFacts, ConcatEmptySeq
  <2>4. buf \o wire = Remaining(Taken)
    BY <2>3, Zenon DEF IInv, Conserved
  <2>5. readbuf' \o chunk' = buf /\ wire' \o outgoing' = wire \o frame
    BY <1>1
  <2> HIDE DEF buf, frame
  <2>6. (buf \o wire) \o frame = buf \o (wire \o frame)
    BY <2>1, ConcatAssociative, SMTT(30)
  <2> QED BY <2>2, <2>4, <2>5, <2>6, Zenon DEF Conserved
<1>6. TakenWereSent' /\ PostedIsNext'
  <2>1. Taken' = Taken /\ Taken <= Len(sent')
    BY <1>1, <1>2, TypeFacts DEF Taken
  <2>2. Len(received) < Len(sent) => sent'[Len(received) + 1] = sent[Len(received) + 1]
    BY <1>2, TypeFacts
  <2> QED BY <1>1, <1>2, <2>1, <2>2, TypeFacts DEF IInv, TakenWereSent, PostedIsNext
<1>7. OutgoingIsEnd'
  <2>1. Len(m) \in Nat /\ Len(outgoing') = Len(m) + 1 /\ outgoing'[Len(m) + 1] = NUL
        /\ \A k \in 1 .. Len(m) : outgoing'[k] # NUL
    BY <1>1, FrameType
  <2> QED BY <2>1 DEF OutgoingIsEnd
<1>8. NothingOverlooked' /\ EndIsEnd'
  BY <1>1 DEF IInv, NothingOverlooked, EndIsEnd
<1> QED BY <1>4, <1>5, <1>6, <1>7, <1>8 DEF IInv

LEMMA WriteKeeps ==
  ASSUME IInv, Write
  PROVE  IInv'
<1> PICK n \in 1 .. Len(outgoing) : WriteSome(n)
  BY DEF Write
<1> DEFINE p == SubSeq(outgoing, 1, n)
           q == SubSeq(outgoing, n + 1, Len(outgoing))
<1>1. /\ wire' = wire \o p /\ outgoing' = q /\ ~closed
      /\ UNCHANGED <<sent, closed, readbuf, chunk, receive, blocking, posted, ended,
                     received, cancels>>
  BY DEF WriteSome, bufferVars, callVars
<1>2. n \in Nat /\ n <= Len(outgoing) /\ wire \in Seq(Bytes) /\ outgoing \in Seq(Bytes)
      /\ Len(outgoing) \in Nat /\ outgoing # <<>>
  BY TypeFacts, EmptySeq
<1>3. p \in Seq(Bytes) /\ q \in Seq(Bytes) /\ p \o q = outgoing
  BY <1>2, SplitBehind
<1>4. Len(q) = Len(outgoing) - n /\ \A k \in 1 .. Len(outgoing) - n : q[k] = outgoing[n + k]
  BY <1>2, SplitBehind
<1> HIDE DEF p, q
<1>5. Types'
  <2>1. wire \o p \in Seq(Bytes)
    BY <1>2, <1>3, ConcatProperties
  <2> QED BY <1>1, <1>3, <2>1 DEF IInv, Types, TypeOK, Bytes
<1>6. Conserved'
  <2>1. p \in Seq(Bytes) /\ q \in Seq(Bytes) /\ wire \in Seq(Bytes)
    BY <1>2, <1>3
  <2>2. (wire \o p) \o q = wire \o (p \o q)
    BY <2>1, ConcatAssociative
  <2>3. Remaining(Taken)' = Remaining(Taken)
    BY <1>1 DEF Remaining, Taken
  <2>4. readbuf' \o chunk' = readbuf \o chunk /\ wire' \o outgoing' = wire \o outgoing
    BY <1>1, <1>3, <2>2, Zenon
  <2> QED BY <2>3, <2>4, Zenon DEF IInv, Conserved
<1>7. TakenWereSent' /\ PostedIsNext'
  BY <1>1 DEF IInv, TakenWereSent, Taken, PostedIsNext
<1>8. OutgoingIsEnd'
  <2>1. outgoing[Len(outgoing)] = NUL /\ \A k \in 1 .. Len(outgoing) - 1 : outgoing[k] # NUL
    BY <1>2 DEF IInv, OutgoingIsEnd
  <2>2. ASSUME q # <<>> PROVE q[Len(q)] = NUL
    <3>1. Len(q) # 0
      BY <1>3, <2>2, EmptySeq
    <3>2. Len(q) \in 1 .. Len(outgoing) - n /\ n + Len(q) = Len(outgoing)
      BY <1>2, <1>4, <3>1
    <3> QED BY <1>4, <2>1, <3>2
  <2>3. ASSUME NEW k \in 1 .. Len(q) - 1 PROVE q[k] # NUL
    <3>1. k \in 1 .. Len(outgoing) - n /\ n + k \in 1 .. Len(outgoing) - 1
      BY <1>2, <1>4
    <3> QED BY <1>4, <2>1, <3>1
  <2> QED BY <1>1, <2>2, <2>3 DEF OutgoingIsEnd
<1>9. NothingOverlooked' /\ EndIsEnd'
  BY <1>1 DEF IInv, NothingOverlooked, EndIsEnd
<1> QED BY <1>5, <1>6, <1>7, <1>8, <1>9 DEF IInv

LEMMA ReadsKeeps ==
  ASSUME IInv, NEW n \in 1 .. Len(wire), Reads(n)
  PROVE  IInv'
<1> DEFINE p == SubSeq(wire, 1, n)
           q == SubSeq(wire, n + 1, Len(wire))
<1>1. /\ receive = "reading" /\ receive' = "read" /\ n <= Cap - Len(readbuf)
      /\ chunk' = p /\ wire' = q
      /\ UNCHANGED <<sent, outgoing, closed, readbuf, blocking, posted, ended,
                     received, cancels>>
  BY DEF Reads, ReadsInto, senderVars
<1>2. /\ n \in Nat /\ n <= Len(wire) /\ Len(wire) \in Nat /\ Len(readbuf) \in Nat
      /\ Cap \in Nat
      /\ wire \in Seq(Bytes) /\ readbuf \in Seq(Bytes) /\ outgoing \in Seq(Bytes)
  BY TypeFacts
<1>3. chunk = <<>> /\ wire # <<>>
  BY <1>1, <1>2, EmptySeq DEF IInv, Types, TypeOK
<1>4. p \in Seq(Bytes) /\ q \in Seq(Bytes) /\ Len(p) = n /\ p \o q = wire
  BY <1>2, SplitBehind
<1> HIDE DEF p, q
<1>5. Types'
  <2>1. Len(readbuf') + Len(chunk') <= Cap
    BY <1>1, <1>2, <1>4
  <2>2. chunk' \in Seq(Byte \cup {NUL}) /\ wire' \in Seq(Byte \cup {NUL})
    BY <1>1, <1>4 DEF Bytes
  <2> QED BY <1>1, <2>1, <2>2 DEF IInv, Types, TypeOK, Stages
<1>6. Conserved'
  <2>1. Remaining(Taken)' = Remaining(Taken)
    BY <1>1 DEF Remaining, Taken
  <2>2. readbuf \o <<>> = readbuf
    BY <1>2, ConcatEmptySeq
  <2>3. readbuf \o ((p \o q) \o outgoing) = Remaining(Taken)
    BY <1>3, <1>4, <2>2, Zenon DEF IInv, Conserved
  <2>4. p \in Seq(Bytes) /\ q \in Seq(Bytes) /\ readbuf \in Seq(Bytes) /\ outgoing \in Seq(Bytes)
    BY <1>2, <1>4
  <2>5. /\ (p \o q) \o outgoing = p \o (q \o outgoing)
        /\ q \o outgoing \in Seq(Bytes)
    <3>1. (p \o q) \o outgoing = p \o (q \o outgoing)
      BY <2>4, ConcatAssociative, SMTT(30)
    <3>2. q \o outgoing \in Seq(Bytes)
      BY <2>4, ConcatProperties, Zenon
    <3> QED BY <3>1, <3>2
  <2> DEFINE r == q \o outgoing
  <2>6. r \in Seq(Bytes)
    BY <2>5
  <2> HIDE DEF r
  <2>7. (readbuf \o p) \o r = readbuf \o (p \o r)
    BY <2>4, <2>6, ConcatAssociative, SMTT(30)
  <2>8. (readbuf \o p) \o r = Remaining(Taken)
    BY <2>3, <2>5, <2>7, Zenon DEF r
  <2> QED BY <1>1, <2>1, <2>8, Zenon DEF Conserved, r
<1>7. TakenWereSent' /\ PostedIsNext' /\ OutgoingIsEnd'
  BY <1>1 DEF IInv, TakenWereSent, Taken, PostedIsNext, OutgoingIsEnd
<1>8. NothingOverlooked' /\ EndIsEnd'
  BY <1>1, <1>3 DEF IInv, NothingOverlooked, EndIsEnd
<1> QED BY <1>5, <1>6, <1>7, <1>8 DEF IInv

\* With no result posted and nothing behind read_end, the buffer comes before
\* the wire.
LEMMA AtRest ==
  ASSUME IInv, receive = "none"
  PROVE  /\ posted = <<>> /\ chunk = <<>> /\ Len(readbuf) <= Cap
         /\ readbuf \o (wire \o outgoing) = Remaining(Taken)
<1>1. posted = <<>> /\ chunk = <<>> /\ Len(readbuf) + Len(chunk) <= Cap
  BY DEF IInv, Types, TypeOK
<1>2. Len(readbuf) <= Cap
  BY <1>1, TypeFacts
<1>3. readbuf \o <<>> = readbuf
  BY TypeFacts, ConcatEmptySeq
<1> QED BY <1>1, <1>2, <1>3, Zenon DEF IInv, Conserved

LEMMA AsyncReceiveKeeps ==
  ASSUME IInv, AsyncReceive
  PROVE  IInv'
<1>1. /\ receive = "none" /\ blocking' = FALSE
      /\ UNCHANGED <<senderVars, wire, closed, cancels>>
  BY DEF AsyncReceive
<1>2. /\ posted = <<>> /\ chunk = <<>> /\ Len(readbuf) <= Cap
      /\ readbuf \o (wire \o outgoing) = Remaining(Taken)
  BY <1>1, AtRest
<1>3. readbuf \in Seq(Bytes) /\ Len(received) \in Nat /\ Len(posted) = 0
  BY <1>2, TypeFacts, EmptySeq
<1>4. CASE Holds(readbuf)
  <2>1. /\ posted' = <<FirstMessage(readbuf)>> /\ readbuf' = BehindMessage(readbuf)
        /\ receive' = "posted" /\ UNCHANGED <<chunk, received, ended>>
    BY <1>4 DEF AsyncReceive
  <2>2. chunk' = <<>> /\ Len(posted') = 1 /\ posted' # <<>> /\ Taken' = Taken + 1
    BY <1>2, <1>3, <2>1 DEF Taken
  <2>3. /\ Taken = Len(received) /\ Len(received) < Len(sent)
        /\ FirstMessage(readbuf) = Channel!Parse(sent[Len(received) + 1])
        /\ readbuf' \in Seq(Bytes) /\ Len(readbuf') + Len(chunk') <= Cap
        /\ Conserved' /\ TakenWereSent' /\ OutgoingIsEnd'
    BY <1>1, <1>2, <1>3, <1>4, <2>1, <2>2, TakesOut
  <2>4. Types'
    BY <1>1, <2>1, <2>2, <2>3 DEF IInv, Types, TypeOK, Stages, senderVars, Bytes
  <2>5. PostedIsNext'
    BY <1>1, <2>1, <2>3, Zenon DEF PostedIsNext, senderVars
  <2>6. NothingOverlooked'
    BY <2>1 DEF NothingOverlooked
  <2>7. EndIsEnd'
    BY <1>4, <2>1 DEF IInv, EndIsEnd
  <2> QED BY <2>3, <2>4, <2>5, <2>6, <2>7 DEF IInv
<1>5. CASE ~Holds(readbuf)
  <2>1. StartRead(readbuf)
    BY <1>5 DEF AsyncReceive
  <2> QED BY <1>1, <1>2, <1>3, <1>5, <2>1, ReadsOn
<1> QED BY <1>4, <1>5

\* The receive that returns a message at once, or ends with one.
LEMMA ReceivesKeeps ==
  ASSUME IInv, NEW buf \in Seq(Bytes), Len(buf) <= Cap, Holds(buf), posted = <<>>,
         ~ended,
         buf \o (wire \o outgoing) = Remaining(Taken),
         readbuf' = BehindMessage(buf), chunk' = <<>>,
         received' = Append(received, FirstMessage(buf)), receive' = "none",
         UNCHANGED <<senderVars, wire, closed, blocking, posted, ended, cancels>>
  PROVE  IInv'
<1>1. FirstMessage(buf) \in {FirstMessage(buf)} \cup Results /\ received \in Seq(Results)
      /\ Len(received) \in Nat
  BY TypeFacts
<1>2. Len(received') = Len(received) + 1
  <2>1. received \in Seq({FirstMessage(buf)} \cup Results)
    BY <1>1, SeqMonotonic
  <2> QED BY <1>1, <2>1, AppendProperties
<1>3. Taken' = Taken + 1
  BY <1>1, <1>2, EmptySeq DEF Taken
<1>4. /\ FirstMessage(buf) \in Results
      /\ readbuf' \in Seq(Bytes) /\ Len(readbuf') + Len(chunk') <= Cap
      /\ Conserved' /\ TakenWereSent' /\ OutgoingIsEnd'
  BY <1>3, TakesOut
<1>5. received' \in Seq(Results)
  BY <1>1, <1>4, AppendProperties
<1>6. Types'
  BY <1>4, <1>5, EmptySeq DEF IInv, Types, TypeOK, Stages, senderVars, Bytes
<1>7. PostedIsNext' /\ NothingOverlooked' /\ EndIsEnd'
  BY DEF PostedIsNext, NothingOverlooked, EndIsEnd
<1> QED BY <1>4, <1>6, <1>7 DEF IInv

LEMMA BlockingReceiveKeeps ==
  ASSUME IInv, BlockingReceive
  PROVE  IInv'
<1>1. receive = "none" /\ UNCHANGED <<senderVars, wire, closed, cancels>>
  BY DEF BlockingReceive
<1>2. /\ posted = <<>> /\ chunk = <<>> /\ Len(readbuf) <= Cap
      /\ readbuf \o (wire \o outgoing) = Remaining(Taken)
  BY <1>1, AtRest
<1>3. readbuf \in Seq(Bytes)
  BY TypeFacts
<1>4. CASE Holds(readbuf)
  <2>1. /\ received' = Append(received, FirstMessage(readbuf))
        /\ readbuf' = BehindMessage(readbuf) /\ UNCHANGED <<chunk, callVars>>
    BY <1>4 DEF BlockingReceive
  <2>2. ~ended
    BY <1>4 DEF IInv, EndIsEnd
  <2>3. /\ receive' = "none" /\ chunk' = <<>>
        /\ UNCHANGED <<senderVars, wire, closed, blocking, posted, ended, cancels>>
    BY <1>1, <1>2, <2>1 DEF callVars
  <2> QED BY <1>2, <1>3, <1>4, <2>1, <2>2, <2>3, ReceivesKeeps
<1>5. CASE ~Holds(readbuf)
  <2>1. StartRead(readbuf) /\ blocking' = TRUE
    BY <1>5 DEF BlockingReceive
  <2> QED BY <1>1, <1>2, <1>3, <1>5, <2>1, ReadsOn
<1> QED BY <1>4, <1>5

LEMMA HandleReadKeeps ==
  ASSUME IInv, HandleRead
  PROVE  IInv'
<1> DEFINE buf == readbuf \o chunk
<1>1. receive = "read" /\ UNCHANGED <<senderVars, wire, closed, blocking, cancels>>
  BY DEF HandleRead, GoesOnWith
<1>2. posted = <<>> /\ blocking \in BOOLEAN /\ Len(readbuf) + Len(chunk) <= Cap
  BY <1>1 DEF IInv, Types, TypeOK
<1>3. buf \in Seq(Bytes) /\ Len(buf) <= Cap
  <2>1. readbuf \in Seq(Bytes) /\ chunk \in Seq(Bytes)
    BY TypeFacts
  <2>2. Len(buf) = Len(readbuf) + Len(chunk)
    BY <2>1, ConcatProperties
  <2> QED BY <1>2, <2>2, TypeFacts
<1>4. buf \o (wire \o outgoing) = Remaining(Taken)
  BY Zenon DEF IInv, Conserved
<1>5. CASE Holds(buf)
  <2>1. /\ received' = Append(received, FirstMessage(buf))
        /\ readbuf' = BehindMessage(buf) /\ chunk' = <<>> /\ receive' = "none"
        /\ UNCHANGED <<posted, ended>>
    BY <1>5, Zenon DEF HandleRead, GoesOnWith
  <2>2. ~ended
    <3>1. readbuf \o <<>> = readbuf
      BY TypeFacts, ConcatEmptySeq
    <3> QED BY <1>5, <3>1, Zenon DEF IInv, EndIsEnd
  <2> HIDE DEF buf
  <2> QED BY <1>1, <1>2, <1>3, <1>4, <1>5, <2>1, <2>2, ReceivesKeeps
<1>6. CASE ~Holds(buf)
  <2>1. StartRead(buf)
    BY <1>6, Zenon DEF HandleRead, GoesOnWith
  <2>2. blocking' \in BOOLEAN
    BY <1>1, <1>2
  <2> HIDE DEF buf
  <2> QED BY <1>1, <1>2, <1>3, <1>4, <1>6, <2>1, <2>2, ReadsOn
<1> QED BY <1>5, <1>6

LEMMA HandlePostedKeeps ==
  ASSUME IInv, HandlePosted
  PROVE  IInv'
<1>1. /\ receive = "posted" /\ receive' = "none" /\ received' = received \o posted
      /\ posted' = <<>>
      /\ UNCHANGED <<senderVars, wire, closed, bufferVars, blocking, ended, cancels>>
  BY DEF HandlePosted
<1>2. posted # <<>>
  BY <1>1 DEF IInv, Types, TypeOK
<1>3. /\ Len(received) < Len(sent)
      /\ posted = <<Channel!Parse(sent[Len(received) + 1])>>
  BY <1>2 DEF IInv, PostedIsNext
<1>4. posted \in Seq(Results) /\ Len(posted) = 1
  <2>1. Len(received) + 1 \in 1 .. Len(sent) /\ sent \in Seq(Message)
    BY <1>3, TypeFacts
  <2>2. sent[Len(received) + 1] \in Message
    BY <2>1, ElementOfSeq
  <2>3. Channel!Parse(sent[Len(received) + 1]) \in Results
    BY <2>2, Zenon DEF Results
  <2> QED BY <1>3, <2>3
<1>5. received' \in Seq(Results) /\ Len(received') = Len(received) + 1
  <2>1. received \in Seq(Results) /\ posted \in Seq(Results)
    BY <1>4, TypeFacts
  <2>2. received \o posted \in Seq(Results)
        /\ Len(received \o posted) = Len(received) + Len(posted)
    BY <2>1, ConcatProperties
  <2> QED BY <1>1, <1>4, <2>2
<1>6. Taken' = Taken
  BY <1>1, <1>4, <1>5, TypeFacts, EmptySeq DEF Taken
<1>7. Types'
  BY <1>1, <1>5 DEF IInv, Types, TypeOK, Stages, senderVars, bufferVars
<1>8. Conserved'
  BY <1>1, <1>6, Zenon DEF IInv, Conserved, Remaining, senderVars, bufferVars
<1>9. TakenWereSent' /\ PostedIsNext' /\ OutgoingIsEnd'
  BY <1>1, <1>6 DEF IInv, TakenWereSent, PostedIsNext, OutgoingIsEnd, senderVars
<1>10. NothingOverlooked' /\ EndIsEnd'
  BY <1>1, <1>2 DEF IInv, NothingOverlooked, EndIsEnd
<1> QED BY <1>7, <1>8, <1>9, <1>10 DEF IInv

LEMMA Inductive == IInv /\ [Next]_vars => IInv'
<1> SUFFICES ASSUME IInv, [Next]_vars PROVE IInv'
  OBVIOUS
<1>1. ASSUME NEW m \in Message, Send(m) PROVE IInv'
  BY <1>1, SendKeeps
<1>2. CASE Write
  BY <1>2, WriteKeeps
<1>3. CASE SenderCloses
  <2> USE <1>3 DEF SenderCloses, senderVars, bufferVars, callVars
  <2>1. Conserved' /\ TakenWereSent' /\ PostedIsNext' /\ OutgoingIsEnd'
    BY NothingMoves
  <2>2. Types' /\ NothingOverlooked' /\ EndIsEnd'
    BY DEF IInv, Types, TypeOK, NothingOverlooked, EndIsEnd
  <2> QED BY <2>1, <2>2 DEF IInv
<1>4. CASE AsyncReceive
  BY <1>4, AsyncReceiveKeeps
<1>5. CASE BlockingReceive
  BY <1>5, BlockingReceiveKeeps
<1>6. CASE ReadsEndOfFile
  <2> USE <1>6 DEF ReadsEndOfFile, senderVars, bufferVars
  <2>1. Conserved' /\ TakenWereSent' /\ PostedIsNext' /\ OutgoingIsEnd'
    BY NothingMoves
  <2>2. Types' /\ NothingOverlooked' /\ EndIsEnd'
    BY DEF IInv, Types, TypeOK, Stages, NothingOverlooked, EndIsEnd
  <2> QED BY <2>1, <2>2 DEF IInv
<1>7. ASSUME NEW n \in 1 .. Len(wire), Reads(n) PROVE IInv'
  BY <1>7, ReadsKeeps
<1>8. CASE HandleRead
  BY <1>8, HandleReadKeeps
<1>9. CASE HandleError
  <2> USE <1>9 DEF HandleError, senderVars, bufferVars
  <2>1. Conserved' /\ TakenWereSent' /\ PostedIsNext' /\ OutgoingIsEnd'
    BY NothingMoves
  <2>2. Types' /\ NothingOverlooked' /\ EndIsEnd'
    BY DEF IInv, Types, TypeOK, Stages, NothingOverlooked, EndIsEnd
  <2> QED BY <2>1, <2>2 DEF IInv
<1>10. CASE HandlePosted
  BY <1>10, HandlePostedKeeps
<1>11. CASE Cancel
  <2> USE <1>11 DEF Cancel, senderVars, bufferVars
  <2>1. Conserved' /\ TakenWereSent' /\ PostedIsNext' /\ OutgoingIsEnd'
    BY NothingMoves
  <2>2. cancels' \in 0 .. MaxCancels
    BY BoundAssumption DEF IInv, Types, TypeOK
  <2>3. Types' /\ NothingOverlooked' /\ EndIsEnd'
    BY <2>2 DEF IInv, Types, TypeOK, Stages, NothingOverlooked, EndIsEnd
  <2> QED BY <2>1, <2>3 DEF IInv
<1>12. CASE UNCHANGED vars
  <2> USE <1>12 DEF vars, senderVars, bufferVars, callVars
  <2>1. Conserved' /\ TakenWereSent' /\ PostedIsNext' /\ OutgoingIsEnd'
    BY NothingMoves
  <2>2. Types' /\ NothingOverlooked' /\ EndIsEnd'
    BY DEF IInv, Types, TypeOK, NothingOverlooked, EndIsEnd
  <2> QED BY <2>1, <2>2 DEF IInv
<1> QED BY <1>1, <1>2, <1>3, <1>4, <1>5, <1>6, <1>7, <1>8, <1>9, <1>10, <1>11, <1>12
        DEF Next, Kernel, Handler

LEMMA InvariantHolds == Spec => []IInv
BY InitHolds, Inductive, PTL DEF Spec
-----------------------------------------------------------------------------
(* The theorems.                                                           *)

\* A read never puts more bytes behind read_end than the buffer has room
\* for, and a result is posted exactly while its handler is due.
THEOREM TypeCorrect == Spec => []TypeOK
<1>1. IInv => TypeOK
  BY DEF IInv, Types
<1> QED BY <1>1, InvariantHolds, PTL

\* No byte is lost, doubled or moved, for every buffer size and however the
\* kernel cuts the frames up.
THEOREM NoByteLost == Spec => []BytesConserved
<1>1. ASSUME IInv PROVE BytesConserved
  <2> DEFINE buf == readbuf \o chunk
  <2>1. buf \in Seq(Bytes) /\ wire \in Seq(Bytes) /\ outgoing \in Seq(Bytes)
    BY <1>1, TypeFacts
  <2> HIDE DEF buf
  <2>2. (buf \o wire) \o outgoing = buf \o (wire \o outgoing)
    BY <2>1, ConcatAssociative
  <2>3. buf \o (wire \o outgoing) = Remaining(Taken)
    BY <1>1, Zenon DEF IInv, Conserved, buf
  <2> QED BY <2>2, <2>3, Zenon DEF BytesConserved, Remaining, Taken, buf
<1> QED BY <1>1, InvariantHolds, PTL

\* An end of file is never reported instead of a message that arrived.
THEOREM EndComesLast == Spec => []EofAfterLastMessage
<1>1. ASSUME IInv PROVE EofAfterLastMessage
  <2> SUFFICES ASSUME ended PROVE Len(received) = Complete
    BY DEF EofAfterLastMessage
  <2>1. wire = <<>> /\ chunk = <<>> /\ posted = <<>> /\ ~Holds(readbuf)
    BY <1>1 DEF IInv, EndIsEnd
  <2>2. /\ readbuf \in Seq(Bytes) /\ outgoing \in Seq(Bytes) /\ sent \in Seq(Message)
        /\ Len(received) \in Nat /\ Taken = Len(received) /\ Len(received) <= Len(sent)
    BY <1>1, <2>1, TypeFacts DEF Taken
  <2>3. readbuf \o <<>> = readbuf /\ <<>> \o outgoing = outgoing
    BY <2>2, ConcatEmptySeq
  <2>4. readbuf \o outgoing = Frames(SubSeq(sent, Len(received) + 1, Len(sent)))
    BY <1>1, <2>1, <2>2, <2>3, Zenon DEF IInv, Conserved, Remaining
  <2>5. /\ outgoing # <<>> => outgoing[Len(outgoing)] = NUL
        /\ \A k \in 1 .. Len(outgoing) - 1 : outgoing[k] # NUL
    BY <1>1 DEF IInv, OutgoingIsEnd
  <2>6. Len(received) = IF outgoing = <<>> THEN Len(sent) ELSE Len(sent) - 1
    BY <2>1, <2>2, <2>4, <2>5, ReadOut
  <2> QED BY <2>6 DEF Complete
<1> QED BY <1>1, InvariantHolds, PTL

\* A receive ends with the next message sent: json_connection implements the
\* channel that its users rely on.
LEMMA ReceiveImplements ==
  ASSUME NEW r, Len(received) < Len(sent), sent' = sent,
         r = Channel!Parse(sent[Len(received) + 1]), received' = Append(received, r)
  PROVE  Channel!Next
BY DEF Channel!Next, Channel!Receive

LEMMA TakenIsReceived ==
  ASSUME IInv, NEW buf \in Seq(Bytes), Holds(buf), posted = <<>>,
         buf \o (wire \o outgoing) = Remaining(Taken), sent' = sent,
         received' = Append(received, FirstMessage(buf))
  PROVE  Channel!Next
<1> DEFINE rest == wire \o outgoing
           n == Len(received)
<1>1. Taken = n /\ n \in Nat /\ n <= Len(sent) /\ sent \in Seq(Message)
      /\ rest \in Seq(Bytes)
  BY TypeFacts DEF Taken
<1>2. buf \o rest = Frames(SubSeq(sent, n + 1, Len(sent)))
  BY <1>1 DEF Remaining
<1> HIDE DEF rest, n
<1>3. n < Len(sent) /\ FirstMessage(buf) = Channel!Parse(sent[n + 1])
  BY <1>1, <1>2, TakeFirst
<1> QED BY <1>3, ReceiveImplements DEF n

LEMMA StepImplements == IInv /\ [Next]_vars => [Channel!Next]_(Channel!vars)
<1> SUFFICES ASSUME IInv, [Next]_vars PROVE [Channel!Next]_(Channel!vars)
  OBVIOUS
<1>1. ASSUME NEW m \in Message, Send(m) PROVE [Channel!Next]_(Channel!vars)
  BY <1>1 DEF Send, Channel!Next, Channel!Send
<1>2. ASSUME UNCHANGED <<sent, received>> PROVE [Channel!Next]_(Channel!vars)
  BY <1>2 DEF Channel!vars
<1>3. CASE Write \/ SenderCloses \/ AsyncReceive \/ ReadsEndOfFile \/ HandleError
           \/ Cancel \/ (\E n \in 1 .. Len(wire) : Reads(n)) \/ UNCHANGED vars
  BY <1>2, <1>3 DEF Write, WriteSome, SenderCloses, AsyncReceive, StartRead,
     ReadsEndOfFile, HandleError, Cancel, Reads, ReadsInto, vars, senderVars
<1>4. CASE BlockingReceive
  <2>1. receive = "none" /\ sent' = sent
    BY <1>4 DEF BlockingReceive, senderVars
  <2>2. CASE Holds(readbuf)
    <3>1. /\ posted = <<>> /\ readbuf \in Seq(Bytes)
          /\ readbuf \o (wire \o outgoing) = Remaining(Taken)
      BY <2>1, AtRest, TypeFacts
    <3>2. received' = Append(received, FirstMessage(readbuf))
      BY <1>4, <2>2 DEF BlockingReceive
    <3> QED BY <2>1, <2>2, <3>1, <3>2, TakenIsReceived
  <2>3. CASE ~Holds(readbuf)
    BY <1>2, <1>4, <2>1, <2>3 DEF BlockingReceive, StartRead
  <2> QED BY <2>2, <2>3
<1>5. CASE HandleRead
  <2> DEFINE buf == readbuf \o chunk
  <2>1. receive = "read" /\ sent' = sent
    BY <1>5 DEF HandleRead, GoesOnWith, senderVars
  <2>2. CASE Holds(buf)
    <3>1. posted = <<>>
      BY <2>1 DEF IInv, Types, TypeOK
    <3>2. received' = Append(received, FirstMessage(buf))
      BY <1>5, <2>2, Zenon DEF HandleRead, GoesOnWith
    <3>3. buf \in Seq(Bytes)
      BY TypeFacts
    <3>4. buf \o (wire \o outgoing) = Remaining(Taken)
      BY Zenon DEF IInv, Conserved
    <3> HIDE DEF buf
    <3> QED BY <2>1, <2>2, <3>1, <3>2, <3>3, <3>4, TakenIsReceived
  <2>3. CASE ~Holds(buf)
    <3>1. received' = received
      BY <1>5, <2>3, Zenon DEF HandleRead, GoesOnWith, StartRead
    <3> QED BY <1>2, <2>1, <3>1
  <2> QED BY <2>2, <2>3
<1>6. CASE HandlePosted
  <2>1. posted # <<>> /\ received' = received \o posted /\ sent' = sent
    BY <1>6 DEF HandlePosted, IInv, Types, TypeOK, senderVars
  <2> DEFINE r == Channel!Parse(sent[Len(received) + 1])
  <2>2. Len(received) < Len(sent) /\ posted = <<r>>
    BY <2>1 DEF IInv, PostedIsNext
  <2>3. received \in Seq({r} \cup Results)
    BY TypeFacts, SeqMonotonic
  <2> HIDE DEF r
  <2>4. Append(received, r) = received \o <<r>>
    BY <2>3, AppendIsConcat
  <2>5. received' = Append(received, r)
    BY <2>1, <2>2, <2>4, Zenon
  <2> QED BY <2>1, <2>2, <2>5, ReceiveImplements DEF r
<1> QED BY <1>1, <1>3, <1>4, <1>5, <1>6 DEF Next, Kernel, Handler

\* Receives return the messages sent, in order, each once.
THEOREM ConnectionIsChannel == Spec => ImplementsChannel
<1>1. Init => Channel!Init
  BY DEF Init, Channel!Init
<1>2. Spec => Channel!Spec
  BY <1>1, StepImplements, InvariantHolds, PTL DEF Spec, Channel!Spec
<1> QED BY <1>2 DEF ImplementsChannel
=============================================================================
