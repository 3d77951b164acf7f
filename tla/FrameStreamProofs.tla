------------------------- MODULE FrameStreamProofs -------------------------
(***************************************************************************)
(* The frames of a byte stream, proved for any sizes and limits: they      *)
(* arrive whole and in order, the writer's byte count is right, and the    *)
(* decoder gives up on an undisturbed writer only when it is full.         *)
(*                                                                         *)
(* The invariant numbers the bytes: frame n starts behind the st[n] bytes  *)
(* queued in front of it, and while the decoder works on what was queued   *)
(* the i-th byte between the decoder's frames and the writer is the one    *)
(* numbered st[Len(Out) + 1] + i.  So the byte the decoder takes for the   *)
(* k-th of frame n is the k-th of frame n.  Stop breaks the numbering,     *)
(* since the rest of the frame that was being sent is gone; it is claimed  *)
(* of the bytes in front of Close's, which were sent before.               *)
(***************************************************************************)
EXTENDS FrameStream, SequenceTheorems, WellFoundedInduction, TLAPS

\* A byte of a frame that has been queued.
Bytes == {b \in [frame : 1..Len(sizes), at : Nat] : 1 <= b.at /\ b.at <= sizes[b.frame]}

TypeInv ==
  /\ sizes \in Seq(Sizes) /\ closeFrame \in {0, Len(sizes)}
  /\ wFrames \in Seq(Nat) /\ wOffset \in Nat
  /\ wire \in Seq(Bytes) /\ input \in Seq(Bytes) /\ dBuffer \in Seq(Bytes)
  /\ dFrames \in Seq(Seq(Bytes)) /\ delivered \in Seq(Seq(Bytes))
  /\ dExpected \in Sizes \cup {0} /\ dBytes \in Nat /\ dError \in BOOLEAN

\* The writer has the last frames; after Stop it has Close at most.
WriterInv ==
  /\ Len(wFrames) <= Len(sizes)
  /\ \A i \in 1..Len(wFrames) : wFrames[i] = Len(sizes) - Len(wFrames) + i
  /\ wFrames = << >> => wOffset = 0
  /\ wFrames # << >> => wOffset < sizes[Len(sizes) - Len(wFrames) + 1]
  /\ closeFrame # 0 => Len(wFrames) <= 1

\* All bytes between the writer and the decoder's frames, and all frames after it.
Stream == dBuffer \o input \o wire
Out == delivered \o dFrames

\* No byte of Close is in the first n frames that came out.
CleanTo(n) == \A k \in 1..n : ~HasClose(Out[k])
Clean == CleanTo(Len(Out))

FramesInv == \A n \in 1..Len(Out) : CleanTo(n) => n <= Len(sizes) /\ Out[n] = Whole(n)

\* st[n] bytes are queued in front of frame n.
Layout(st) ==
  /\ st \in [1..(Len(sizes) + 1) -> Nat]
  /\ \A n \in 1..Len(sizes) : st[n + 1] = st[n] + sizes[n]
  /\ \A m \in 1..Len(sizes) : \A n \in (m + 1)..(Len(sizes) + 1) : st[m] + sizes[m] <= st[n]

CountInv(st) == wBytes = st[Len(sizes) + 1] - st[Len(sizes) + 1 - Len(wFrames)] - wOffset

PlaceInv(st) ==
  ~dError /\ Clean =>
    /\ \A i \in 1..Len(Stream) : Stream[i].frame # closeFrame => st[Stream[i].frame] + Stream[i].at = st[Len(Out) + 1] + i
    /\ closeFrame = 0 => st[Len(sizes) + 1 - Len(wFrames)] + wOffset = st[Len(Out) + 1] + Len(Stream)

LengthInv ==
  ~dError =>
    /\ dExpected = 0 => Len(dBuffer) < LengthSize
    /\ dExpected # 0 => LengthSize <= Len(dBuffer) /\ Len(dBuffer) < dExpected
    /\ Clean /\ dExpected # 0 /\ (\A i \in 1..LengthSize : dBuffer[i].frame # closeFrame) =>
         Len(Out) + 1 <= Len(sizes) /\ dExpected = sizes[Len(Out) + 1]

BytesInv ==
  ~dError =>
    /\ dBytes + Len(dBuffer) + Len(input) <= MaxBytes
    /\ dFrames = << >> => dBytes = 0

StreamInv ==
  /\ TypeInv /\ WriterInv /\ FramesInv /\ LengthInv /\ BytesInv
  /\ \E st \in [1..(Len(sizes) + 1) -> Nat] : Layout(st) /\ CountInv(st) /\ PlaceInv(st)

-----------------------------------------------------------------------------
(* Constants, and operators of the community modules *)

LEMMA SizeFacts ==
  /\ LengthSize \in Nat \ {0} /\ MaxFrames \in Nat \ {0} /\ MaxBytes \in Nat /\ Chunk \in Nat \ {0}
  /\ CloseSize \in Sizes
  /\ \A s \in Sizes : s \in Nat /\ LengthSize < s /\ Chunk + s <= MaxBytes
BY StreamAssumption

LEMMA MinOfTwo ==
  ASSUME NEW a \in Nat, NEW b \in Nat
  PROVE  Min({a, b}) \in Nat /\ Min({a, b}) = IF a <= b THEN a ELSE b
<1>1. \E x \in {a, b} : \A y \in {a, b} : x =< y  BY SMT
<1>2. Min({a, b}) \in {a, b} /\ \A y \in {a, b} : Min({a, b}) =< y  BY <1>1 DEF Min
<1> QED
  BY <1>2

\* The largest size exists because sizes are bounded.
LEMMA MaxIsSize == Max(Sizes) \in Nat
<1> DEFINE Room == {n \in Nat : \E s \in Sizes : n = MaxBytes - s}
<1>1. Room \subseteq Nat  OBVIOUS
<1>2. MaxBytes - CloseSize \in Room  BY SizeFacts
<1>3. PICK x \in Room : \A y \in Room : ~(<<y, x>> \in OpToRel(<, Nat))
  BY <1>1, <1>2, NatLessThanWellFounded, WFMin
<1>4. \A y \in Room : ~(y < x)  BY <1>1, <1>3 DEF OpToRel
<1>5. PICK s \in Sizes : x = MaxBytes - s  BY <1>3
<1>6. \A t \in Sizes : MaxBytes - t \in Room  BY SizeFacts
<1>7. \A t \in Sizes : s >= t  BY <1>4, <1>5, <1>6, SizeFacts
<1>8. Max(Sizes) \in Sizes  BY <1>5, <1>7 DEF Max
<1> QED
  BY <1>8, SizeFacts

\* What SMT is told about the pieces of a sequence.
LEMMA Cut ==
  ASSUME NEW S, NEW s \in Seq(S), NEW n \in 0..Len(s)
  PROVE  /\ SubSeq(s, 1, n) \in Seq(S) /\ Len(SubSeq(s, 1, n)) = n
         /\ \A i \in 1..n : SubSeq(s, 1, n)[i] = s[i]
         /\ SubSeq(s, n + 1, Len(s)) \in Seq(S) /\ Len(SubSeq(s, n + 1, Len(s))) = Len(s) - n
         /\ \A i \in 1..(Len(s) - n) : SubSeq(s, n + 1, Len(s))[i] = s[n + i]
<1>1. \A i \in 1..Len(s) : s[i] \in S  BY ElementOfSeq
<1>2. Len(s) \in Nat  BY LenProperties
<1>3. \A i \in 1..n : s[i] \in S  BY <1>1, <1>2
<1>4. \A i \in (n + 1)..Len(s) : s[i] \in S  BY <1>1, <1>2
<1>5. 1 \in Int /\ n \in Int /\ n + 1 \in Int /\ Len(s) \in Int  BY <1>2
<1>6. /\ SubSeq(s, 1, n) \in Seq(S) /\ Len(SubSeq(s, 1, n)) = IF 1 <= n THEN n - 1 + 1 ELSE 0
      /\ \A i \in 1..(n - 1 + 1) : SubSeq(s, 1, n)[i] = s[1 + i - 1]
  BY <1>3, <1>5, SubSeqProperties
<1>7. /\ SubSeq(s, n + 1, Len(s)) \in Seq(S)
      /\ Len(SubSeq(s, n + 1, Len(s))) = IF n + 1 <= Len(s) THEN Len(s) - (n + 1) + 1 ELSE 0
      /\ \A i \in 1..(Len(s) - (n + 1) + 1) : SubSeq(s, n + 1, Len(s))[i] = s[n + 1 + i - 1]
  BY <1>4, <1>5, SubSeqProperties
<1>8. Len(SubSeq(s, 1, n)) = n /\ \A i \in 1..n : SubSeq(s, 1, n)[i] = s[i]  BY <1>2, <1>6
<1>9. Len(SubSeq(s, n + 1, Len(s))) = Len(s) - n  BY <1>2, <1>7
<1>10. \A i \in 1..(Len(s) - n) : SubSeq(s, n + 1, Len(s))[i] = s[n + i]  BY <1>2, <1>7
<1> QED
  BY <1>6, <1>7, <1>8, <1>9, <1>10

LEMMA Behind ==
  ASSUME NEW S
  PROVE  \A s, t \in Seq(S) : /\ s \o t \in Seq(S) /\ Len(s \o t) = Len(s) + Len(t)
                              /\ \A i \in 1..Len(s) : (s \o t)[i] = s[i]
                              /\ \A i \in 1..Len(t) : (s \o t)[Len(s) + i] = t[i]
<1> TAKE s, t \in Seq(S)
<1>1. Len(s) \in Nat /\ Len(t) \in Nat  BY LenProperties
<1>2. /\ s \o t \in Seq(S) /\ Len(s \o t) = Len(s) + Len(t)
      /\ \A i \in 1..(Len(s) + Len(t)) : (s \o t)[i] = IF i <= Len(s) THEN s[i] ELSE t[i - Len(s)]
  BY ConcatProperties, Zenon
<1>3. \A i \in 1..Len(s) : (s \o t)[i] = s[i]  BY <1>1, <1>2
<1>4. \A i \in 1..Len(t) : (s \o t)[Len(s) + i] = t[i]  BY <1>1, <1>2
<1> QED
  BY <1>2, <1>3, <1>4

\* A sequence cut in two is put together again.
LEMMA Joined ==
  ASSUME NEW S, NEW s \in Seq(S), NEW n \in 0..Len(s)
  PROVE  SubSeq(s, 1, n) \o SubSeq(s, n + 1, Len(s)) = s
<1>1. Len(s) \in Nat  BY LenProperties
<1>2. 1 \in 1..(Len(s) + 1) /\ n \in (1 - 1)..Len(s) /\ Len(s) \in n..Len(s)  BY <1>1
<1>3. SubSeq(s, 1, n) \o SubSeq(s, n + 1, Len(s)) = SubSeq(s, 1, Len(s))  BY <1>2, ConcatAdjacentSubSeq
<1> QED
  BY <1>3, SubSeqFull

LEMMA Sliced ==
  ASSUME NEW n \in Nat, NEW from \in Nat, NEW to \in Nat, NEW S, from <= to + 1,
         \A i \in from..to : [frame |-> n, at |-> i] \in S
  PROVE  /\ Slice(n, from, to) \in Seq(S) /\ Len(Slice(n, from, to)) = to - from + 1
         /\ \A i \in 1..(to - from + 1) : Slice(n, from, to)[i] = [frame |-> n, at |-> from + i - 1]
<1>1. to - from + 1 \in Nat  OBVIOUS
<1>2. \A i \in 1..(to - from + 1) : [frame |-> n, at |-> from + i - 1] \in S  OBVIOUS
<1>3. Slice(n, from, to) \in [1..(to - from + 1) -> S]  BY <1>2 DEF Slice
<1> QED
  BY <1>1, <1>3, SeqDef DEF Slice

-----------------------------------------------------------------------------
(* What the invariant says of the stream *)

LEMMA RegroupBytes == \A s, t, u \in Seq(Bytes) : (s \o t) \o u = s \o (t \o u)
BY ConcatAssociative

LEMMA RegroupFrames == \A s, t, u \in Seq(Seq(Bytes)) : (s \o t) \o u = s \o (t \o u)
<1> DEFINE Pieces == Seq(Bytes)
<1> HIDE DEF Pieces
<1>1. \A s, t, u \in Seq(Pieces) : (s \o t) \o u = s \o (t \o u)  BY ConcatAssociative
<1> QED
  BY <1>1 DEF Pieces

LEMMA ByteFacts ==
  ASSUME TypeInv
  PROVE  /\ Len(sizes) \in Nat /\ \A n \in 1..Len(sizes) : sizes[n] \in Sizes
         /\ \A b \in Bytes : b.frame \in 1..Len(sizes) /\ b.at \in 1..sizes[b.frame]
                             /\ sizes[b.frame] \in Sizes /\ b = [frame |-> b.frame, at |-> b.at]
<1>1. sizes \in Seq(Sizes)  BY DEF TypeInv
<1>2. Len(sizes) \in Nat /\ \A n \in 1..Len(sizes) : sizes[n] \in Sizes  BY <1>1, LenProperties, ElementOfSeq
<1>3. ASSUME NEW b \in Bytes
      PROVE  b.frame \in 1..Len(sizes) /\ b.at \in 1..sizes[b.frame] /\ b = [frame |-> b.frame, at |-> b.at]
  BY <1>2, SizeFacts DEF Bytes
<1> QED
  BY <1>2, <1>3

LEMMA OutFacts ==
  ASSUME TypeInv
  PROVE  /\ Out \in Seq(Seq(Bytes)) /\ Len(Out) = Len(delivered) + Len(dFrames)
         /\ Len(delivered) \in Nat /\ Len(dFrames) \in Nat
         /\ \A n \in 1..Len(delivered) : Out[n] = delivered[n]
<1>1. delivered \in Seq(Seq(Bytes)) /\ dFrames \in Seq(Seq(Bytes))  BY DEF TypeInv
<1>2. /\ Out \in Seq(Seq(Bytes)) /\ Len(Out) = Len(delivered) + Len(dFrames)
      /\ \A i \in 1..(Len(delivered) + Len(dFrames)) :
           Out[i] = IF i <= Len(delivered) THEN delivered[i] ELSE dFrames[i - Len(delivered)]
  BY <1>1, ConcatProperties DEF Out
<1>3. Len(delivered) \in Nat /\ Len(dFrames) \in Nat  BY <1>1, LenProperties
<1>4. \A n \in 1..Len(delivered) : Out[n] = delivered[n]  BY <1>2, <1>3
<1> QED
  BY <1>2, <1>3, <1>4

LEMMA StreamFacts ==
  ASSUME TypeInv
  PROVE  /\ Stream \in Seq(Bytes) /\ Len(Stream) = Len(dBuffer) + Len(input) + Len(wire)
         /\ Len(dBuffer) \in Nat /\ Len(input) \in Nat /\ Len(wire) \in Nat
         /\ \A i \in 1..Len(dBuffer) : Stream[i] = dBuffer[i]
         /\ \A i \in 1..Len(input) : Stream[Len(dBuffer) + i] = input[i]
<1>1. dBuffer \in Seq(Bytes) /\ input \in Seq(Bytes) /\ wire \in Seq(Bytes)  BY DEF TypeInv
<1>2. Len(dBuffer) \in Nat /\ Len(input) \in Nat /\ Len(wire) \in Nat  BY <1>1, LenProperties
<1> DEFINE Read == dBuffer \o input
<1>3. /\ Read \in Seq(Bytes) /\ Len(Read) = Len(dBuffer) + Len(input)
      /\ \A i \in 1..Len(dBuffer) : Read[i] = dBuffer[i]
      /\ \A i \in 1..Len(input) : Read[Len(dBuffer) + i] = input[i]
  BY <1>1, Behind
<1> HIDE DEF Read
<1>4. Read \in Seq(Bytes) /\ wire \in Seq(Bytes)  BY <1>1, <1>3
<1>5. /\ Read \o wire \in Seq(Bytes) /\ Len(Read \o wire) = Len(Read) + Len(wire)
      /\ \A i \in 1..Len(Read) : (Read \o wire)[i] = Read[i]
  BY <1>4, Behind
<1>6. /\ Stream \in Seq(Bytes) /\ Len(Stream) = Len(Read) + Len(wire)
      /\ \A i \in 1..Len(Read) : Stream[i] = Read[i]
  BY <1>5 DEF Stream, Read
<1>7. \A i \in 1..Len(dBuffer) : Stream[i] = dBuffer[i]  BY <1>2, <1>3, <1>6
<1>8. \A i \in 1..Len(input) : Stream[Len(dBuffer) + i] = input[i]  BY <1>2, <1>3, <1>6
<1> QED
  BY <1>2, <1>3, <1>6, <1>7, <1>8

\* Before Stop nothing can be taken for Close.
LEMMA CleanBeforeStop ==
  ASSUME TypeInv, closeFrame = 0
  PROVE  Clean
<1> SUFFICES ASSUME NEW k \in 1..Len(Out) PROVE ~HasClose(Out[k])
  BY DEF Clean, CleanTo
<1>1. Out[k] \in Seq(Bytes)  BY OutFacts, ElementOfSeq
<1>2. DOMAIN Out[k] = 1..Len(Out[k]) /\ \A i \in 1..Len(Out[k]) : Out[k][i] \in Bytes
  BY <1>1, LenProperties, ElementOfSeq
<1> QED
  BY <1>2, ByteFacts DEF HasClose

\* While no byte of Close has come out, no more frames have than were queued.
LEMMA CleanMeansQueued ==
  ASSUME TypeInv, FramesInv, Clean
  PROVE  Len(Out) \in Nat /\ Len(Out) <= Len(sizes)
<1>1. Len(Out) \in Nat  BY OutFacts
<1>2. Len(Out) >= 1 => Len(Out) <= Len(sizes)  BY <1>1 DEF FramesInv, Clean
<1> QED
  BY <1>1, <1>2, ByteFacts

\* The byte k places behind the start of frame F, no further than F's end, is F's.
LEMMA PlacedAt ==
  ASSUME TypeInv, NEW st, Layout(st), NEW b \in Bytes, NEW F \in 1..(Len(sizes) + 1), NEW k \in Nat \ {0},
         st[b.frame] + b.at = st[F] + k, F <= Len(sizes) => k <= sizes[F]
  PROVE  F <= Len(sizes) /\ b = [frame |-> F, at |-> k]
<1>1. /\ b.frame \in 1..Len(sizes) /\ b.at \in 1..sizes[b.frame] /\ sizes[b.frame] \in Nat
      /\ b = [frame |-> b.frame, at |-> b.at]
  BY ByteFacts, SizeFacts
<1>2. Len(sizes) \in Nat /\ \A n \in 1..Len(sizes) : sizes[n] \in Nat  BY ByteFacts, SizeFacts
<1>3. st[b.frame] \in Nat /\ st[F] \in Nat  BY <1>1, <1>2 DEF Layout
<1>4. \A m \in 1..Len(sizes) : \A n \in (m + 1)..(Len(sizes) + 1) : st[m] + sizes[m] <= st[n]  BY DEF Layout
<1>5. ~(b.frame < F)
  <2> SUFFICES ASSUME b.frame < F PROVE FALSE
    OBVIOUS
  <2>1. F \in (b.frame + 1)..(Len(sizes) + 1)  BY <1>1, <1>2
  <2>2. st[b.frame] + sizes[b.frame] <= st[F]  BY <1>1, <1>4, <2>1
  <2> QED
    BY <1>1, <1>3, <2>2
<1>6. ~(F < b.frame)
  <2> SUFFICES ASSUME F < b.frame PROVE FALSE
    OBVIOUS
  <2>1. F \in 1..Len(sizes) /\ b.frame \in (F + 1)..(Len(sizes) + 1)  BY <1>1, <1>2
  <2>2. st[F] + sizes[F] <= st[b.frame]  BY <1>4, <2>1
  <2>3. k <= sizes[F] /\ sizes[F] \in Nat  BY <1>2, <2>1
  <2> QED
    BY <1>1, <1>3, <2>2, <2>3
<1>7. b.frame = F  BY <1>1, <1>2, <1>5, <1>6
<1>8. b.at = k  BY <1>1, <1>3, <1>7
<1> QED
  BY <1>1, <1>7, <1>8

\* The next frame to come out, when none of its first n bytes is Close's: they are
\* its own, in order.
LEMMA NextFrame ==
  ASSUME TypeInv, FramesInv, NEW st, Layout(st), PlaceInv(st), ~dError, Clean,
         NEW n \in 1..Len(Stream), \A i \in 1..n : Stream[i].frame # closeFrame,
         Len(Out) + 1 <= Len(sizes) => n <= sizes[Len(Out) + 1]
  PROVE  /\ Len(Out) + 1 <= Len(sizes)
         /\ \A i \in 1..n : Stream[i] = [frame |-> Len(Out) + 1, at |-> i]
<1>1. Len(Out) + 1 \in 1..(Len(sizes) + 1)  BY CleanMeansQueued, ByteFacts
<1>2. Len(Stream) \in Nat /\ Stream \in Seq(Bytes)  BY StreamFacts
<1>3. \A n_1 \in 1..Len(sizes) : sizes[n_1] \in Nat  BY ByteFacts, SizeFacts
<1>4. ASSUME NEW i \in 1..n
      PROVE  Len(Out) + 1 <= Len(sizes) /\ Stream[i] = [frame |-> Len(Out) + 1, at |-> i]
  <2>1. i \in 1..Len(Stream) /\ i \in Nat \ {0}  BY <1>2
  <2>2. Stream[i] \in Bytes  BY <1>2, <2>1, ElementOfSeq
  <2>3. st[Stream[i].frame] + Stream[i].at = st[Len(Out) + 1] + i  BY <2>1 DEF PlaceInv
  <2>4. Len(Out) + 1 <= Len(sizes) => i <= sizes[Len(Out) + 1]
    <3>1. Len(Out) \in Nat /\ Len(sizes) \in Nat  BY CleanMeansQueued, ByteFacts
    <3>2. Len(Out) + 1 <= Len(sizes) => sizes[Len(Out) + 1] \in Nat  BY <1>3, <3>1
    <3> QED
      BY <1>2, <3>2
  <2> QED
    BY <1>1, <2>1, <2>2, <2>3, <2>4, PlacedAt
<1>5. 1 \in 1..n  BY <1>2
<1> QED
  BY <1>4, <1>5

\* Steps that do not touch the history of the queue.
LEMMA SameOut ==
  ASSUME UNCHANGED <<sizes, closeFrame>>, Out' = Out
  PROVE  (FramesInv => FramesInv') /\ (Clean' => Clean)
BY DEF FramesInv, Clean, CleanTo, HasClose, Whole

LEMMA SamePlaces ==
  ASSUME NEW st, PlaceInv(st), UNCHANGED writerVars, Out' = Out, Stream' = Stream, ~dError
  PROVE  PlaceInv(st)'
<1>1. Clean' => Clean  BY SameOut DEF writerVars
<1> QED
  BY <1>1 DEF PlaceInv, writerVars

LEMMA SameWriter ==
  ASSUME UNCHANGED writerVars
  PROVE  /\ Bytes' = Bytes /\ (WriterInv => WriterInv')
         /\ \A st : (Layout(st) => Layout(st)') /\ (CountInv(st) => CountInv(st)')
BY DEF writerVars, Bytes, WriterInv, Layout, CountInv

-----------------------------------------------------------------------------
(* The steps *)

LEMMA InitStreamInv == Init => StreamInv
<1> SUFFICES ASSUME Init PROVE StreamInv
  OBVIOUS
<1>1. Len(sizes) = 0 /\ Len(wFrames) = 0 /\ Len(dBuffer) = 0 /\ Len(input) = 0  BY EmptySeq DEF Init
<1>2. \A S : << >> \in Seq(S)  BY EmptySeq
<1>3. TypeInv  BY <1>1, <1>2, SizeFacts DEF Init, TypeInv
<1>4. WriterInv  BY <1>1, SizeFacts DEF Init, WriterInv
<1>5. Len(Out) = 0 /\ Len(Stream) = 0
  <2>1. Len(delivered) = 0 /\ Len(dFrames) = 0 /\ Len(wire) = 0  BY EmptySeq DEF Init
  <2> QED
    BY <1>1, <1>3, <2>1, OutFacts, StreamFacts
<1>6. FramesInv  BY <1>5 DEF FramesInv
<1>7. LengthInv /\ BytesInv  BY <1>1, SizeFacts DEF Init, LengthInv, BytesInv
<1> DEFINE st == [n \in 1..1 |-> 0]
<1>8. st \in [1..(Len(sizes) + 1) -> Nat]  BY <1>1
<1>9. Layout(st)  BY <1>1, <1>8 DEF Layout
<1>10. CountInv(st)  BY <1>1 DEF CountInv, Init
<1>11. PlaceInv(st)  BY <1>1, <1>5 DEF PlaceInv, Init
<1> QED
  BY <1>3, <1>4, <1>6, <1>7, <1>8, <1>9, <1>10, <1>11 DEF StreamInv

LEMMA ReceiveStreamInv ==
  ASSUME StreamInv, NEW n \in 1..Chunk, Receive(n)
  PROVE  StreamInv'
<1>1. UNCHANGED writerVars /\ UNCHANGED decoderVars /\ UNCHANGED delivered /\ input = << >> /\ dFrames = << >> /\ ~dError
  BY DEF Receive
<1>2. TypeInv /\ WriterInv /\ FramesInv /\ LengthInv /\ BytesInv  BY DEF StreamInv
<1>3. wire \in Seq(Bytes) /\ dBuffer \in Seq(Bytes) /\ n \in 0..Len(wire)
  BY <1>2, StreamFacts, SizeFacts DEF TypeInv, Receive
<1>4. Bytes' = Bytes  BY <1>1, SameWriter
<1>5. input' \in Seq(Bytes) /\ Len(input') = n /\ wire' \in Seq(Bytes)
  BY <1>3, Cut DEF Receive
<1>6. TypeInv'  BY <1>1, <1>2, <1>4, <1>5 DEF TypeInv, writerVars, decoderVars
<1>7. Stream' = Stream
  <2>1. Stream' = (dBuffer \o input') \o wire'  BY <1>1 DEF Stream, decoderVars
  <2>2. (dBuffer \o input') \o wire' = dBuffer \o (input' \o wire')
    <3>1. dBuffer \in Seq(Bytes) /\ input' \in Seq(Bytes) /\ wire' \in Seq(Bytes)  BY <1>3, <1>5
    <3> QED
      BY <3>1, RegroupBytes, Zenon
  <2>4. input' \o wire' = wire  BY <1>3, Joined DEF Receive
  <2>3. dBuffer \o << >> = dBuffer  BY <1>3, ConcatEmptySeq
  <2> QED
    BY <1>1, <2>1, <2>2, <2>3, <2>4 DEF Stream
<1>8. Out' = Out  BY <1>1 DEF Out, decoderVars
<1>9. FramesInv' /\ (Clean' => Clean)  BY <1>1, <1>2, <1>8, SameOut DEF writerVars
<1>10. LengthInv'  BY <1>1, <1>2, <1>8, <1>9 DEF LengthInv, decoderVars, writerVars
<1>11. BytesInv'
  <2>1. dBytes = 0  BY <1>1, <1>2 DEF BytesInv
  <2>2. Len(dBuffer) \in Nat  BY <1>3, LenProperties
  <2>3. Len(dBuffer) < LengthSize \/ \E s \in Sizes : Len(dBuffer) < s  BY <1>1, <1>2 DEF LengthInv, TypeInv
  <2>4. \E s \in Sizes : Len(dBuffer) < s  BY <2>2, <2>3, SizeFacts
  <2>5. Len(dBuffer) + Chunk <= MaxBytes  BY <2>2, <2>4, SizeFacts
  <2> QED
    BY <1>1, <1>5, <2>1, <2>2, <2>5, SizeFacts DEF BytesInv, decoderVars
<1>12. PICK st \in [1..(Len(sizes) + 1) -> Nat] : Layout(st) /\ CountInv(st) /\ PlaceInv(st)  BY DEF StreamInv
<1>13. Layout(st)' /\ CountInv(st)' /\ WriterInv'  BY <1>1, <1>2, <1>12, SameWriter
<1>14. PlaceInv(st)'  BY <1>1, <1>7, <1>8, <1>12, SamePlaces
<1>15. st \in [1..(Len(sizes') + 1) -> Nat]  BY <1>1, <1>12 DEF writerVars
<1> QED
  BY <1>6, <1>9, <1>10, <1>11, <1>13, <1>14, <1>15 DEF StreamInv

LEMMA PollStreamInv ==
  ASSUME StreamInv, PollFrames
  PROVE  StreamInv'
<1>1. UNCHANGED writerVars /\ UNCHANGED <<wire, input, dBuffer, dExpected, dError>> /\ ~dError
  BY DEF PollFrames
<1>2. TypeInv /\ WriterInv /\ FramesInv /\ LengthInv /\ BytesInv  BY DEF StreamInv
<1>3. delivered \in Seq(Seq(Bytes)) /\ dFrames \in Seq(Seq(Bytes))  BY <1>2 DEF TypeInv
<1>4. Bytes' = Bytes  BY <1>1, SameWriter
<1>5. delivered' = Out /\ dFrames' = << >> /\ dBytes' = 0  BY DEF PollFrames, Out
<1>6. Out \in Seq(Seq(Bytes))  BY <1>2, OutFacts
<1>7. TypeInv'
  <2>1. dFrames' \in Seq(Seq(Bytes)) /\ dBytes' \in Nat  BY <1>5, EmptySeq
  <2> QED
    BY <1>1, <1>2, <1>4, <1>5, <1>6, <2>1 DEF TypeInv, writerVars
<1>8. Out' = Out
  <2>1. Out \o << >> = Out  BY <1>6, ConcatEmptySeq
  <2> QED
    BY <1>5, <2>1 DEF Out
<1>9. Stream' = Stream  BY <1>1 DEF Stream
<1>10. FramesInv' /\ (Clean' => Clean)  BY <1>1, <1>2, <1>8, SameOut DEF writerVars
<1>11. LengthInv'  BY <1>1, <1>2, <1>8, <1>10 DEF LengthInv, writerVars
<1>12. BytesInv'
  <2>1. Len(dBuffer) + Len(input) <= MaxBytes
    <3>1. dBytes \in Nat  BY <1>2 DEF TypeInv
    <3> QED
      BY <1>1, <1>2, <3>1, StreamFacts, SizeFacts DEF BytesInv
  <2> QED
    BY <1>1, <1>2, <1>5, <2>1, StreamFacts DEF BytesInv
<1>13. PICK st \in [1..(Len(sizes) + 1) -> Nat] : Layout(st) /\ CountInv(st) /\ PlaceInv(st)  BY DEF StreamInv
<1>14. Layout(st)' /\ CountInv(st)' /\ WriterInv'  BY <1>1, <1>2, <1>13, SameWriter
<1>15. PlaceInv(st)'  BY <1>1, <1>8, <1>9, <1>13, SamePlaces
<1>16. st \in [1..(Len(sizes') + 1) -> Nat]  BY <1>1, <1>13 DEF writerVars
<1> QED
  BY <1>7, <1>10, <1>11, <1>12, <1>14, <1>15, <1>16 DEF StreamInv

\* What Append takes moves from the chunk to the buffer: the stream is the same.
LEMMA GrownFacts ==
  ASSUME TypeInv, NEW c \in 0..Len(input)
  PROVE  /\ Grown(c) \in Seq(Bytes) /\ Len(Grown(c)) = Len(dBuffer) + c
         /\ \A i \in 1..Len(Grown(c)) : Grown(c)[i] = Stream[i]
         /\ \A i \in 1..Len(dBuffer) : Grown(c)[i] = dBuffer[i]
         /\ SubSeq(input, c + 1, Len(input)) \in Seq(Bytes)
         /\ Len(SubSeq(input, c + 1, Len(input))) = Len(input) - c
         /\ (Grown(c) \o SubSeq(input, c + 1, Len(input))) \o wire = Stream
<1> DEFINE First == SubSeq(input, 1, c)
           Rest == SubSeq(input, c + 1, Len(input))
           Kept == dBuffer \o First
           Read == Kept \o Rest
<1>1. dBuffer \in Seq(Bytes) /\ input \in Seq(Bytes) /\ wire \in Seq(Bytes)  BY DEF TypeInv
<1>2. First \in Seq(Bytes) /\ Len(First) = c /\ Rest \in Seq(Bytes) /\ Len(Rest) = Len(input) - c
  BY <1>1, Cut, Zenon
<1>3. First \o Rest = input  BY <1>1, Joined
<1> HIDE DEF First, Rest
<1>4. Kept \o Rest = dBuffer \o (First \o Rest)
  <2>1. dBuffer \in Seq(Bytes) /\ First \in Seq(Bytes) /\ Rest \in Seq(Bytes)  BY <1>1, <1>2
  <2> QED
    BY <2>1, RegroupBytes, Zenon
<1>5. First \in Seq(Bytes) /\ Rest \in Seq(Bytes)  BY <1>2
<1>6. /\ Kept \in Seq(Bytes) /\ Len(Kept) = Len(dBuffer) + Len(First)
      /\ \A i \in 1..Len(dBuffer) : Kept[i] = dBuffer[i]
  BY <1>1, <1>5, Behind
<1> HIDE DEF Kept
<1>7. Kept \in Seq(Bytes)  BY <1>6
<1>8. /\ Read \in Seq(Bytes) /\ Len(Read) = Len(Kept) + Len(Rest)
      /\ \A i \in 1..Len(Kept) : Read[i] = Kept[i]
  BY <1>5, <1>7, Behind
<1>9. Read = dBuffer \o input  BY <1>3, <1>4
<1> HIDE DEF Read
<1>10. Read \in Seq(Bytes)  BY <1>8
<1>11. \A i \in 1..Len(Read) : (Read \o wire)[i] = Read[i]  BY <1>1, <1>10, Behind
<1>12. Read \o wire = Stream  BY <1>9 DEF Stream
<1>13. Len(Kept) \in Nat /\ Len(Rest) \in Nat  BY <1>5, <1>7, LenProperties
<1>14. \A i \in 1..Len(Kept) : Kept[i] = Stream[i]  BY <1>8, <1>11, <1>12, <1>13
<1>15. Grown(c) = Kept  BY DEF Grown, Kept, First
<1>16. SubSeq(input, c + 1, Len(input)) = Rest  BY DEF Rest
<1>17. (Kept \o Rest) \o wire = Stream  BY <1>12 DEF Read
<1> QED
  BY <1>2, <1>6, <1>14, <1>15, <1>16, <1>17

LEMMA TakenFacts ==
  ASSUME TypeInv, NEW wanted \in Nat, Len(dBuffer) < wanted, input # << >>
  PROVE  /\ Taken(wanted) \in 1..Len(input) /\ Len(dBuffer) + Taken(wanted) <= wanted
         /\ Taken(wanted) = wanted - Len(dBuffer) \/ Taken(wanted) = Len(input)
<1>1. Len(dBuffer) \in Nat /\ Len(input) \in Nat  BY StreamFacts
<1>2. Len(input) >= 1  BY <1>1, EmptySeq DEF TypeInv
<1>3. wanted - Len(dBuffer) \in Nat  BY <1>1
<1>4. Taken(wanted) = IF wanted - Len(dBuffer) <= Len(input) THEN wanted - Len(dBuffer) ELSE Len(input)
  BY <1>1, <1>3, MinOfTwo DEF Taken
<1> QED
  BY <1>1, <1>2, <1>3, <1>4

\* A step of Append that leaves the decoder failed keeps what is said of a failed one.
LEMMA FailStreamInv ==
  ASSUME StreamInv, Fail, UNCHANGED <<writerVars, wire, delivered>>, input' \in Seq(Bytes)
  PROVE  StreamInv'
<1>1. UNCHANGED writerVars /\ UNCHANGED <<wire, dFrames, dBytes, delivered>> /\ dError' = TRUE /\ dBuffer' = << >> /\ dExpected' = 0
  BY DEF Fail
<1>2. TypeInv /\ WriterInv /\ FramesInv  BY DEF StreamInv
<1>3. Bytes' = Bytes  BY <1>1, SameWriter
<1>4. dBuffer' \in Seq(Bytes)  BY <1>1, EmptySeq
<1>5. TypeInv'  BY <1>1, <1>2, <1>3, <1>4 DEF TypeInv, writerVars
<1>6. Out' = Out  BY <1>1 DEF Out
<1>7. FramesInv'  BY <1>1, <1>2, <1>6, SameOut DEF writerVars
<1>8. LengthInv' /\ BytesInv'  BY <1>1 DEF LengthInv, BytesInv
<1>9. PICK st \in [1..(Len(sizes) + 1) -> Nat] : Layout(st) /\ CountInv(st) /\ PlaceInv(st)  BY DEF StreamInv
<1>10. Layout(st)' /\ CountInv(st)' /\ WriterInv'  BY <1>1, <1>2, <1>9, SameWriter
<1>11. PlaceInv(st)'  BY <1>1 DEF PlaceInv
<1>12. st \in [1..(Len(sizes') + 1) -> Nat]  BY <1>1, <1>9 DEF writerVars
<1> QED
  BY <1>5, <1>7, <1>8, <1>10, <1>11, <1>12 DEF StreamInv

\* When the length field is there, its size is the size of the next frame, unless
\* it has bytes of Close.
LEMMA LengthOfNext ==
  ASSUME StreamInv, ~dError, Clean, NEW c \in 0..Len(input), Len(Grown(c)) = LengthSize,
         \A i \in 1..LengthSize : Grown(c)[i].frame # closeFrame
  PROVE  /\ Aligned(Grown(c)) /\ Len(Out) + 1 <= Len(sizes)
         /\ Grown(c)[1].frame = Len(Out) + 1
<1>1. TypeInv /\ FramesInv  BY DEF StreamInv
<1>2. PICK st \in [1..(Len(sizes) + 1) -> Nat] : Layout(st) /\ CountInv(st) /\ PlaceInv(st)  BY DEF StreamInv
<1>3. Len(Stream) = Len(dBuffer) + Len(input) + Len(wire) /\ Len(dBuffer) \in Nat /\ Len(input) \in Nat /\ Len(wire) \in Nat
  BY <1>1, StreamFacts
<1>4. Grown(c) \in Seq(Bytes) /\ Len(Grown(c)) = Len(dBuffer) + c /\ \A i \in 1..LengthSize : Grown(c)[i] = Stream[i]
  BY <1>1, GrownFacts
<1>5. LengthSize \in 1..Len(Stream)  BY <1>3, <1>4, SizeFacts
<1>6. Len(Out) + 1 <= Len(sizes) => LengthSize <= sizes[Len(Out) + 1]
  <2>1. Len(Out) \in Nat /\ Len(sizes) \in Nat  BY <1>1, CleanMeansQueued, ByteFacts
  <2>2. Len(Out) + 1 <= Len(sizes) => sizes[Len(Out) + 1] \in Sizes  BY <1>1, <2>1, ByteFacts
  <2> QED
    BY <2>2, SizeFacts
<1>7. \A i \in 1..LengthSize : Stream[i].frame # closeFrame  BY <1>4
<1>8. /\ Len(Out) + 1 <= Len(sizes)
      /\ \A i \in 1..LengthSize : Stream[i] = [frame |-> Len(Out) + 1, at |-> i]
  BY <1>1, <1>2, <1>5, <1>6, <1>7, NextFrame
<1>9. \A i \in 1..LengthSize : Grown(c)[i] = [frame |-> Len(Out) + 1, at |-> i]  BY <1>4, <1>8
<1>10. 1 \in 1..LengthSize  BY SizeFacts
<1>11. DOMAIN Grown(c) = 1..LengthSize  BY <1>4, LenProperties
<1>12. Grown(c)[1].frame = Len(Out) + 1  BY <1>9, <1>10
<1> QED
  BY <1>8, <1>9, <1>11, <1>12 DEF Aligned

LEMMA AppendLengthStreamInv ==
  ASSUME StreamInv, AppendLength
  PROVE  StreamInv'
<1> DEFINE c == Taken(LengthSize)
<1>1. TypeInv /\ WriterInv /\ FramesInv /\ LengthInv /\ BytesInv  BY DEF StreamInv
<1>2. input # << >> /\ ~dError /\ dExpected = 0 /\ UNCHANGED writerVars /\ UNCHANGED <<wire, delivered>>
  BY DEF AppendLength
<1>3. Len(dBuffer) < LengthSize  BY <1>1, <1>2 DEF LengthInv
<1>4. c \in 1..Len(input) /\ Len(dBuffer) + c <= LengthSize  BY <1>1, <1>2, <1>3, TakenFacts, SizeFacts
<1>5. input' = SubSeq(input, c + 1, Len(input))  BY DEF AppendLength
<1>6. \/ Len(Grown(c)) < LengthSize /\ dBuffer' = Grown(c) /\ UNCHANGED <<dExpected, dFrames, dBytes, dError>>
      \/ /\ Len(Grown(c)) = LengthSize
         /\ dExpected' \in (IF Aligned(Grown(c)) THEN {sizes[Grown(c)[1].frame]} ELSE Sizes)
         /\ dBuffer' = Grown(c) /\ UNCHANGED <<dFrames, dBytes, dError>>
      \/ Len(Grown(c)) = LengthSize /\ ~Aligned(Grown(c)) /\ Fail
  BY DEF AppendLength
<1> HIDE DEF c
<1>7. c \in 0..Len(input)  BY <1>4
<1>8. Len(dBuffer) \in Nat /\ Len(input) \in Nat /\ dBytes \in Nat  BY <1>1, StreamFacts DEF TypeInv
<1>9. /\ Grown(c) \in Seq(Bytes) /\ Len(Grown(c)) = Len(dBuffer) + c
      /\ input' \in Seq(Bytes) /\ Len(input') = Len(input) - c
      /\ (Grown(c) \o input') \o wire = Stream
  BY <1>1, <1>5, <1>7, GrownFacts
<1>10. CASE Fail  BY <1>2, <1>9, <1>10, FailStreamInv
<1>11. CASE dBuffer' = Grown(c) /\ UNCHANGED <<dFrames, dBytes, dError>>
  <2>1. \/ Len(Grown(c)) < LengthSize /\ dExpected' = 0
        \/ /\ Len(Grown(c)) = LengthSize
           /\ dExpected' \in (IF Aligned(Grown(c)) THEN {sizes[Grown(c)[1].frame]} ELSE Sizes)
    BY <1>2, <1>6, <1>11 DEF Fail
  <2>2. Bytes' = Bytes  BY <1>2, SameWriter
  <2>3. dExpected' \in Sizes \cup {0}
    <3>1. CASE Len(Grown(c)) = LengthSize
      <4>1. Grown(c)[1] \in Bytes  BY <1>9, <3>1, SizeFacts, ElementOfSeq
      <4>2. sizes[Grown(c)[1].frame] \in Sizes  BY <1>1, <4>1, ByteFacts
      <4> QED
        BY <2>1, <3>1, <4>2, SizeFacts
    <3> QED
      BY <2>1, <3>1
  <2>4. TypeInv'  BY <1>1, <1>2, <1>9, <1>11, <2>2, <2>3 DEF TypeInv, writerVars
  <2>5. Out' = Out  BY <1>2, <1>11 DEF Out
  <2>6. Stream' = Stream  BY <1>2, <1>9, <1>11 DEF Stream
  <2>7. FramesInv' /\ (Clean' => Clean)  BY <1>1, <1>2, <2>5, SameOut DEF writerVars
  <2>8. LengthInv'
    <3>1. CASE Len(Grown(c)) < LengthSize /\ dExpected' = 0  BY <1>11, <3>1 DEF LengthInv
    <3>2. CASE /\ Len(Grown(c)) = LengthSize
               /\ dExpected' \in (IF Aligned(Grown(c)) THEN {sizes[Grown(c)[1].frame]} ELSE Sizes)
      <4>1. dExpected' \in Sizes
        <5>1. Grown(c)[1] \in Bytes  BY <1>9, <3>2, SizeFacts, ElementOfSeq
        <5> QED
          BY <1>1, <3>2, <5>1, ByteFacts
      <4>2. dExpected' # 0 /\ LengthSize <= Len(Grown(c)) /\ Len(Grown(c)) < dExpected'  BY <3>2, <4>1, SizeFacts
      <4>3. ASSUME Clean', \A i \in 1..LengthSize : Grown(c)[i].frame # closeFrame
            PROVE  Len(Out) + 1 <= Len(sizes) /\ dExpected' = sizes[Len(Out) + 1]
        <5>1. Clean  BY <2>7, <4>3
        <5>2. Aligned(Grown(c)) /\ Len(Out) + 1 <= Len(sizes) /\ Grown(c)[1].frame = Len(Out) + 1
          BY <1>2, <1>7, <3>2, <4>3, <5>1, LengthOfNext
        <5> QED
          BY <3>2, <5>2
      <4> QED
        BY <1>2, <1>11, <2>5, <4>2, <4>3 DEF LengthInv, writerVars
    <3> QED
      BY <2>1, <3>1, <3>2
  <2>9. BytesInv'
    <3>1. dBytes + Len(dBuffer) + Len(input) <= MaxBytes /\ (dFrames = << >> => dBytes = 0)
      BY <1>1, <1>2 DEF BytesInv
    <3>2. Len(dBuffer') = Len(dBuffer) + c /\ Len(input') = Len(input) - c /\ dBytes' = dBytes  BY <1>9, <1>11
    <3>3. dBytes' + Len(dBuffer') + Len(input') <= MaxBytes  BY <1>4, <1>8, <3>1, <3>2, SizeFacts
    <3> QED
      BY <1>11, <3>1, <3>3 DEF BytesInv
  <2>10. PICK st \in [1..(Len(sizes) + 1) -> Nat] : Layout(st) /\ CountInv(st) /\ PlaceInv(st)  BY DEF StreamInv
  <2>11. Layout(st)' /\ CountInv(st)' /\ WriterInv'  BY <1>1, <1>2, <2>10, SameWriter
  <2>12. PlaceInv(st)'  BY <1>2, <2>5, <2>6, <2>10, SamePlaces
  <2>13. st \in [1..(Len(sizes') + 1) -> Nat]  BY <1>2, <2>10 DEF writerVars
  <2> QED
    BY <2>4, <2>7, <2>8, <2>9, <2>11, <2>12, <2>13 DEF StreamInv
<1> QED
  BY <1>6, <1>10, <1>11

\* When the body is there and nothing of it is Close's, it is the next frame, whole.
LEMMA BodyOfNext ==
  ASSUME StreamInv, ~dError, dExpected # 0, Clean, NEW c \in 0..Len(input), Len(Grown(c)) = dExpected,
         ~HasClose(Grown(c))
  PROVE  /\ Aligned(Grown(c)) /\ Len(Out) + 1 <= Len(sizes)
         /\ dExpected = sizes[Len(Out) + 1] /\ Grown(c) = Whole(Len(Out) + 1)
<1>1. TypeInv /\ FramesInv /\ LengthInv  BY DEF StreamInv
<1>2. PICK st \in [1..(Len(sizes) + 1) -> Nat] : Layout(st) /\ CountInv(st) /\ PlaceInv(st)  BY DEF StreamInv
<1>3. Len(Stream) = Len(dBuffer) + Len(input) + Len(wire) /\ Len(dBuffer) \in Nat /\ Len(input) \in Nat /\ Len(wire) \in Nat
  BY <1>1, StreamFacts
<1>4. /\ Grown(c) \in Seq(Bytes) /\ Len(Grown(c)) = Len(dBuffer) + c
      /\ \A i \in 1..dExpected : Grown(c)[i] = Stream[i]
      /\ \A i \in 1..Len(dBuffer) : Grown(c)[i] = dBuffer[i]
  BY <1>1, GrownFacts
<1>5. dExpected \in Sizes /\ dExpected \in Nat  BY <1>1, SizeFacts DEF TypeInv
<1>6. DOMAIN Grown(c) = 1..dExpected  BY <1>4, LenProperties
<1>7. \A i \in 1..dExpected : Grown(c)[i].frame # closeFrame  BY <1>6 DEF HasClose
<1>8. LengthSize <= Len(dBuffer) /\ Len(dBuffer) < dExpected  BY <1>1 DEF LengthInv
<1>9. \A i \in 1..LengthSize : dBuffer[i].frame # closeFrame
  <2> SUFFICES ASSUME NEW i \in 1..LengthSize PROVE dBuffer[i].frame # closeFrame
    OBVIOUS
  <2>1. i \in 1..Len(dBuffer) /\ i \in 1..dExpected  BY <1>3, <1>5, <1>8, SizeFacts
  <2> QED
    BY <1>4, <1>7, <2>1
<1>10. Len(Out) + 1 <= Len(sizes) /\ dExpected = sizes[Len(Out) + 1]  BY <1>1, <1>9 DEF LengthInv
<1>11. dExpected \in 1..Len(Stream)  BY <1>3, <1>4, <1>5, <1>8, SizeFacts
<1>12. \A i \in 1..dExpected : Stream[i].frame # closeFrame  BY <1>4, <1>7
<1>13. \A i \in 1..dExpected : Stream[i] = [frame |-> Len(Out) + 1, at |-> i]
  <2>1. Len(Out) + 1 <= Len(sizes) => dExpected <= sizes[Len(Out) + 1]  BY <1>5, <1>10
  <2> QED
    BY <1>1, <1>2, <1>11, <1>12, <2>1, NextFrame
<1>14. \A i \in 1..dExpected : Grown(c)[i] = [frame |-> Len(Out) + 1, at |-> i]  BY <1>4, <1>13
<1>15. 1 \in 1..dExpected  BY <1>5, SizeFacts
<1>16. Aligned(Grown(c))  BY <1>6, <1>14, <1>15 DEF Aligned
<1>17. Grown(c) = Whole(Len(Out) + 1)
  <2>1. Grown(c) = [i \in 1..dExpected |-> Grown(c)[i]]  BY <1>4, <1>6, LenProperties
  <2>2. Grown(c) = [i \in 1..dExpected |-> [frame |-> Len(Out) + 1, at |-> i]]  BY <1>14, <2>1
  <2>3. \A i \in 1..dExpected : 1 + i - 1 = i  BY <1>5
  <2>4. Whole(Len(Out) + 1) = [i \in 1..dExpected |-> [frame |-> Len(Out) + 1, at |-> 1 + i - 1]]
    <3>1. dExpected - 1 + 1 = dExpected  BY <1>5
    <3> QED
      BY <1>10, <3>1 DEF Whole, Slice
  <2> QED
    BY <2>2, <2>3, <2>4
<1> QED
  BY <1>10, <1>16, <1>17

LEMMA AppendBodyStreamInv ==
  ASSUME StreamInv, AppendBody
  PROVE  StreamInv'
<1> DEFINE c == Taken(dExpected)
<1>1. TypeInv /\ WriterInv /\ FramesInv /\ LengthInv /\ BytesInv  BY DEF StreamInv
<1>2. input # << >> /\ ~dError /\ dExpected # 0 /\ UNCHANGED writerVars /\ UNCHANGED <<wire, delivered>>
  BY DEF AppendBody
<1>3. Len(dBuffer) < dExpected /\ LengthSize <= Len(dBuffer)  BY <1>1, <1>2 DEF LengthInv
<1>4. dExpected \in Sizes /\ dExpected \in Nat  BY <1>1, <1>2, SizeFacts DEF TypeInv
<1>5. c \in 1..Len(input) /\ Len(dBuffer) + c <= dExpected  BY <1>1, <1>2, <1>3, <1>4, TakenFacts
<1>6. input' = SubSeq(input, c + 1, Len(input))  BY DEF AppendBody
<1>7. \/ Len(Grown(c)) < dExpected /\ dBuffer' = Grown(c) /\ UNCHANGED <<dExpected, dFrames, dBytes, dError>>
      \/ /\ Len(Grown(c)) = dExpected
         /\ dFrames' = Append(dFrames, Grown(c)) /\ dBytes' = dBytes + dExpected
         /\ dBuffer' = << >> /\ dExpected' = 0 /\ UNCHANGED dError
      \/ Fail
  BY DEF AppendBody
<1> HIDE DEF c
<1>8. c \in 0..Len(input)  BY <1>5
<1>9. Len(dBuffer) \in Nat /\ Len(input) \in Nat /\ dBytes \in Nat /\ Len(wire) \in Nat  BY <1>1, StreamFacts DEF TypeInv
<1>10. /\ Grown(c) \in Seq(Bytes) /\ Len(Grown(c)) = Len(dBuffer) + c
       /\ \A i \in 1..Len(dBuffer) : Grown(c)[i] = dBuffer[i]
       /\ input' \in Seq(Bytes) /\ Len(input') = Len(input) - c
       /\ (Grown(c) \o input') \o wire = Stream
  BY <1>1, <1>6, <1>8, GrownFacts
<1>11. Bytes' = Bytes  BY <1>2, SameWriter
<1>12. PICK st \in [1..(Len(sizes) + 1) -> Nat] : Layout(st) /\ CountInv(st) /\ PlaceInv(st)  BY DEF StreamInv
<1>13. Layout(st)' /\ CountInv(st)' /\ WriterInv'  BY <1>1, <1>2, <1>12, SameWriter
<1>14. st \in [1..(Len(sizes') + 1) -> Nat]  BY <1>2, <1>12 DEF writerVars
<1>15. CASE Fail  BY <1>2, <1>10, <1>15, FailStreamInv
<1>16. CASE Len(Grown(c)) < dExpected /\ dBuffer' = Grown(c) /\ UNCHANGED <<dExpected, dFrames, dBytes, dError>>
  <2>1. TypeInv'  BY <1>1, <1>2, <1>10, <1>11, <1>16 DEF TypeInv, writerVars
  <2>2. Out' = Out  BY <1>2, <1>16 DEF Out
  <2>3. Stream' = Stream  BY <1>2, <1>10, <1>16 DEF Stream
  <2>4. FramesInv' /\ (Clean' => Clean)  BY <1>1, <1>2, <2>2, SameOut DEF writerVars
  <2>5. LengthInv'
    <3>1. LengthSize <= Len(Grown(c)) /\ Len(Grown(c)) < dExpected  BY <1>3, <1>5, <1>9, <1>10, <1>16, SizeFacts
    <3>2. ASSUME Clean', \A i \in 1..LengthSize : Grown(c)[i].frame # closeFrame
          PROVE  Len(Out) + 1 <= Len(sizes) /\ dExpected = sizes[Len(Out) + 1]
      <4>1. \A i \in 1..LengthSize : i \in 1..Len(dBuffer)  BY <1>3, <1>9, SizeFacts
      <4>2. \A i \in 1..LengthSize : dBuffer[i].frame # closeFrame  BY <1>10, <3>2, <4>1
      <4> QED
        BY <1>1, <1>2, <2>4, <3>2, <4>2 DEF LengthInv
    <3> QED
      BY <1>2, <1>16, <2>2, <3>1, <3>2 DEF LengthInv, writerVars
  <2>6. BytesInv'
    <3>1. dBytes + Len(dBuffer) + Len(input) <= MaxBytes /\ (dFrames = << >> => dBytes = 0)
      BY <1>1, <1>2 DEF BytesInv
    <3>2. Len(dBuffer') = Len(dBuffer) + c /\ Len(input') = Len(input) - c /\ dBytes' = dBytes  BY <1>10, <1>16
    <3>3. dBytes' + Len(dBuffer') + Len(input') <= MaxBytes  BY <1>5, <1>9, <3>1, <3>2, SizeFacts
    <3> QED
      BY <1>16, <3>1, <3>3 DEF BytesInv
  <2>7. PlaceInv(st)'  BY <1>2, <1>12, <2>2, <2>3, SamePlaces
  <2> QED
    BY <1>13, <1>14, <2>1, <2>4, <2>5, <2>6, <2>7 DEF StreamInv
<1>17. CASE /\ Len(Grown(c)) = dExpected
            /\ dFrames' = Append(dFrames, Grown(c)) /\ dBytes' = dBytes + dExpected
            /\ dBuffer' = << >> /\ dExpected' = 0 /\ UNCHANGED dError
  <2>1. delivered \in Seq(Seq(Bytes)) /\ dFrames \in Seq(Seq(Bytes))  BY <1>1 DEF TypeInv
  <2>2. /\ dFrames' \in Seq(Seq(Bytes)) /\ Len(dFrames') = Len(dFrames) + 1
        /\ dFrames' = dFrames \o << Grown(c) >>
    <3>1. dFrames' = Append(dFrames, Grown(c)) /\ dFrames \in Seq(Seq(Bytes)) /\ Grown(c) \in Seq(Bytes)
      BY <1>10, <1>17, <2>1
    <3>2. dFrames' \in Seq(Seq(Bytes)) /\ Len(dFrames') = Len(dFrames) + 1  BY <3>1, AppendProperties
    <3>3. dFrames' = dFrames \o << Grown(c) >>  BY <3>1, AppendIsConcat
    <3> QED
      BY <3>2, <3>3
  <2>3. TypeInv'
    <3>1. dBuffer' \in Seq(Bytes) /\ dExpected' \in Sizes \cup {0}  BY <1>17, EmptySeq
    <3>2. dBytes' \in Nat  BY <1>4, <1>9, <1>17
    <3> QED
      BY <1>1, <1>2, <1>10, <1>11, <1>17, <2>2, <3>1, <3>2 DEF TypeInv, writerVars
  <2>4. Out' = Append(Out, Grown(c))
    <3>1. << Grown(c) >> \in Seq(Seq(Bytes))  BY <1>10
    <3>2. (delivered \o dFrames) \o << Grown(c) >> = delivered \o (dFrames \o << Grown(c) >>)  BY <2>1, <3>1, RegroupFrames, Zenon
    <3>3. Append(Out, Grown(c)) = Out \o << Grown(c) >>  BY <1>1, <1>10, OutFacts, AppendIsConcat
    <3>4. Out' = delivered \o (dFrames \o << Grown(c) >>)  BY <1>2, <2>2 DEF Out
    <3> QED
      BY <3>2, <3>3, <3>4 DEF Out
  <2>5. /\ Out \in Seq(Seq(Bytes)) /\ Len(Out) \in Nat /\ Len(Out') = Len(Out) + 1
        /\ \A i \in 1..Len(Out) : Out'[i] = Out[i]
        /\ Out'[Len(Out) + 1] = Grown(c)
    BY <1>1, <1>10, <2>4, OutFacts, AppendProperties, LenProperties
  <2>6. \A k \in 1..Len(Out') : HasClose(Out[k])' <=> HasClose(Out'[k])  BY <1>2 DEF HasClose, writerVars
  <2>7. Clean' => Clean /\ ~HasClose(Grown(c))
    <3>1. Len(Out) + 1 \in 1..Len(Out')  BY <2>5
    <3>2. Clean' => ~HasClose(Out'[Len(Out) + 1])  BY <2>6, <3>1 DEF Clean, CleanTo
    <3>3. \A k \in 1..Len(Out) : k \in 1..Len(Out')  BY <2>5
    <3>4. Clean' => \A k \in 1..Len(Out) : ~HasClose(Out[k])  BY <2>5, <2>6, <3>3 DEF Clean, CleanTo
    <3> QED
      BY <2>5, <3>2, <3>4 DEF Clean, CleanTo
  <2>8. Clean' => /\ Len(Out) + 1 <= Len(sizes) /\ dExpected = sizes[Len(Out) + 1]
                  /\ Grown(c) = Whole(Len(Out) + 1)
    BY <1>2, <1>8, <1>17, <2>7, BodyOfNext
  <2>9. FramesInv'
    <3> SUFFICES ASSUME NEW n \in 1..Len(Out'), CleanTo(n)'
                 PROVE  n <= Len(sizes') /\ Out'[n] = Whole(n)'
      BY DEF FramesInv
    <3>1. Whole(n)' = Whole(n) /\ sizes' = sizes  BY <1>2 DEF Whole, writerVars
    <3>2. \A k \in 1..n : ~HasClose(Out'[k])
      <4>1. \A k \in 1..n : k \in 1..Len(Out')  BY <2>5
      <4> QED
        BY <2>6, <4>1 DEF CleanTo
    <3>3. CASE n \in 1..Len(Out)
      <4>1. \A k \in 1..n : k \in 1..Len(Out)  BY <2>5, <3>3
      <4>2. CleanTo(n)  BY <2>5, <3>2, <4>1 DEF CleanTo
      <4> QED
        BY <1>1, <2>5, <3>1, <3>3, <4>2 DEF FramesInv
    <3>4. CASE n = Len(Out) + 1
      <4>1. Clean'  BY <2>5, <3>4 DEF Clean
      <4> QED
        BY <2>5, <2>8, <3>1, <3>4, <4>1
    <3> QED
      BY <2>5, <3>3, <3>4
  <2>10. LengthInv'
    <3>1. Len(dBuffer') = 0  BY <1>17, EmptySeq
    <3> QED
      BY <1>17, <3>1, SizeFacts DEF LengthInv
  <2>11. BytesInv'
    <3>1. dBytes + Len(dBuffer) + Len(input) <= MaxBytes  BY <1>1, <1>2 DEF BytesInv
    <3>2. Len(dBuffer') = 0 /\ Len(input') = Len(input) - c /\ dBytes' = dBytes + dExpected /\ dExpected = Len(dBuffer) + c
      BY <1>10, <1>17, EmptySeq
    <3>3. dBytes' + Len(dBuffer') + Len(input') <= MaxBytes  BY <1>5, <1>9, <3>1, <3>2, SizeFacts
    <3>4. dFrames' # << >>  BY <2>1, <1>10, <1>17, AppendProperties
    <3> QED
      BY <3>3, <3>4 DEF BytesInv
  <2>12. PlaceInv(st)'
    <3> SUFFICES ASSUME Clean'
                 PROVE  /\ \A i \in 1..Len(Stream') : Stream'[i].frame # closeFrame' => st[Stream'[i].frame] + Stream'[i].at = st[Len(Out') + 1] + i
                        /\ closeFrame' = 0 => st[Len(sizes') + 1 - Len(wFrames')] + wOffset' = st[Len(Out') + 1] + Len(Stream')
      BY DEF PlaceInv
    <3>1. Clean /\ Len(Out) + 1 <= Len(sizes) /\ dExpected = sizes[Len(Out) + 1]  BY <2>7, <2>8
    <3>2. Len(Out) + 1 \in 1..Len(sizes)  BY <2>5, <3>1, <1>1, ByteFacts
    <3>3. st[Len(Out') + 1] = st[Len(Out) + 1] + dExpected /\ st[Len(Out) + 1] \in Nat
      <4>1. Len(Out) + 1 \in 1..(Len(sizes) + 1) /\ Len(Out') + 1 = (Len(Out) + 1) + 1  BY <2>5, <3>2, <1>1, ByteFacts
      <4> QED
        BY <1>12, <3>1, <3>2, <4>1 DEF Layout
    <3>4. Len(Stream) = dExpected + Len(Stream') /\ Len(Stream') \in Nat
          /\ \A i \in 1..Len(Stream') : Stream[dExpected + i] = Stream'[i]
      <4>1. input' \in Seq(Bytes) /\ wire \in Seq(Bytes) /\ Grown(c) \in Seq(Bytes)  BY <1>1, <1>10 DEF TypeInv
      <4>2. Stream' = input' \o wire
        <5>1. << >> \o input' = input'  BY <4>1, ConcatEmptySeq
        <5> QED
          BY <1>2, <1>17, <5>1 DEF Stream
      <4>3. input' \o wire \in Seq(Bytes)  BY <4>1, Behind
      <4>4. (Grown(c) \o input') \o wire = Grown(c) \o (input' \o wire)  BY <4>1, RegroupBytes, Zenon
      <4>5. Stream' \in Seq(Bytes)  BY <4>2, <4>3
      <4>6. /\ Len(Grown(c) \o Stream') = Len(Grown(c)) + Len(Stream')
            /\ \A i \in 1..Len(Stream') : (Grown(c) \o Stream')[Len(Grown(c)) + i] = Stream'[i]
        BY <4>1, <4>5, Behind
      <4>7. Stream = Grown(c) \o Stream'  BY <1>10, <4>2, <4>4
      <4> QED
        BY <1>17, <4>5, <4>6, <4>7, LenProperties
    <3>5. ASSUME NEW i \in 1..Len(Stream'), Stream'[i].frame # closeFrame
          PROVE  st[Stream'[i].frame] + Stream'[i].at = st[Len(Out') + 1] + i
      <4>1. dExpected + i \in 1..Len(Stream) /\ Stream[dExpected + i] = Stream'[i]  BY <1>4, <3>4
      <4>2. st[Stream[dExpected + i].frame] + Stream[dExpected + i].at = st[Len(Out) + 1] + (dExpected + i)
        BY <1>2, <1>12, <3>1, <3>5, <4>1 DEF PlaceInv
      <4> QED
        BY <1>4, <3>3, <3>4, <4>1, <4>2
    <3>6. closeFrame = 0 => st[Len(sizes) + 1 - Len(wFrames)] + wOffset = st[Len(Out) + 1] + Len(Stream)
      BY <1>2, <1>12, <3>1 DEF PlaceInv
    <3>7. closeFrame = 0 => st[Len(sizes) + 1 - Len(wFrames)] + wOffset = st[Len(Out') + 1] + Len(Stream')
      BY <1>4, <3>3, <3>4, <3>6
    <3> QED
      BY <1>2, <3>5, <3>7 DEF writerVars
  <2> QED
    BY <1>13, <1>14, <2>3, <2>9, <2>10, <2>11, <2>12 DEF StreamInv
<1> QED
  BY <1>7, <1>15, <1>16, <1>17

\* One more frame in the queue, in Queue as in Stop: what is said of the bytes that
\* have left the writer stays.
LEMMA LongerLayout ==
  ASSUME TypeInv, NEW st, Layout(st), NEW size \in Sizes, sizes' = Append(sizes, size)
  PROVE  /\ Len(sizes') = Len(sizes) + 1 /\ sizes' \in Seq(Sizes)
         /\ \A n \in 1..Len(sizes) : sizes'[n] = sizes[n]
         /\ sizes'[Len(sizes) + 1] = size
         /\ Bytes \subseteq Bytes'
         /\ \E nst \in [1..(Len(sizes') + 1) -> Nat] :
              /\ Layout(nst)' /\ nst[Len(sizes) + 2] = nst[Len(sizes) + 1] + size
              /\ \A n \in 1..(Len(sizes) + 1) : nst[n] = st[n]
<1>1. Len(sizes) \in Nat /\ sizes \in Seq(Sizes) /\ \A n \in 1..Len(sizes) : sizes[n] \in Nat
  BY ByteFacts, SizeFacts DEF TypeInv
<1>2. /\ Len(sizes') = Len(sizes) + 1 /\ sizes' \in Seq(Sizes)
      /\ \A n \in 1..Len(sizes) : sizes'[n] = sizes[n]
      /\ sizes'[Len(sizes) + 1] = size
  BY <1>1, AppendProperties
<1>3. Bytes \subseteq Bytes'
  <2> SUFFICES ASSUME NEW b \in Bytes PROVE b \in Bytes'
    OBVIOUS
  <2>1. b.frame \in 1..Len(sizes) /\ b.at \in 1..sizes[b.frame] /\ b \in [frame : 1..Len(sizes), at : Nat]
    BY ByteFacts DEF Bytes
  <2>2. b \in [frame : 1..Len(sizes'), at : Nat]  BY <1>1, <1>2, <2>1
  <2>3. sizes'[b.frame] = sizes[b.frame] /\ sizes[b.frame] \in Nat  BY <1>1, <1>2, <2>1
  <2>4. 1 <= b.at /\ b.at <= sizes'[b.frame]  BY <2>1, <2>3
  <2> QED
    BY <2>2, <2>4 DEF Bytes
<1> DEFINE L == Len(sizes)
           longer == [n \in 1..(L + 2) |-> IF n <= L + 1 THEN st[n] ELSE st[L + 1] + size]
<1>4. /\ \A n \in 1..(L + 1) : st[n] \in Nat
      /\ \A n \in 1..L : st[n + 1] = st[n] + sizes[n]
      /\ \A m \in 1..L : \A n \in (m + 1)..(L + 1) : st[m] + sizes[m] <= st[n]
  BY DEF Layout
<1>5. L \in Nat /\ size \in Nat /\ Len(sizes') = L + 1  BY <1>1, <1>2, SizeFacts
<1>6. /\ \A n \in 1..L : sizes'[n] = sizes[n] /\ sizes[n] \in Nat
      /\ sizes'[L + 1] = size
  BY <1>1, <1>2
<1> HIDE DEF L
<1>7. st[L + 1] \in Nat /\ st[L + 1] + size \in Nat  BY <1>4, <1>5
<1>8. PICK nst \in [1..(L + 2) -> Nat] : (\A n \in 1..(L + 1) : nst[n] = st[n]) /\ nst[L + 2] = st[L + 1] + size
  <2>1. /\ \A n \in 1..(L + 1) : longer[n] = st[n]
        /\ longer[L + 2] = st[L + 1] + size
        /\ longer \in [1..(L + 2) -> Nat]
    BY <1>4, <1>5, <1>7
  <2> QED
    BY <2>1
<1>9. nst[L + 2] = nst[L + 1] + size  BY <1>5, <1>8
<1>10. \A n \in 1..(L + 1) : nst[n + 1] = nst[n] + sizes'[n]
  <2> SUFFICES ASSUME NEW n \in 1..(L + 1) PROVE nst[n + 1] = nst[n] + sizes'[n]
    OBVIOUS
  <2>1. CASE n = L + 1  BY <1>5, <1>6, <1>9, <2>1
  <2>2. CASE n \in 1..L
    <3>1. n + 1 \in 1..(L + 1) /\ n \in 1..(L + 1)  BY <1>5, <2>2
    <3> QED
      BY <1>4, <1>6, <1>8, <2>2, <3>1
  <2> QED
    BY <1>5, <2>1, <2>2
<1>11. \A m \in 1..(L + 1) : \A n \in (m + 1)..(L + 2) : nst[m] + sizes'[m] <= nst[n]
  <2> SUFFICES ASSUME NEW m \in 1..(L + 1), NEW n \in (m + 1)..(L + 2) PROVE nst[m] + sizes'[m] <= nst[n]
    OBVIOUS
  <2>1. CASE m = L + 1
    <3>1. n = L + 2  BY <1>5, <2>1
    <3> QED
      BY <1>5, <1>6, <1>7, <1>8, <2>1, <3>1
  <2>2. CASE m \in 1..L /\ n \in 1..(L + 1)
    <3>1. n \in (m + 1)..(L + 1) /\ m \in 1..(L + 1)  BY <1>5, <2>2
    <3> QED
      BY <1>4, <1>6, <1>8, <2>2, <3>1
  <2>3. CASE m \in 1..L /\ n = L + 2
    <3>1. L + 1 \in (m + 1)..(L + 1) /\ m \in 1..(L + 1)  BY <1>5, <2>3
    <3>2. st[m] + sizes[m] <= st[L + 1]  BY <1>4, <2>3, <3>1
    <3>3. nst[m] = st[m] /\ nst[n] = st[L + 1] + size /\ sizes'[m] = sizes[m]  BY <1>6, <1>8, <2>3, <3>1
    <3>4. st[m] \in Nat /\ sizes[m] \in Nat  BY <1>4, <1>6, <2>3, <3>1
    <3>5. st[m] + sizes[m] <= st[L + 1] + size
      <4> DEFINE end == st[L + 1]
                 front == st[m]
      <4>1. end \in Nat /\ front \in Nat /\ front + sizes[m] <= end  BY <1>7, <3>2, <3>4
      <4> HIDE DEF end, front
      <4>2. sizes[m] \in Nat /\ size \in Nat  BY <1>5, <3>4
      <4>3. front + sizes[m] <= end + size  BY <4>1, <4>2
      <4> QED
        BY <4>3 DEF end, front
    <3> QED
      BY <3>3, <3>5
  <2> QED
    BY <1>5, <2>1, <2>2, <2>3
<1>12. Len(sizes') + 1 = L + 2  BY <1>5
<1>13. Layout(nst)'  BY <1>5, <1>8, <1>10, <1>11, <1>12 DEF Layout
<1>14. nst \in [1..(Len(sizes') + 1) -> Nat]  BY <1>8, <1>12
<1>15. nst[Len(sizes) + 2] = nst[Len(sizes) + 1] + size /\ \A n \in 1..(Len(sizes) + 1) : nst[n] = st[n]
  BY <1>8, <1>9 DEF L
<1> QED
  BY <1>2, <1>3, <1>13, <1>14, <1>15

LEMMA LongerQueue ==
  ASSUME StreamInv, closeFrame = 0, NEW size \in Sizes, sizes' = Append(sizes, size),
         closeFrame' \in {0, Len(sizes')}, UNCHANGED <<wire, input, decoderVars, delivered>>
  PROVE  /\ FramesInv' /\ LengthInv' /\ BytesInv' /\ Out' = Out /\ Stream' = Stream
         /\ wire' \in Seq(Bytes') /\ input' \in Seq(Bytes') /\ dBuffer' \in Seq(Bytes')
         /\ dFrames' \in Seq(Seq(Bytes')) /\ delivered' \in Seq(Seq(Bytes'))
<1>1. TypeInv /\ FramesInv /\ LengthInv /\ BytesInv  BY DEF StreamInv
<1>2. UNCHANGED <<wire, input, dBuffer, dExpected, dFrames, dBytes, dError, delivered>>  BY DEF decoderVars
<1>3. PICK st : Layout(st)  BY DEF StreamInv
<1>4. /\ Len(sizes') = Len(sizes) + 1 /\ \A n \in 1..Len(sizes) : sizes'[n] = sizes[n]
      /\ Bytes \subseteq Bytes'
  BY <1>1, <1>3, LongerLayout
<1>5. Seq(Bytes) \subseteq Seq(Bytes')  BY <1>4, SeqMonotonic
<1>6. Seq(Seq(Bytes)) \subseteq Seq(Seq(Bytes'))  BY <1>5, SeqMonotonic
<1>7. /\ wire' \in Seq(Bytes') /\ input' \in Seq(Bytes') /\ dBuffer' \in Seq(Bytes')
      /\ dFrames' \in Seq(Seq(Bytes')) /\ delivered' \in Seq(Seq(Bytes'))
  BY <1>1, <1>2, <1>5, <1>6 DEF TypeInv
<1>8. Out' = Out /\ Stream' = Stream  BY <1>2 DEF Out, Stream
<1>9. Clean /\ Len(Out) \in Nat /\ Len(Out) <= Len(sizes) /\ Len(sizes) \in Nat
  BY <1>1, CleanBeforeStop, CleanMeansQueued, ByteFacts
<1>10. FramesInv'
  <2> SUFFICES ASSUME NEW n \in 1..Len(Out) PROVE n <= Len(sizes') /\ Out[n] = Whole(n)'
    BY <1>8 DEF FramesInv
  <2>1. CleanTo(n)
    <3>1. \A k \in 1..n : k \in 1..Len(Out)  BY <1>9
    <3> QED
      BY <1>9, <3>1 DEF Clean, CleanTo
  <2>2. n <= Len(sizes) /\ Out[n] = Whole(n)  BY <1>1, <2>1 DEF FramesInv
  <2>3. n \in 1..Len(sizes)  BY <1>9, <2>2
  <2>4. Whole(n)' = Whole(n)  BY <1>4, <2>3 DEF Whole
  <2> QED
    BY <1>4, <1>9, <2>2, <2>3, <2>4
<1>11. ASSUME ~dError, dExpected # 0
       PROVE  Len(Out) + 1 <= Len(sizes) /\ dExpected = sizes[Len(Out) + 1]
  <2>1. LengthSize <= Len(dBuffer) /\ Len(dBuffer) \in Nat  BY <1>1, <1>11, StreamFacts DEF LengthInv
  <2>2. \A i \in 1..LengthSize : dBuffer[i].frame # closeFrame
    <3> SUFFICES ASSUME NEW i \in 1..LengthSize PROVE dBuffer[i].frame # 0
      OBVIOUS
    <3>1. i \in 1..Len(dBuffer)  BY <2>1, SizeFacts
    <3>2. dBuffer[i] \in Bytes  BY <1>1, <3>1, ElementOfSeq DEF TypeInv
    <3> QED
      BY <1>1, <3>2, ByteFacts
  <2> QED
    BY <1>1, <1>9, <1>11, <2>2 DEF LengthInv
<1>12. LengthInv'
  <2>1. ASSUME ~dError, dExpected # 0
        PROVE  Len(Out) + 1 <= Len(sizes') /\ dExpected = sizes'[Len(Out) + 1]
    <3>1. Len(Out) + 1 \in 1..Len(sizes)  BY <1>9, <1>11, <2>1
    <3> QED
      BY <1>4, <1>9, <1>11, <2>1, <3>1
  <2> QED
    BY <1>1, <1>2, <1>8, <2>1 DEF LengthInv
<1>13. BytesInv'  BY <1>1, <1>2 DEF BytesInv
<1> QED
  BY <1>7, <1>8, <1>10, <1>12, <1>13

\* Before Stop every byte on its way has its place, with one more frame queued too.
PlacedBy(nst) ==
  /\ \A i \in 1..Len(Stream') : nst[Stream'[i].frame] + Stream'[i].at = nst[Len(Out') + 1] + i
  /\ nst[Len(sizes) + 1 - Len(wFrames)] + wOffset = nst[Len(Out') + 1] + Len(Stream')

LEMMA PlacesKept ==
  ASSUME StreamInv, closeFrame = 0, ~dError, Stream' = Stream, Out' = Out,
         NEW st, PlaceInv(st), NEW nst, \A n \in 1..(Len(sizes) + 1) : nst[n] = st[n]
  PROVE  PlacedBy(nst)
<1>1. TypeInv /\ WriterInv /\ FramesInv  BY DEF StreamInv
<1>2. Clean /\ Len(Out) \in Nat /\ Len(Out) <= Len(sizes) /\ Len(sizes) \in Nat
  BY <1>1, CleanBeforeStop, CleanMeansQueued, ByteFacts
<1>3. nst[Len(Out) + 1] = st[Len(Out) + 1]
  <2>1. Len(Out) + 1 \in 1..(Len(sizes) + 1)  BY <1>2
  <2> QED
    BY <2>1
<1>4. nst[Len(sizes) + 1 - Len(wFrames)] = st[Len(sizes) + 1 - Len(wFrames)]
  <2>1. Len(wFrames) \in Nat /\ Len(wFrames) <= Len(sizes)  BY <1>1, LenProperties DEF TypeInv, WriterInv
  <2>2. Len(sizes) + 1 - Len(wFrames) \in 1..(Len(sizes) + 1)  BY <1>2, <2>1
  <2> QED
    BY <2>2
<1>5. ASSUME NEW i \in 1..Len(Stream)
      PROVE  nst[Stream[i].frame] + Stream[i].at = st[Len(Out) + 1] + i
  <2>1. Stream[i] \in Bytes  BY <1>1, StreamFacts, ElementOfSeq
  <2>2. Stream[i].frame \in 1..Len(sizes)  BY <1>1, <2>1, ByteFacts
  <2>3. Stream[i].frame \in 1..(Len(sizes) + 1) /\ Stream[i].frame # closeFrame  BY <1>2, <2>2
  <2>4. nst[Stream[i].frame] = st[Stream[i].frame]  BY <2>3
  <2> QED
    BY <1>2, <2>3, <2>4 DEF PlaceInv
<1>6. st[Len(sizes) + 1 - Len(wFrames)] + wOffset = st[Len(Out) + 1] + Len(Stream)  BY <1>2 DEF PlaceInv
<1> QED
  BY <1>3, <1>4, <1>5, <1>6 DEF PlacedBy

LEMMA QueueStreamInv ==
  ASSUME StreamInv, NEW size \in Sizes, Queue(size)
  PROVE  StreamInv'
<1>1. TypeInv /\ WriterInv /\ FramesInv /\ LengthInv /\ BytesInv  BY DEF StreamInv
<1>2. /\ closeFrame = 0 /\ closeFrame' = 0 /\ sizes' = Append(sizes, size)
      /\ wFrames' = Append(wFrames, Len(sizes')) /\ wBytes' = wBytes + size /\ wOffset' = wOffset
      /\ UNCHANGED <<wire, input, decoderVars, delivered>>
  BY DEF Queue
<1>3. PICK st \in [1..(Len(sizes) + 1) -> Nat] : Layout(st) /\ CountInv(st) /\ PlaceInv(st)  BY DEF StreamInv
<1>4. PICK nst \in [1..(Len(sizes') + 1) -> Nat] :
        /\ Layout(nst)' /\ nst[Len(sizes) + 2] = nst[Len(sizes) + 1] + size
        /\ \A n \in 1..(Len(sizes) + 1) : nst[n] = st[n]
  BY <1>1, <1>2, <1>3, LongerLayout
<1>5. /\ Len(sizes') = Len(sizes) + 1 /\ sizes' \in Seq(Sizes) /\ Len(sizes) \in Nat
      /\ \A n \in 1..Len(sizes) : sizes'[n] = sizes[n]
      /\ sizes'[Len(sizes) + 1] = size
  BY <1>1, <1>2, <1>3, LongerLayout, ByteFacts
<1>6. /\ FramesInv' /\ LengthInv' /\ BytesInv' /\ Out' = Out /\ Stream' = Stream
      /\ wire' \in Seq(Bytes') /\ input' \in Seq(Bytes') /\ dBuffer' \in Seq(Bytes')
      /\ dFrames' \in Seq(Seq(Bytes')) /\ delivered' \in Seq(Seq(Bytes'))
  BY <1>2, LongerQueue
<1>7. /\ wFrames \in Seq(Nat) /\ Len(wFrames) \in Nat /\ wFrames' \in Seq(Nat) /\ Len(wFrames') = Len(wFrames) + 1
      /\ \A i \in 1..Len(wFrames) : wFrames'[i] = wFrames[i]
      /\ wFrames'[Len(wFrames) + 1] = Len(sizes) + 1 /\ wFrames' # << >>
  <2>1. wFrames \in Seq(Nat) /\ Len(sizes) + 1 \in Nat  BY <1>1, <1>5 DEF TypeInv
  <2>2. wFrames' = Append(wFrames, Len(sizes) + 1)  BY <1>2, <1>5
  <2>3. wFrames' \in Seq(Nat) /\ Len(wFrames') = Len(wFrames) + 1 /\ wFrames' # << >>
    BY <2>1, <2>2, AppendProperties
  <2>4. /\ \A i \in 1..Len(wFrames) : wFrames'[i] = wFrames[i]
        /\ wFrames'[Len(wFrames) + 1] = Len(sizes) + 1
    BY <2>1, <2>2, AppendProperties
  <2>5. Len(wFrames) \in Nat  BY <2>1, LenProperties
  <2> QED
    BY <2>1, <2>3, <2>4, <2>5
<1>8. TypeInv'
  BY <1>1, <1>2, <1>5, <1>6, <1>7 DEF TypeInv, decoderVars
<1>9. WriterInv'
  <2>1. Len(wFrames) <= Len(sizes) /\ \A i \in 1..Len(wFrames) : wFrames[i] = Len(sizes) - Len(wFrames) + i
    BY <1>1 DEF WriterInv
  <2>2. Len(wFrames') <= Len(sizes')  BY <1>5, <1>7, <2>1
  <2>3. Len(sizes') - Len(wFrames') = Len(sizes) - Len(wFrames)  BY <1>5, <1>7
  <2>4. \A i \in 1..Len(wFrames') : wFrames'[i] = Len(sizes) - Len(wFrames) + i
    <3> SUFFICES ASSUME NEW i \in 1..Len(wFrames') PROVE wFrames'[i] = Len(sizes) - Len(wFrames) + i
      OBVIOUS
    <3>1. CASE i \in 1..Len(wFrames)  BY <1>7, <2>1, <3>1
    <3>2. CASE i = Len(wFrames) + 1  BY <1>5, <1>7, <3>2
    <3> QED
      BY <1>7, <3>1, <3>2
  <2>5. wOffset < sizes'[Len(sizes) - Len(wFrames) + 1]
    <3>1. CASE wFrames = << >>
      <4>1. Len(wFrames) = 0 /\ wOffset = 0  BY <1>1, <3>1, EmptySeq DEF WriterInv
      <4> QED
        BY <1>5, <4>1, SizeFacts
    <3>2. CASE wFrames # << >>
      <4>1. Len(wFrames) >= 1  BY <1>7, <3>2, EmptySeq
      <4>2. Len(sizes) - Len(wFrames) + 1 \in 1..Len(sizes)  BY <1>5, <1>7, <2>1, <4>1
      <4> QED
        BY <1>1, <1>5, <3>2, <4>2 DEF WriterInv
    <3> QED
      BY <3>1, <3>2
  <2> QED
    BY <1>2, <1>7, <2>2, <2>3, <2>4, <2>5 DEF WriterInv
<1>10. Len(sizes') + 1 = Len(sizes) + 2 /\ Len(sizes') + 1 - Len(wFrames') = Len(sizes) + 1 - Len(wFrames)  BY <1>5, <1>7
<1>11. Len(sizes) + 1 - Len(wFrames) \in 1..(Len(sizes) + 1) /\ Len(sizes) + 1 \in 1..(Len(sizes) + 1)
  BY <1>1, <1>5, <1>7 DEF WriterInv
<1>12. CountInv(nst)'
  <2>1. wBytes = st[Len(sizes) + 1] - st[Len(sizes) + 1 - Len(wFrames)] - wOffset  BY <1>3 DEF CountInv
  <2>2. /\ nst[Len(sizes) + 2] = st[Len(sizes) + 1] + size
        /\ nst[Len(sizes) + 1 - Len(wFrames)] = st[Len(sizes) + 1 - Len(wFrames)]
    BY <1>4, <1>11
  <2>3. st[Len(sizes) + 1] \in Nat /\ st[Len(sizes) + 1 - Len(wFrames)] \in Nat /\ size \in Nat /\ wOffset \in Nat
    BY <1>1, <1>3, <1>11, SizeFacts DEF TypeInv
  <2>4. wBytes' = nst[Len(sizes) + 2] - nst[Len(sizes) + 1 - Len(wFrames)] - wOffset
    BY <1>2, <2>1, <2>2, <2>3
  <2> QED
    BY <1>2, <1>10, <2>4 DEF CountInv
<1>13. PlaceInv(nst)'
  <2> SUFFICES ASSUME ~dError PROVE PlaceInv(nst)'
    BY <1>2 DEF PlaceInv, decoderVars
  <2>1. PlacedBy(nst)
    <3>1. PlaceInv(st) /\ \A n \in 1..(Len(sizes) + 1) : nst[n] = st[n]  BY <1>3, <1>4
    <3>2. closeFrame = 0 /\ Stream' = Stream /\ Out' = Out  BY <1>2, <1>6
    <3> QED
      BY <3>1, <3>2, PlacesKept
  <2> QED
    BY <1>2, <1>10, <2>1 DEF PlaceInv, PlacedBy
<1> QED
  BY <1>4, <1>6, <1>8, <1>9, <1>12, <1>13 DEF StreamInv

LEMMA StopStreamInv ==
  ASSUME StreamInv, Stop
  PROVE  StreamInv'
<1>1. TypeInv /\ WriterInv /\ FramesInv /\ LengthInv /\ BytesInv  BY DEF StreamInv
<1>2. /\ closeFrame = 0 /\ closeFrame' = Len(sizes') /\ sizes' = Append(sizes, CloseSize)
      /\ wFrames' = << Len(sizes') >> /\ wBytes' = CloseSize /\ wOffset' = 0
      /\ UNCHANGED <<wire, input, decoderVars, delivered>>
  BY DEF Stop, ResetWriter
<1>3. PICK st \in [1..(Len(sizes) + 1) -> Nat] : Layout(st) /\ CountInv(st) /\ PlaceInv(st)  BY DEF StreamInv
<1>4. PICK nst \in [1..(Len(sizes') + 1) -> Nat] :
        /\ Layout(nst)' /\ nst[Len(sizes) + 2] = nst[Len(sizes) + 1] + CloseSize
        /\ \A n \in 1..(Len(sizes) + 1) : nst[n] = st[n]
  BY <1>1, <1>2, <1>3, LongerLayout, SizeFacts
<1>5. /\ Len(sizes') = Len(sizes) + 1 /\ sizes' \in Seq(Sizes) /\ Len(sizes) \in Nat
      /\ sizes'[Len(sizes) + 1] = CloseSize
  BY <1>1, <1>2, <1>3, LongerLayout, ByteFacts, SizeFacts
<1>6. /\ FramesInv' /\ LengthInv' /\ BytesInv' /\ Out' = Out /\ Stream' = Stream
      /\ wire' \in Seq(Bytes') /\ input' \in Seq(Bytes') /\ dBuffer' \in Seq(Bytes')
      /\ dFrames' \in Seq(Seq(Bytes')) /\ delivered' \in Seq(Seq(Bytes'))
  BY <1>2, LongerQueue, SizeFacts
<1>7. wFrames' \in Seq(Nat) /\ Len(wFrames') = 1 /\ wFrames'[1] = Len(sizes') /\ wFrames' # << >>  BY <1>2, <1>5
<1>8. TypeInv'  BY <1>1, <1>2, <1>5, <1>6, <1>7 DEF TypeInv, decoderVars
<1>9. WriterInv'
  <2>1. \A i \in 1..Len(wFrames') : i = 1 /\ wFrames'[i] = Len(sizes') - Len(wFrames') + i  BY <1>5, <1>7
  <2>2. Len(sizes') - Len(wFrames') + 1 = Len(sizes) + 1  BY <1>5, <1>7
  <2>3. wOffset' < sizes'[Len(sizes) + 1]  BY <1>2, <1>5, SizeFacts
  <2> QED
    BY <1>5, <1>7, <2>1, <2>2, <2>3 DEF WriterInv
<1>10. Len(sizes') + 1 = Len(sizes) + 2 /\ Len(sizes') + 1 - Len(wFrames') = Len(sizes) + 1  BY <1>5, <1>7
<1>11. CountInv(nst)'
  <2>1. nst[Len(sizes) + 1] \in Nat  BY <1>4, <1>5
  <2>2. wBytes' = nst[Len(sizes) + 2] - nst[Len(sizes) + 1] - wOffset'  BY <1>2, <1>4, <2>1, SizeFacts
  <2> QED
    BY <1>10, <2>2 DEF CountInv
<1>12. PlaceInv(nst)'
  <2> SUFFICES ASSUME ~dError PROVE PlaceInv(nst)'
    BY <1>2 DEF PlaceInv, decoderVars
  <2>1. PlacedBy(nst)
    <3>1. PlaceInv(st) /\ \A n \in 1..(Len(sizes) + 1) : nst[n] = st[n]  BY <1>3, <1>4
    <3>2. closeFrame = 0 /\ Stream' = Stream /\ Out' = Out  BY <1>2, <1>6
    <3> QED
      BY <3>1, <3>2, PlacesKept
  <2>2. closeFrame' # 0  BY <1>2, <1>5
  <2> QED
    BY <2>1, <2>2 DEF PlaceInv, PlacedBy
<1> QED
  BY <1>4, <1>6, <1>8, <1>9, <1>11, <1>12 DEF StreamInv

\* Where the writer stands: h is the frame at the front of its queue.
LEMMA SendStreamInv ==
  ASSUME StreamInv, NEW n \in Nat \ {0}, Send(n)
  PROVE  StreamInv'
<1> DEFINE h == Len(sizes) - Len(wFrames) + 1
<1>1. TypeInv /\ WriterInv /\ FramesInv /\ LengthInv /\ BytesInv  BY DEF StreamInv
<1>2. /\ wFrames # << >> /\ wBytes' = wBytes - n
      /\ n <= sizes[Head(wFrames)] - wOffset
      /\ wire' = wire \o Slice(Head(wFrames), wOffset + 1, wOffset + n)
      /\ UNCHANGED <<sizes, closeFrame, input, decoderVars, delivered>>
  BY DEF Send, ConsumeSent
<1>3. /\ wFrames \in Seq(Nat) /\ Len(wFrames) \in Nat /\ Len(wFrames) >= 1 /\ Len(wFrames) <= Len(sizes)
      /\ Len(sizes) \in Nat /\ wOffset \in Nat
  <2>1. wFrames \in Seq(Nat) /\ wOffset \in Nat  BY <1>1 DEF TypeInv
  <2>2. Len(wFrames) \in Nat \ {0}  BY <1>2, <2>1, EmptySeq
  <2> QED
    BY <1>1, <2>1, <2>2, ByteFacts DEF WriterInv
<1>4. h \in 1..Len(sizes) /\ Head(wFrames) = h
  <2>1. Head(wFrames) = wFrames[1]  BY <1>2, <1>3
  <2>2. 1 \in 1..Len(wFrames)  BY <1>3
  <2>3. wFrames[1] = Len(sizes) - Len(wFrames) + 1  BY <1>1, <2>2 DEF WriterInv
  <2> QED
    BY <1>3, <2>1, <2>3
<1>5. sizes[h] \in Sizes /\ sizes[h] \in Nat /\ wOffset + n <= sizes[h]
  <2>1. sizes[h] \in Sizes /\ sizes[h] \in Nat  BY <1>1, <1>4, ByteFacts, SizeFacts
  <2> QED
    BY <1>2, <1>3, <1>4, <2>1
<1>6. wFrames' = IF wOffset + n = sizes[h] THEN Tail(wFrames) ELSE wFrames
  BY <1>4 DEF Send, ConsumeSent
<1>7. wOffset' = IF wOffset + n = sizes[h] THEN 0 ELSE wOffset + n
  BY <1>4 DEF Send, ConsumeSent
<1>8. h = Len(sizes) - Len(wFrames) + 1  OBVIOUS
<1> HIDE DEF h
<1>9. h \in Nat  BY <1>4
<1> DEFINE new == Slice(h, wOffset + 1, wOffset + n)
<1>10. /\ new \in Seq(Bytes) /\ Len(new) = n
       /\ \A i \in 1..n : new[i] = [frame |-> h, at |-> wOffset + i]
  <2>1. \A i \in (wOffset + 1)..(wOffset + n) : [frame |-> h, at |-> i] \in Bytes
    BY <1>3, <1>4, <1>5 DEF Bytes
  <2>2. wOffset + 1 \in Nat /\ wOffset + n \in Nat /\ wOffset + 1 <= wOffset + n + 1  BY <1>3
  <2>3. /\ new \in Seq(Bytes) /\ Len(new) = (wOffset + n) - (wOffset + 1) + 1
        /\ \A i \in 1..((wOffset + n) - (wOffset + 1) + 1) : new[i] = [frame |-> h, at |-> (wOffset + 1) + i - 1]
    BY <1>9, <2>1, <2>2, Sliced
  <2>4. (wOffset + n) - (wOffset + 1) + 1 = n  BY <1>3
  <2>5. \A i \in 1..n : (wOffset + 1) + i - 1 = wOffset + i  BY <1>3
  <2> QED
    BY <2>3, <2>4, <2>5
<1>11. wire' = wire \o new  BY <1>2, <1>4
<1> HIDE DEF new
<1>12. wire' \in Seq(Bytes)
  <2>1. wire \in Seq(Bytes) /\ new \in Seq(Bytes)  BY <1>1, <1>10 DEF TypeInv
  <2>2. wire \o new \in Seq(Bytes)  BY <2>1, Behind
  <2> QED
    BY <1>11, <2>2
<1>13. Bytes' = Bytes  BY <1>2 DEF Bytes
<1>14. /\ wFrames' \in Seq(Nat) /\ Len(wFrames') \in Nat /\ wOffset' \in Nat
       /\ Len(wFrames') = IF wOffset + n = sizes[h] THEN Len(wFrames) - 1 ELSE Len(wFrames)
  <2>1. Tail(wFrames) \in Seq(Nat) /\ Len(Tail(wFrames)) = Len(wFrames) - 1  BY <1>2, <1>3, HeadTailProperties
  <2> QED
    BY <1>3, <1>6, <1>7, <2>1
<1>15. TypeInv'  BY <1>1, <1>2, <1>12, <1>13, <1>14 DEF TypeInv, decoderVars
<1>16. WriterInv'
  <2>1. CASE wOffset + n = sizes[h]
    <3>1. wFrames' = Tail(wFrames) /\ wOffset' = 0 /\ Len(wFrames') = Len(wFrames) - 1  BY <1>6, <1>7, <1>14, <2>1
    <3>2. \A i \in 1..Len(wFrames') : wFrames'[i] = wFrames[i + 1]  BY <1>2, <1>3, <3>1, HeadTailProperties
    <3>3. \A i \in 1..Len(wFrames') : wFrames'[i] = Len(sizes) - Len(wFrames') + i
      <4>1. \A i \in 1..Len(wFrames') : i + 1 \in 1..Len(wFrames)  BY <1>3, <3>1
      <4>2. \A i \in 1..Len(wFrames') : wFrames[i + 1] = Len(sizes) - Len(wFrames) + (i + 1)  BY <1>1, <4>1 DEF WriterInv
      <4>3. \A i \in 1..Len(wFrames') : Len(sizes) - Len(wFrames) + (i + 1) = Len(sizes) - Len(wFrames') + i
        <5>1. Len(wFrames') = Len(wFrames) - 1 /\ Len(wFrames) \in Nat /\ Len(sizes) \in Nat  BY <1>3, <3>1
        <5> QED
          BY <5>1
      <4> QED
        BY <3>2, <4>2, <4>3
    <3>4. wFrames' # << >> => 0 < sizes[Len(sizes) - Len(wFrames') + 1]
      <4>1. wFrames' # << >> => Len(wFrames') >= 1  BY <1>14, EmptySeq
      <4>2. wFrames' # << >> => Len(sizes) - Len(wFrames') + 1 \in 1..Len(sizes)  BY <1>3, <3>1, <4>1
      <4> QED
        BY <1>1, <4>2, ByteFacts, SizeFacts
    <3>5. closeFrame # 0 => Len(wFrames') <= 1  BY <1>1, <1>3, <3>1 DEF WriterInv
    <3> QED
      BY <1>2, <1>3, <3>1, <3>3, <3>4, <3>5 DEF WriterInv
  <2>2. CASE wOffset + n # sizes[h]
    <3>1. wFrames' = wFrames /\ wOffset' = wOffset + n  BY <1>6, <1>7, <2>2
    <3>2. wOffset' < sizes[h]  BY <1>3, <1>5, <2>2, <3>1
    <3> QED
      BY <1>1, <1>2, <1>8, <3>1, <3>2 DEF WriterInv
  <2> QED
    BY <2>1, <2>2
<1>17. Out' = Out  BY <1>2 DEF Out, decoderVars
<1>18. FramesInv' /\ (Clean' => Clean)  BY <1>1, <1>2, <1>17, SameOut
<1>19. LengthInv'  BY <1>1, <1>2, <1>17, <1>18 DEF LengthInv, decoderVars
<1>20. BytesInv'  BY <1>1, <1>2 DEF BytesInv, decoderVars
<1>21. PICK st \in [1..(Len(sizes) + 1) -> Nat] : Layout(st) /\ CountInv(st) /\ PlaceInv(st)  BY DEF StreamInv
<1>22. Layout(st)'  BY <1>2, <1>21 DEF Layout
\* st of the frame at the front, and how far the writer is in it.
<1>23. st[h] \in Nat /\ st[h + 1] = st[h] + sizes[h]
  <2>1. \A m \in 1..Len(sizes) : st[m + 1] = st[m] + sizes[m]  BY <1>21 DEF Layout
  <2>2. h \in 1..(Len(sizes) + 1)  BY <1>3, <1>4
  <2> QED
    BY <1>4, <1>21, <2>1, <2>2
<1>24. st[Len(sizes) + 1 - Len(wFrames')] + wOffset' = st[h] + wOffset + n
  <2>1. CASE wOffset + n = sizes[h]
    <3>1. Len(sizes) + 1 - Len(wFrames') = h + 1  BY <1>3, <1>8, <1>14, <2>1
    <3>2. wOffset' = 0  BY <1>7, <2>1
    <3>3. st[h] + wOffset + n = st[h + 1] + 0  BY <1>3, <1>5, <1>23, <2>1
    <3>4. st[h + 1] + 0 = st[Len(sizes) + 1 - Len(wFrames')] + wOffset'  BY <3>1, <3>2
    <3> QED
      BY <3>3, <3>4
  <2>2. CASE wOffset + n # sizes[h]
    <3>1. Len(sizes) + 1 - Len(wFrames') = h
      <4>1. Len(wFrames') = Len(wFrames)  BY <1>14, <2>2
      <4> QED
        BY <1>3, <1>8, <4>1
    <3>2. wOffset' = wOffset + n  BY <1>7, <2>2
    <3>3. st[h] + wOffset + n = st[h] + (wOffset + n)  BY <1>3, <1>23
    <3> QED
      BY <3>1, <3>2, <3>3
  <2> QED
    BY <2>1, <2>2
<1>25. Len(sizes) + 1 - Len(wFrames) = h  BY <1>3, <1>8
<1>26. CountInv(st)'
  <2>1. wBytes = st[Len(sizes) + 1] - st[h] - wOffset  BY <1>21, <1>25 DEF CountInv
  <2>2. st[Len(sizes) + 1] \in Nat  BY <1>3, <1>21
  <2>3. st[Len(sizes) + 1 - Len(wFrames')] \in Nat
    <3>1. Len(sizes) + 1 - Len(wFrames') \in 1..(Len(sizes) + 1)
      <4>1. Len(wFrames') \in Nat /\ Len(sizes) \in Nat /\ Len(wFrames') <= Len(sizes)  BY <1>3, <1>14
      <4> QED
        BY <4>1
    <3> QED
      BY <1>21, <3>1
  <2>4. wBytes' = st[Len(sizes) + 1] - st[Len(sizes) + 1 - Len(wFrames')] - wOffset'

    <3> DEFINE at == st[Len(sizes) + 1 - Len(wFrames')]
               front == st[h]
               end == st[Len(sizes) + 1]
    <3>1. at \in Nat /\ front \in Nat /\ end \in Nat  BY <1>23, <2>2, <2>3
    <3>2. at + wOffset' = (front + wOffset) + n  BY <1>24
    <3>3. wBytes' = ((end - front) - wOffset) - n  BY <1>2, <2>1
    <3> HIDE DEF at, front, end
    <3>4. wOffset \in Nat /\ wOffset' \in Nat  BY <1>3, <1>14
    <3>5. ((end - front) - wOffset) - n = (end - at) - wOffset'
      <4>1. ((end - front) - wOffset) - n = end - ((front + wOffset) + n)  BY <3>1, <3>4
      <4>2. (end - at) - wOffset' = end - (at + wOffset')  BY <3>1, <3>4
      <4> QED
        BY <3>2, <4>1, <4>2
    <3>6. wBytes' = (end - at) - wOffset'  BY <3>3, <3>5
    <3> QED
      BY <3>6 DEF at, end
  <2> QED
    BY <1>2, <2>4 DEF CountInv
<1>27. /\ Len(Stream') = Len(Stream) + n /\ Len(Stream) \in Nat
       /\ \A i \in 1..Len(Stream) : Stream'[i] = Stream[i]
       /\ \A i \in 1..n : Stream'[Len(Stream) + i] = new[i]
  <2> DEFINE Read == dBuffer \o input
  <2>1. dBuffer \in Seq(Bytes) /\ input \in Seq(Bytes) /\ wire \in Seq(Bytes) /\ new \in Seq(Bytes)
    BY <1>1, <1>10 DEF TypeInv
  <2>2. Read \in Seq(Bytes)  BY <2>1, Behind
  <2>3. Stream = Read \o wire  BY DEF Stream
  <2>4. Stream' = Read \o (wire \o new)  BY <1>2, <1>11 DEF Stream, decoderVars
  <2> HIDE DEF Read
  <2>5. (Read \o wire) \o new = Read \o (wire \o new)  BY <2>1, <2>2, RegroupBytes, Zenon
  <2>6. Stream \in Seq(Bytes)  BY <1>1, StreamFacts
  <2>7. /\ Len(Stream \o new) = Len(Stream) + Len(new)
        /\ \A i \in 1..Len(Stream) : (Stream \o new)[i] = Stream[i]
        /\ \A i \in 1..Len(new) : (Stream \o new)[Len(Stream) + i] = new[i]
    BY <2>1, <2>6, Behind
  <2>8. Stream' = Stream \o new  BY <2>3, <2>4, <2>5
  <2>9. Len(Stream) \in Nat  BY <2>6, LenProperties
  <2> QED
    BY <1>10, <2>7, <2>8, <2>9
<1>28. PlaceInv(st)'
  <2> SUFFICES ASSUME ~dError, Clean
               PROVE  /\ \A i \in 1..Len(Stream') : Stream'[i].frame # closeFrame => st[Stream'[i].frame] + Stream'[i].at = st[Len(Out) + 1] + i
                      /\ closeFrame = 0 => st[Len(sizes) + 1 - Len(wFrames')] + wOffset' = st[Len(Out) + 1] + Len(Stream')
    BY <1>2, <1>17, <1>18 DEF PlaceInv, decoderVars
  <2>1. /\ \A i \in 1..Len(Stream) : Stream[i].frame # closeFrame => st[Stream[i].frame] + Stream[i].at = st[Len(Out) + 1] + i
        /\ closeFrame = 0 => st[h] + wOffset = st[Len(Out) + 1] + Len(Stream)
    BY <1>21, <1>25 DEF PlaceInv
  <2>2. st[Len(Out) + 1] \in Nat
    <3>1. Len(Out) + 1 \in 1..(Len(sizes) + 1)  BY <1>1, <1>3, CleanMeansQueued
    <3> QED
      BY <1>21, <3>1
  \* After Stop the frame at the front is Close.
  <2>3. h # closeFrame => closeFrame = 0
    <3>1. closeFrame # 0 => closeFrame = Len(sizes) /\ Len(wFrames) <= 1  BY <1>1 DEF TypeInv, WriterInv
    <3> QED
      BY <1>3, <1>8, <3>1
  <2>4. ASSUME NEW i \in 1..Len(Stream'), Stream'[i].frame # closeFrame
        PROVE  st[Stream'[i].frame] + Stream'[i].at = st[Len(Out) + 1] + i
    <3>1. CASE i \in 1..Len(Stream)  BY <1>27, <2>1, <2>4, <3>1
    <3>2. CASE i \notin 1..Len(Stream)
      <4>1. PICK k \in 1..n : i = Len(Stream) + k
        <5>1. i - Len(Stream) \in 1..n /\ i = Len(Stream) + (i - Len(Stream))  BY <1>27, <3>2
        <5> QED
          BY <5>1
      <4>2. Stream'[i] = [frame |-> h, at |-> wOffset + k]  BY <1>10, <1>27, <4>1
      <4>3. st[h] + wOffset = st[Len(Out) + 1] + Len(Stream)  BY <2>1, <2>3, <2>4, <4>2
      <4>4. Stream'[i].frame = h /\ Stream'[i].at = wOffset + k  BY <4>2
      <4>5. st[h] + (wOffset + k) = st[Len(Out) + 1] + (Len(Stream) + k)

        <5> DEFINE front == st[h]
                   start == st[Len(Out) + 1]
        <5>1. front \in Nat /\ start \in Nat /\ front + wOffset = start + Len(Stream)  BY <1>23, <2>2, <4>3
        <5> HIDE DEF front, start
        <5>2. k \in Nat /\ wOffset \in Nat /\ Len(Stream) \in Nat  BY <1>3, <1>27, <4>1
        <5>3. front + (wOffset + k) = start + (Len(Stream) + k)  BY <5>1, <5>2
        <5> QED
          BY <5>3 DEF front, start
      <4> QED
        BY <4>1, <4>4, <4>5
    <3> QED
      BY <3>1, <3>2
  <2>5. closeFrame = 0 => st[Len(sizes) + 1 - Len(wFrames')] + wOffset' = st[Len(Out) + 1] + Len(Stream')
    BY <1>3, <1>23, <1>24, <1>27, <2>1, <2>2
  <2> QED
    BY <2>4, <2>5
<1>29. st \in [1..(Len(sizes') + 1) -> Nat]  BY <1>2, <1>21
<1> QED
  BY <1>15, <1>16, <1>18, <1>19, <1>20, <1>22, <1>26, <1>28, <1>29 DEF StreamInv

LEMMA NextStreamInv == StreamInv /\ [Next]_vars => StreamInv'
<1> SUFFICES ASSUME StreamInv, [Next]_vars PROVE StreamInv'
  OBVIOUS
<1>1. CASE \E size \in Sizes : Queue(size)  BY <1>1, QueueStreamInv
<1>2. CASE Sending
  <2>1. PICK n \in 1..Max(Sizes) : Send(n)  BY <1>2 DEF Sending
  <2>2. n \in Nat \ {0}  BY <2>1, MaxIsSize
  <2> QED
    BY <2>1, <2>2, SendStreamInv
<1>3. CASE Stop  BY <1>3, StopStreamInv
<1>4. CASE Receiving  BY <1>4, ReceiveStreamInv DEF Receiving
<1>5. CASE AppendLength  BY <1>5, AppendLengthStreamInv
<1>6. CASE AppendBody  BY <1>6, AppendBodyStreamInv
<1>7. CASE PollFrames  BY <1>7, PollStreamInv
<1>8. CASE UNCHANGED vars
  <2>1. UNCHANGED <<sizes, closeFrame, wFrames, wOffset, wBytes, wire, input, dBuffer, dExpected, dFrames, dBytes, dError, delivered>>
    BY <1>8 DEF vars, writerVars, decoderVars
  <2>2. TypeInv' /\ WriterInv'  BY <2>1 DEF StreamInv, TypeInv, WriterInv, Bytes
  <2>3. Out' = Out /\ Stream' = Stream  BY <2>1 DEF Out, Stream
  <2>4. FramesInv' /\ (Clean' => Clean)  BY <2>1, <2>3, SameOut DEF StreamInv
  <2>5. LengthInv' /\ BytesInv'  BY <2>1, <2>3, <2>4 DEF StreamInv, LengthInv, BytesInv
  <2>6. PICK st \in [1..(Len(sizes) + 1) -> Nat] : Layout(st) /\ CountInv(st) /\ PlaceInv(st)  BY DEF StreamInv
  <2>7. Layout(st)' /\ CountInv(st)' /\ PlaceInv(st)'  BY <2>1, <2>3, <2>4, <2>6 DEF Layout, CountInv, PlaceInv
  <2>8. st \in [1..(Len(sizes') + 1) -> Nat]  BY <2>1, <2>6
  <2> QED
    BY <2>2, <2>4, <2>5, <2>7, <2>8 DEF StreamInv
<1> QED
  BY <1>1, <1>2, <1>3, <1>4, <1>5, <1>6, <1>7, <1>8 DEF Next

-----------------------------------------------------------------------------
(* The theorems *)

\* All bytes on their way have their place in what was queued, whatever the two
\* ends have done with them.
THEOREM StreamInvHolds == Spec => []StreamInv
<1>1. Init => StreamInv  BY InitStreamInv
<1>2. StreamInv /\ [Next]_vars => StreamInv'  BY NextStreamInv
<1> QED
  BY <1>1, <1>2, PTL DEF Spec

LEMMA ArriveWhole == StreamInv => FramesArriveWhole
<1> SUFFICES ASSUME StreamInv, NEW n \in DOMAIN delivered, \A k \in 1..n : ~HasClose(delivered[k])
             PROVE  delivered[n] = Whole(n)
  BY DEF FramesArriveWhole
<1>1. TypeInv /\ FramesInv  BY DEF StreamInv
<1>2. n \in 1..Len(delivered)
  <2>1. delivered \in Seq(Seq(Bytes))  BY <1>1 DEF TypeInv
  <2> QED
    BY <2>1, LenProperties
<1>3. /\ n \in 1..Len(Out) /\ Len(delivered) \in Nat
      /\ \A k \in 1..Len(delivered) : Out[k] = delivered[k]
  BY <1>1, <1>2, OutFacts
<1>4. CleanTo(n)
  <2>1. \A k \in 1..n : k \in 1..Len(delivered)  BY <1>2, <1>3
  <2> QED
    BY <1>3, <2>1 DEF CleanTo
<1> QED
  BY <1>1, <1>2, <1>3, <1>4 DEF FramesInv

\* However the stream is cut into reads and writes, and whenever Stop replaces the
\* queue, the frames that come out are the queued ones, whole and in order, up to
\* the first that has a byte of Close.
THEOREM FramesDoArriveWhole == Spec => []FramesArriveWhole
<1>1. StreamInv => FramesArriveWhole  BY ArriveWhole
<1> QED
  BY <1>1, StreamInvHolds, PTL

\* The part of a frame in the buffer, with Stop's Close not queued, is the
\* beginning of the next frame.
LEMMA FailWhenFull ==
  ASSUME StreamInv, [Next]_vars, dError', ~dError, closeFrame = 0
  PROVE  Len(sizes) - Len(delivered) > MaxFrames
<1>1. TypeInv /\ FramesInv /\ LengthInv /\ BytesInv  BY DEF StreamInv
<1>2. Clean  BY <1>1, CleanBeforeStop
<1>3. ASSUME NEW c \in 0..Len(input), NEW i \in 1..Len(Grown(c)) PROVE Grown(c)[i].frame # closeFrame
  <2>1. Grown(c)[i] \in Bytes  BY <1>1, GrownFacts, ElementOfSeq
  <2> QED
    BY <1>1, <2>1, ByteFacts
<1>4. ~(UNCHANGED dError)  OBVIOUS
<1>5. AppendLength \/ AppendBody
  <2>1. ASSUME NEW size \in Sizes, Queue(size) PROVE FALSE  BY <1>4, <2>1 DEF Queue, decoderVars
  <2>2. ASSUME Sending PROVE FALSE  BY <1>4, <2>2 DEF Sending, Send, decoderVars
  <2>3. ASSUME Stop PROVE FALSE  BY <1>4, <2>3 DEF Stop, decoderVars
  <2>4. ASSUME Receiving PROVE FALSE  BY <1>4, <2>4 DEF Receiving, Receive, decoderVars
  <2>5. ASSUME PollFrames PROVE FALSE  BY <1>4, <2>5 DEF PollFrames
  <2>6. ASSUME UNCHANGED vars PROVE FALSE  BY <1>4, <2>6 DEF vars, decoderVars
  <2> QED
    BY <2>1, <2>2, <2>3, <2>4, <2>5, <2>6 DEF Next
<1>6. CASE AppendLength
  <2> DEFINE c == Taken(LengthSize)
  <2>1. input # << >> /\ dExpected = 0 /\ Len(Grown(c)) = LengthSize /\ ~Aligned(Grown(c))
    BY <1>4, <1>6 DEF AppendLength
  <2>2. Len(dBuffer) < LengthSize  BY <1>1, <2>1 DEF LengthInv
  <2>3. c \in 1..Len(input)  BY <1>1, <2>1, <2>2, TakenFacts, SizeFacts
  <2> HIDE DEF c
  <2>4. c \in 0..Len(input)  BY <2>3
  <2>5. \A i \in 1..LengthSize : Grown(c)[i].frame # closeFrame  BY <1>3, <2>1, <2>4
  <2>6. Aligned(Grown(c))  BY <1>2, <2>1, <2>4, <2>5, LengthOfNext
  <2> QED
    BY <2>1, <2>6
<1>7. CASE AppendBody
  <2> DEFINE c == Taken(dExpected)
  <2>1. /\ input # << >> /\ dExpected # 0 /\ Len(Grown(c)) = dExpected
        /\ ~(Len(dFrames) < MaxFrames /\ dBytes + dExpected <= MaxBytes) \/ ~Aligned(Grown(c))
    BY <1>4, <1>7 DEF AppendBody
  <2>2. Len(dBuffer) < dExpected /\ dExpected \in Nat
    BY <1>1, <2>1, SizeFacts DEF LengthInv, TypeInv
  <2>3. c \in 1..Len(input)  BY <1>1, <2>1, <2>2, TakenFacts
  <2> HIDE DEF c
  <2>4. c \in 0..Len(input)  BY <2>3
  <2>5. Grown(c) \in Seq(Bytes) /\ Len(Grown(c)) = Len(dBuffer) + c  BY <1>1, <2>4, GrownFacts
  <2>6. ~HasClose(Grown(c))
    <3>1. DOMAIN Grown(c) = 1..Len(Grown(c))  BY <2>5, LenProperties
    <3> QED
      BY <1>3, <2>4, <3>1 DEF HasClose
  <2>7. Aligned(Grown(c)) /\ Len(Out) + 1 <= Len(sizes)  BY <1>2, <2>1, <2>4, <2>6, BodyOfNext
  <2>8. dBytes + dExpected <= MaxBytes
    <3>1. dBytes + Len(dBuffer) + Len(input) <= MaxBytes  BY <1>1 DEF BytesInv
    <3>2. dBytes \in Nat /\ Len(dBuffer) \in Nat /\ Len(input) \in Nat  BY <1>1, StreamFacts DEF TypeInv
    <3>3. dExpected = Len(dBuffer) + c  BY <2>1, <2>5
    <3> QED
      BY <2>3, <3>1, <3>2, <3>3, SizeFacts
  <2>9. ~(Len(dFrames) < MaxFrames)  BY <2>1, <2>7, <2>8
  <2>10. Len(Out) = Len(delivered) + Len(dFrames) /\ Len(delivered) \in Nat /\ Len(dFrames) \in Nat /\ Len(sizes) \in Nat
    BY <1>1, OutFacts, ByteFacts
  <2> QED
    BY <2>7, <2>9, <2>10, SizeFacts
<1> QED
  BY <1>5, <1>6, <1>7

\* Bytes of a writer that Stop has not disturbed make the decoder fail only when
\* more frames are unread than it can hold: no cut of the stream makes it take
\* bytes for a wrong length or a wrong header, and its byte limit is never met
\* before its frame limit.
THEOREM OnlyFailsWhenFull == Spec => FailsOnlyWhenFull
<1>1. StreamInv /\ [Next]_vars => [dError' /\ ~dError /\ closeFrame = 0 => Len(sizes) - Len(delivered) > MaxFrames]_vars
  BY FailWhenFull
<1> QED
  BY <1>1, StreamInvHolds, PTL DEF Spec, FailsOnlyWhenFull

-----------------------------------------------------------------------------
(* The sum in BytesCounted *)

\* The frames' sizes add up to the bytes between the writer's place in the stream
\* and its end: a sum of them that differed would differ first somewhere.
LEMMA SumCounted == StreamInv => BytesCounted
<1> SUFFICES ASSUME StreamInv PROVE BytesCounted
  OBVIOUS
<1> DEFINE W == Len(wFrames)
           T == Len(sizes) - W
           Sum(f) == [k \in 0..W |-> IF k = 0 THEN 0 ELSE f[k - 1] + sizes[wFrames[k]]]
<1>1. TypeInv /\ WriterInv  BY DEF StreamInv
<1>2. PICK st \in [1..(Len(sizes) + 1) -> Nat] : Layout(st) /\ CountInv(st)  BY DEF StreamInv
<1>3. W \in Nat /\ Len(sizes) \in Nat /\ T \in Nat  BY <1>1, LenProperties, ByteFacts DEF TypeInv, WriterInv
<1> DEFINE d == [k \in 0..W |-> st[T + 1 + k] - st[T + 1]]
<1>4. \A k \in 1..W : d[k] = d[k - 1] + sizes[wFrames[k]]
  <2> SUFFICES ASSUME NEW k \in 1..W PROVE d[k] = d[k - 1] + sizes[wFrames[k]]
    OBVIOUS
  <2>1. wFrames[k] = T + k  BY <1>1 DEF WriterInv
  <2>2. T + k \in 1..Len(sizes) /\ T + 1 \in 1..(Len(sizes) + 1)  BY <1>3
  <2>3. sizes[T + k] \in Nat  BY <1>1, <2>2, ByteFacts, SizeFacts
  <2>4. st[(T + k) + 1] = st[T + k] + sizes[T + k]  BY <1>2, <2>2 DEF Layout
  <2>5. T + 1 + k = (T + k) + 1 /\ T + 1 + (k - 1) = T + k /\ k \in 0..W /\ k - 1 \in 0..W  BY <1>3
  <2>6. d[k] = st[(T + k) + 1] - st[T + 1] /\ d[k - 1] = st[T + k] - st[T + 1]  BY <2>5
  <2>7. st[T + k] \in Nat /\ st[T + 1] \in Nat
    <3>1. T + k \in 1..(Len(sizes) + 1)  BY <1>3
    <3> QED
      BY <1>2, <2>2, <3>1
  <2> HIDE DEF d
  <2>8. (st[T + k] + sizes[T + k]) - st[T + 1] = (st[T + k] - st[T + 1]) + sizes[T + k]  BY <2>3, <2>7
  <2> QED
    BY <2>1, <2>4, <2>6, <2>8
<1>5. d[0] = 0
  <2>1. T + 1 \in 1..(Len(sizes) + 1) /\ T + 1 + 0 = T + 1  BY <1>3
  <2>2. st[T + 1] \in Nat  BY <1>2, <2>1
  <2> QED
    BY <1>3, <2>1, <2>2
<1>6. d = Sum(d)
  <2>1. d = [k \in 0..W |-> d[k]]  OBVIOUS
  <2> HIDE DEF d
  <2>2. \A k \in 0..W : d[k] = IF k = 0 THEN 0 ELSE d[k - 1] + sizes[wFrames[k]]  BY <1>3, <1>4, <1>5
  <2> QED
    BY <2>1, <2>2
<1>7. wBytes = d[W] - wOffset
  <2>1. T + 1 + W = Len(sizes) + 1 /\ T + 1 = Len(sizes) + 1 - Len(wFrames) /\ W \in 0..W  BY <1>3
  <2>2. d[W] = st[Len(sizes) + 1] - st[Len(sizes) + 1 - Len(wFrames)]  BY <2>1
  <2> QED
    BY <1>2, <2>2 DEF CountInv
<1> HIDE DEF d
<1> DEFINE g == CHOOSE f : f = Sum(f)
<1>8. g = Sum(g)  BY <1>6
<1> HIDE DEF g
<1>9. /\ \A k \in 0..W : g[k] = IF k = 0 THEN 0 ELSE g[k - 1] + sizes[wFrames[k]]
      /\ \A k \in 0..W : d[k] = IF k = 0 THEN 0 ELSE d[k - 1] + sizes[wFrames[k]]
  BY <1>6, <1>8
<1> DEFINE Differ == {k \in 0..W : g[k] # d[k]}
<1>10. Differ = {}
  <2> SUFFICES ASSUME Differ # {} PROVE FALSE
    OBVIOUS
  <2>1. Differ \subseteq Nat  BY <1>3
  <2>2. PICK k \in Differ : \A y \in Differ : ~(<<y, k>> \in OpToRel(<, Nat))
    BY <2>1, NatLessThanWellFounded, WFMin
  <2>3. \A y \in Differ : ~(y < k)  BY <2>1, <2>2 DEF OpToRel
  <2>4. k \in 0..W /\ g[k] # d[k]  BY <2>2
  <2>5. k # 0  BY <1>9, <2>4
  <2>6. k - 1 \in 0..W /\ k - 1 < k  BY <1>3, <2>4, <2>5
  <2>7. g[k - 1] = d[k - 1]  BY <2>3, <2>6
  <2>8. g[k] = g[k - 1] + sizes[wFrames[k]] /\ d[k] = d[k - 1] + sizes[wFrames[k]]  BY <1>9, <2>4, <2>5
  <2> QED
    BY <2>4, <2>7, <2>8
<1>11. g[W] = d[W]
  <2>1. W \in 0..W  BY <1>3
  <2> QED
    BY <1>10, <2>1
<1>12. wBytes = g[W] - wOffset  BY <1>7, <1>11
<1> QED
  BY <1>12 DEF BytesCounted, g

\* m_QueuedBytes is the size of the queued frames less what has been sent of the
\* first, after any sends, and after Stop has replaced the queue.
THEOREM BytesAreCounted == Spec => []BytesCounted
<1>1. StreamInv => BytesCounted  BY SumCounted
<1> QED
  BY <1>1, StreamInvHolds, PTL
=============================================================================
