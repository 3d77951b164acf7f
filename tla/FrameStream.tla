---------------------------- MODULE FrameStream ----------------------------
(***************************************************************************)
(* Frames on a byte stream (BridgeProtocol.cpp): FrameWriter queues        *)
(* encoded frames and remembers how much of the first one has been sent,   *)
(* TCP carries bytes in pieces of any size, FrameDecoder puts frames back  *)
(* together.  TcpLuaTransport::Stop may replace the queue by a Close frame *)
(* at any moment.                                                          *)
(*                                                                         *)
(* A byte is known by the frame it was encoded for and its place in it.    *)
(* Its value is not modelled, except that the first LengthSize bytes of a  *)
(* frame tell its size.                                                    *)
(***************************************************************************)
EXTENDS Naturals, Sequences, FiniteSetsExt

CONSTANTS
  LengthSize,     \* FrameLengthSize
  Sizes,          \* wire sizes of frames
  CloseSize,      \* wire size of Close, the smallest frame
  MaxFrames,      \* MaximumQueuedFrames
  MaxBytes,       \* MaximumQueuedFrameBytes
  Chunk,          \* ReceiveChunkSize
  WireBytes,      \* bound: bytes in the sockets' buffers
  Total           \* bound: frames queued in one behaviour

ASSUME StreamAssumption ==
  /\ LengthSize \in Nat \ {0} /\ MaxFrames \in Nat \ {0} /\ MaxBytes \in Nat /\ WireBytes \in Nat \ {0} /\ Total \in Nat
  /\ Chunk \in Nat \ {0} /\ \A s \in Sizes : Chunk + s <= MaxBytes
  /\ CloseSize \in Sizes
  /\ \A s \in Sizes : s \in Nat /\ CloseSize <= s
  /\ LengthSize < CloseSize

VARIABLES
  sizes,       \* history: the wire sizes of the frames queued so far, by frame number
  closeFrame,  \* history: the number of the Close frame that Stop queued, 0 before
  wFrames,     \* FrameWriter::m_Frames, as frame numbers
  wOffset,     \* FrameWriter::m_FrontOffset
  wBytes,      \* FrameWriter::m_QueuedBytes
  wire,        \* bytes sent and not received
  input,       \* bytes of the received chunk that Append has not looked at
  dBuffer,     \* FrameDecoder::m_Buffer
  dExpected,   \* FrameDecoder::m_ExpectedWireSize
  dFrames,     \* FrameDecoder::m_Frames, each as its bytes
  dBytes,      \* FrameDecoder::m_QueuedBytes
  dError,      \* FrameDecoder::m_Error is set
  delivered    \* history: the frames PollFrames has returned

writerVars == <<sizes, closeFrame, wFrames, wOffset, wBytes>>
decoderVars == <<dBuffer, dExpected, dFrames, dBytes, dError>>
vars == <<writerVars, wire, input, decoderVars, delivered>>

\* The bytes from..to of frame n.
Slice(n, from, to) == [i \in 1..(to - from + 1) |-> [frame |-> n, at |-> from + i - 1]]

Init ==
  /\ sizes = << >> /\ closeFrame = 0
  /\ wFrames = << >> /\ wOffset = 0 /\ wBytes = 0
  /\ wire = << >> /\ input = << >>
  /\ dBuffer = << >> /\ dExpected = 0 /\ dFrames = << >> /\ dBytes = 0 /\ dError = FALSE
  /\ delivered = << >>

-----------------------------------------------------------------------------
(* FrameWriter *)

\* Queue: an encoded frame of `size` bytes.
Queue(size) ==
  /\ closeFrame = 0 /\ Len(sizes) < Total
  /\ Len(wFrames) < MaxFrames /\ wBytes + size <= MaxBytes
  /\ sizes' = Append(sizes, size)
  /\ wFrames' = Append(wFrames, Len(sizes'))
  /\ wBytes' = wBytes + size
  /\ UNCHANGED <<closeFrame, wOffset, wire, input, decoderVars, delivered>>

\* Mutant: a partial send counts as a whole one.
ConsumeSentPartly(n) ==
  /\ wBytes' = wBytes - (sizes[Head(wFrames)] - wOffset)
  /\ wFrames' = Tail(wFrames) /\ wOffset' = 0

\* ConsumeSent(n)
ConsumeSent(n) ==
  /\ wBytes' = wBytes - n
  /\ IF wOffset + n = sizes[Head(wFrames)]
     THEN wFrames' = Tail(wFrames) /\ wOffset' = 0
     ELSE wOffset' = wOffset + n /\ UNCHANGED wFrames

\* FlushClient: the socket takes the first n of the pending bytes.
Send(n) ==
  /\ wFrames # << >>
  /\ n <= sizes[Head(wFrames)] - wOffset /\ Len(wire) + n <= WireBytes
  /\ wire' = wire \o Slice(Head(wFrames), wOffset + 1, wOffset + n)
  /\ ConsumeSent(n)
  /\ UNCHANGED <<sizes, closeFrame, input, decoderVars, delivered>>

\* Mutant: the offset into the first frame stays.
ResetWriterFrames(frames, bytes) == wFrames' = frames /\ wBytes' = bytes /\ UNCHANGED wOffset

\* FrameWriter::Reset
ResetWriter(frames, bytes) == wFrames' = frames /\ wOffset' = 0 /\ wBytes' = bytes

\* TcpLuaTransport::Stop after the handshake: the queue is emptied, so that
\* Close, which is queued next, does not have to wait.
Stop ==
  /\ closeFrame = 0
  /\ sizes' = Append(sizes, CloseSize)
  /\ closeFrame' = Len(sizes')
  /\ ResetWriter(<<closeFrame'>>, CloseSize)
  /\ UNCHANGED <<wire, input, decoderVars, delivered>>

-----------------------------------------------------------------------------
(* FrameDecoder.  ReceiveClient reads a chunk, calls Append and, when that  *)
(* succeeds, PollFrames.                                                    *)

Receive(n) ==
  /\ input = << >> /\ dFrames = << >> /\ ~dError
  /\ n <= Len(wire)
  /\ input' = SubSeq(wire, 1, n)
  /\ wire' = SubSeq(wire, n + 1, Len(wire))
  /\ UNCHANGED <<writerVars, decoderVars, delivered>>

Fail ==
  /\ dError' = TRUE /\ dBuffer' = << >> /\ dExpected' = 0
  /\ UNCHANGED <<dFrames, dBytes>>

\* The bytes are the beginning of one frame: their values make sense.
Aligned(bytes) == \A i \in DOMAIN bytes : bytes[i] = [frame |-> bytes[1].frame, at |-> i]

\* The two kinds of progress in the loop of Append take as much as is there.
Taken(wanted) == Min({wanted - Len(dBuffer), Len(input)})
Grown(count) == dBuffer \o SubSeq(input, 1, count)

\* The length field, and ReadExpectedSize.  Bytes that are no length may look
\* like any length, or like a wrong one.
AppendLength ==
  /\ input # << >> /\ ~dError /\ dExpected = 0
  /\ LET count == Taken(LengthSize)
         buffer == Grown(count)
     IN
     /\ input' = SubSeq(input, count + 1, Len(input))
     /\ \/ /\ Len(buffer) < LengthSize
           /\ dBuffer' = buffer
           /\ UNCHANGED <<dExpected, dFrames, dBytes, dError>>
        \/ /\ Len(buffer) = LengthSize
           /\ dExpected' \in (IF Aligned(buffer) THEN {sizes[buffer[1].frame]} ELSE Sizes)
           /\ dBuffer' = buffer
           /\ UNCHANGED <<dFrames, dBytes, dError>>
        \/ Len(buffer) = LengthSize /\ ~Aligned(buffer) /\ Fail
  /\ UNCHANGED <<writerVars, wire, delivered>>

\* The rest of the frame, and DecodeBufferedFrame.  A header made of other
\* bytes may be refused.
AppendBody ==
  /\ input # << >> /\ ~dError /\ dExpected # 0
  /\ LET count == Taken(dExpected)
         buffer == Grown(count)
         fits == Len(dFrames) < MaxFrames /\ dBytes + dExpected <= MaxBytes
     IN
     /\ input' = SubSeq(input, count + 1, Len(input))
     /\ \/ /\ Len(buffer) < dExpected
           /\ dBuffer' = buffer
           /\ UNCHANGED <<dExpected, dFrames, dBytes, dError>>
        \/ /\ Len(buffer) = dExpected /\ fits
           /\ dFrames' = Append(dFrames, buffer)
           /\ dBytes' = dBytes + dExpected
           /\ dBuffer' = << >> /\ dExpected' = 0
           /\ UNCHANGED dError
        \/ Len(buffer) = dExpected /\ (~fits \/ ~Aligned(buffer)) /\ Fail
  /\ UNCHANGED <<writerVars, wire, delivered>>

\* Mutant: the byte count is not reset.
PollFramesOnly ==
  /\ input = << >> /\ dFrames # << >> /\ ~dError
  /\ delivered' = delivered \o dFrames
  /\ dFrames' = << >>
  /\ UNCHANGED <<writerVars, wire, input, dBuffer, dExpected, dBytes, dError>>

\* Mutant: frames wait until the queue is full.
PollFramesWhenFull ==
  /\ input = << >> /\ Len(dFrames) = MaxFrames /\ ~dError
  /\ delivered' = delivered \o dFrames
  /\ dFrames' = << >> /\ dBytes' = 0
  /\ UNCHANGED <<writerVars, wire, input, dBuffer, dExpected, dError>>

PollFrames ==
  /\ input = << >> /\ dFrames # << >> /\ ~dError
  /\ delivered' = delivered \o dFrames
  /\ dFrames' = << >> /\ dBytes' = 0
  /\ UNCHANGED <<writerVars, wire, input, dBuffer, dExpected, dError>>

-----------------------------------------------------------------------------
Sending == \E n \in 1..Max(Sizes) : Send(n)
Receiving == \E n \in 1..Chunk : Receive(n)

Next ==
  \/ \E size \in Sizes : Queue(size)
  \/ Sending
  \/ Stop
  \/ Receiving
  \/ AppendLength
  \/ AppendBody
  \/ PollFrames

Spec == Init /\ [][Next]_vars

\* The worker polls the transport every few milliseconds and mGBA reads while
\* the emulator runs, so neither end stops moving bytes.
Fairness == WF_vars(Sending) /\ WF_vars(Receiving) /\ WF_vars(AppendLength) /\ WF_vars(AppendBody) /\ WF_vars(PollFrames)

FairSpec == Spec /\ Fairness

-----------------------------------------------------------------------------
(* Properties *)

Whole(n) == Slice(n, 1, sizes[n])
HasClose(bytes) == \E i \in DOMAIN bytes : bytes[i].frame = closeFrame

\* However the stream is cut, the frames that reach the other end are the
\* queued ones, whole, in order and without a gap, up to the first frame that
\* has a byte of Close in it.
FramesArriveWhole ==
  \A n \in DOMAIN delivered : (\A k \in 1..n : ~HasClose(delivered[k])) => delivered[n] = Whole(n)

\* m_QueuedBytes is what it is called, so that it never wraps below zero and
\* the 4 MiB limit is the real one.
BytesCounted ==
  LET size[k \in 0..Len(wFrames)] == IF k = 0 THEN 0 ELSE size[k - 1] + sizes[wFrames[k]]
  IN  wBytes = size[Len(wFrames)] - wOffset

\* The decoder gives up on the bytes of an undisturbed writer only when more
\* frames were unread than it can hold.  (A session has at most MaxFrames
\* requests outstanding, so the answers alone never get there.)
FailsOnlyWhenFull ==
  [][dError' /\ ~dError /\ closeFrame = 0 => Len(sizes) - Len(delivered) > MaxFrames]_vars

\* Every queued frame is delivered some day, unless Stop intervenes or the
\* decoder has failed.
EventuallyDelivered ==
  \A n \in 1..Total : n <= Len(sizes) ~> (n <= Len(delivered) \/ closeFrame # 0 \/ dError)

\* Close, which Stop puts in front of everything, is a frame the other end
\* gets to see once all that was sent has been read.
CloseIsDecoded ==
  (closeFrame # 0 /\ wFrames = << >> /\ wire = << >> /\ input = << >> /\ dFrames = << >>)
    => \E n \in DOMAIN delivered : delivered[n] = Whole(closeFrame)
=============================================================================
