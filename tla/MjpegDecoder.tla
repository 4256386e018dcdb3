---------------------------- MODULE MjpegDecoder ----------------------------
(***************************************************************************)
(* The MJPEG decoder of one iOS device: the bytes that WDA's MJPEG server  *)
(* sends arrive in chunks cut anywhere, are collected in `data', and each  *)
(* chunk makes the decoder look for one picture.  A picture p is the bytes *)
(* of Jpeg(p), behind one byte for the boundary and the headers of a part. *)
(***************************************************************************)
EXTENDS Integers, Sequences, FiniteSets, FiniteSetsExt

CONSTANTS
    Pictures,       \* what the screen may show; none is a byte of the rest
    MaxFrames,      \* bound: pictures sent
    MaxChunk,       \* the bytes of the longest chunk
    MAX_BUFFER_SIZE,
    FRAME_SLICE     \* the bytes of the longest event: 20 KB in the code

ASSUME DecoderAssumption ==
    /\ MaxFrames \in Nat /\ MaxChunk \in Nat \ {0} /\ MAX_BUFFER_SIZE \in Nat
    /\ FRAME_SLICE \in Nat \ {0}
    /\ Pictures \cap {"--", "ff", "d8", "d9"} = {}

SOI == <<"ff", "d8">>
EOI == <<"ff", "d9">>
EOF == -1
Jpeg(p) == SOI \o <<p>> \o EOI
Part(p) == <<"--">> \o Jpeg(p)
PartLength == 6

VARIABLES
    screen,         \* the pictures that WDA will send
    sent,           \* how many of their bytes have arrived
    mjpegRequest,   \* the request to WDA's MJPEG server
    data, imageStart, imageEnd,
    lastFrame,      \* lastFrameBuffer, <<>> before the first picture
    frames,         \* the bytes that each "frame" event carried
    seq,            \* pictures found
    burst           \* history: pictures that ended in a chunk behind another one

decoderVars == <<screen, sent, mjpegRequest, data, imageStart, imageEnd, lastFrame, frames, seq, burst>>

\* All that WDA will send: the parts, one behind the other.
Bytes ==
    [k \in 1 .. PartLength * Len(screen) |->
        Part(screen[(k - 1) \div PartLength + 1])[((k - 1) % PartLength) + 1]]

DecoderInit ==
    /\ screen = <<>>
    /\ sent = 0
    /\ mjpegRequest = "none"
    /\ data = <<>> /\ imageStart = EOF /\ imageEnd = EOF
    /\ lastFrame = <<>> /\ frames = <<>> /\ seq = 0
    /\ burst = 0

\* Where a marker stands; offsets count from 0, as in the code.
Marks(bytes, marker) ==
    {i \in 0 .. Len(bytes) - Len(marker) : SubSeq(bytes, i + 1, i + Len(marker)) = marker}

IndexOf(bytes, marker, from) ==
    LET found == {i \in Marks(bytes, marker) : i >= from}
    IN  IF found = {} THEN EOF ELSE Min(found)

\* How many pictures are complete in some bytes.
Complete(bytes) == Cardinality(Marks(bytes, EOI))

-----------------------------------------------------------------------------

Unread == UNCHANGED <<data, imageStart, imageEnd, lastFrame, frames, seq, burst>>

Start ==
    /\ mjpegRequest = "none"
    /\ mjpegRequest' = "sent"
    /\ screen' \in [1 .. MaxFrames -> Pictures]
    /\ Unread /\ UNCHANGED sent

\* The answer comes, and is an MJPEG stream or not.
Answer ==
    /\ mjpegRequest = "sent"
    /\ mjpegRequest' \in {"open", "aborted"}
    /\ Unread /\ UNCHANGED <<screen, sent>>

\* stop(), ten seconds without an answer, or an error of the connection.
Abort ==
    /\ mjpegRequest \in {"sent", "open"}
    /\ mjpegRequest' = "aborted"
    /\ Unread /\ UNCHANGED <<screen, sent>>

\* Faulty variant: a last slice that is short is not sent.
WholeSlicesOnly(frame) ==
    [k \in 1 .. Len(frame) \div FRAME_SLICE |->
        SubSeq(frame, (k - 1) * FRAME_SLICE + 1, k * FRAME_SLICE)]

\* The slices of a picture, one for each event; the last one may be short.
Slices(frame) ==
    [k \in 1 .. (Len(frame) + FRAME_SLICE - 1) \div FRAME_SLICE |->
        SubSeq(frame, (k - 1) * FRAME_SLICE + 1, Min({k * FRAME_SLICE, Len(frame)}))]

\* A picture is sent slice by slice; one equal to the one before it is not sent.
OnFrameReady(frame) ==
    /\ frames' = IF frame = lastFrame THEN frames ELSE frames \o Slices(frame)
    /\ lastFrame' = frame
    /\ seq' = seq + 1

\* Faulty variant: the end is looked for from the next chunk on.
FindLate(bytes) ==
    LET end == IF imageStart # EOF /\ imageEnd = EOF
               THEN IndexOf(bytes, EOI, imageStart + Len(SOI)) ELSE imageEnd
        start == IF imageStart = EOF THEN IndexOf(bytes, SOI, 0) ELSE imageStart
    IN  IF start >= 0 /\ end >= start
        THEN /\ OnFrameReady(SubSeq(bytes, start + 1, end + Len(EOI)))
             /\ data' = SubSeq(bytes, end + Len(EOI) + 1, Len(bytes))
             /\ imageStart' = EOF /\ imageEnd' = EOF
        ELSE /\ data' = bytes
             /\ imageStart' = start /\ imageEnd' = end
             /\ UNCHANGED <<lastFrame, frames, seq>>

\* Faulty variant: what came behind the picture is dropped.
FindDropsRest(bytes) ==
    LET start == IF imageStart = EOF THEN IndexOf(bytes, SOI, 0) ELSE imageStart
        end == IF start >= 0 /\ imageEnd = EOF
               THEN IndexOf(bytes, EOI, start + Len(SOI)) ELSE imageEnd
    IN  IF start >= 0 /\ end >= start
        THEN /\ OnFrameReady(SubSeq(bytes, start + 1, end + Len(EOI)))
             /\ data' = <<>>
             /\ imageStart' = EOF /\ imageEnd' = EOF
        ELSE /\ data' = bytes
             /\ imageStart' = start /\ imageEnd' = end
             /\ UNCHANGED <<lastFrame, frames, seq>>

\* One picture at most is taken from the data.
Find(bytes) ==
    LET start == IF imageStart = EOF THEN IndexOf(bytes, SOI, 0) ELSE imageStart
        end == IF start >= 0 /\ imageEnd = EOF
               THEN IndexOf(bytes, EOI, start + Len(SOI)) ELSE imageEnd
    IN  IF start >= 0 /\ end >= start
        THEN /\ OnFrameReady(SubSeq(bytes, start + 1, end + Len(EOI)))
             /\ data' = SubSeq(bytes, end + Len(EOI) + 1, Len(bytes))
             /\ imageStart' = EOF /\ imageEnd' = EOF
        ELSE /\ data' = bytes
             /\ imageStart' = start /\ imageEnd' = end
             /\ UNCHANGED <<lastFrame, frames, seq>>

OnDataReceived ==
    /\ mjpegRequest = "open"
    /\ \E n \in 1 .. MaxChunk :
        /\ sent + n <= Len(Bytes)
        /\ sent' = sent + n
        /\ LET bytes == data \o SubSeq(Bytes, sent + 1, sent + n)
               ends == Complete(SubSeq(Bytes, 1, sent + n)) - Complete(SubSeq(Bytes, 1, sent))
           IN  IF Len(bytes) >= MAX_BUFFER_SIZE
               THEN /\ mjpegRequest' = "aborted"
                    /\ data' = bytes
                    /\ UNCHANGED <<imageStart, imageEnd, lastFrame, frames, seq, burst>>
               ELSE /\ Find(bytes)
                    /\ burst' = IF ends > 1 THEN burst + ends - 1 ELSE burst
                    /\ UNCHANGED mjpegRequest
    /\ UNCHANGED screen

DecoderNext == Start \/ Answer \/ Abort \/ OnDataReceived

DecoderSpec == DecoderInit /\ [][DecoderNext]_decoderVars

-----------------------------------------------------------------------------
(* Properties.                                                             *)

\* How many of the first i pictures differ from the one before.
Changes(i) == Cardinality({j \in 1 .. i : j = 1 \/ screen[j] # screen[j - 1]})

\* A picture has five bytes here, so all pictures are cut into as many events.
EventsPerPicture == (PartLength + FRAME_SLICE - 2) \div FRAME_SLICE

\* An event carries what stands between two cuts of a picture.
IsSlice(event, frame, k) ==
    LET before == (k - 1) * FRAME_SLICE
    IN  /\ Len(event) = Min({FRAME_SLICE, Len(frame) - before})
        /\ \A b \in 1 .. Len(event) : event[b] = frame[before + b]

\* Wherever the chunks are cut, inside a marker too, the events carry the bytes
\* of the first pictures that were sent, whole and in their order, without those
\* that repeat the one before: each picture is cut into FRAME_SLICE bytes an
\* event, the last one shorter, and no slice is lost, repeated or out of place
\* (mjpeg-decoder.ts:110-139,161-167).  No event says where a picture ends.
FramesAreWhole ==
    /\ Len(frames) = EventsPerPicture * Changes(seq)
    /\ \A i \in 1 .. seq, k \in 1 .. EventsPerPicture :
        IsSlice(frames[EventsPerPicture * (Changes(i) - 1) + k], Jpeg(screen[i]), k)

\* The decoder lags behind WDA by what came in one chunk with another picture:
\* there is no other reason for a complete picture to wait in the data, and it
\* waits for good as long as each chunk completes another one
\* (mjpeg-decoder.ts:124-138).
LagNeedsBurst == mjpegRequest = "open" => Complete(data) <= burst
=============================================================================
