--------------------------- MODULE AiosFrameBytewise ---------------------------
(***************************************************************************)
(* aios_gpio_recv of 20260124/aios_gpio.c: the same protocol as AiosFrame, *)
(* cut into frames byte by byte.  After each byte the loop at 191 takes    *)
(* out of packet_buffer all it can.  The reset of buffer_pos by the next   *)
(* transaction (318) is left out: AiosFrame shows what it does.        *)
(***************************************************************************)
EXTENDS AiosWire

CONSTANT Streams   \* the byte streams the expander may send

VARIABLES
  input,     \* the stream, as it was sent
  taken,     \* bytes of it received so far
  packet,    \* packet_buffer up to buffer_pos
  handled,   \* history: the frames given to the cache and to the matching
  dropped,   \* history: more than an oversized header was thrown away
  overflow   \* history: the overflow branch was taken

byteVars == <<input, taken, packet, handled, dropped, overflow>>

ByteTypeOK ==
  /\ input \in Streams
  /\ taken \in 0..Len(input)
  /\ Len(packet) <= BufferSize
  /\ \A k \in 1..Len(handled) : Len(handled[k]) \in 5..BufferSize
  /\ dropped \in BOOLEAN
  /\ overflow \in BOOLEAN

ByteInit ==
  /\ input \in Streams
  /\ taken = 0
  /\ packet = << >>
  /\ handled = << >>
  /\ dropped = FALSE
  /\ overflow = FALSE

\* Mutant of LoopRuns: the announced length is not checked against the buffer.
LoopRunsUnchecked ==
  /\ Len(packet) >= 3
  /\ packet[1] = START => Len(packet) >= FrameLen(packet, 1)

\* The loop has something to do: at least a header is buffered, and it is not
\* that of a frame still to be completed.
LoopRuns ==
  /\ Len(packet) >= 3
  /\ packet[1] = START /\ FrameLen(packet, 1) <= BufferSize
       => Len(packet) >= FrameLen(packet, 1)

\* The next byte of the callback's data.
TakeByte ==
  /\ ~LoopRuns
  /\ taken < Len(input)
  /\ taken' = taken + 1
  /\ LET b == input[taken + 1] IN
       IF packet = << >> /\ b # START
         THEN UNCHANGED <<packet, overflow>>
         ELSE IF Len(packet) >= BufferSize
           THEN packet' = << b >> /\ overflow' = TRUE
           ELSE packet' = Append(packet, b) /\ UNCHANGED overflow
  /\ UNCHANGED <<input, handled, dropped>>

\* Mutant of Resync: all that is buffered goes.
ResyncDrops ==
  /\ LoopRuns
  /\ \/ packet[1] # START
     \/ /\ packet[1] = START
        /\ FrameLen(packet, 1) <= BufferSize
        /\ ~WellEnded(packet, 1)
  /\ packet' = << >>
  /\ UNCHANGED <<input, taken, handled, dropped, overflow>>

\* Garbage in front, or a frame that does not end in CR LF: one byte goes.
Resync ==
  /\ LoopRuns
  /\ \/ packet[1] # START
     \/ /\ packet[1] = START
        /\ FrameLen(packet, 1) <= BufferSize
        /\ ~WellEnded(packet, 1)
  /\ packet' = Tail(packet)
  /\ UNCHANGED <<input, taken, handled, dropped, overflow>>

\* A header that announces more than the buffer holds: start over, without the
\* bytes of a malformed frame that come after the header.
Oversize ==
  /\ LoopRuns
  /\ packet[1] = START
  /\ FrameLen(packet, 1) > BufferSize
  /\ packet' = << >>
  /\ dropped' = (dropped \/ Len(packet) > 3)
  /\ UNCHANGED <<input, taken, handled, overflow>>

\* A complete frame is copied to rx_buffer, matched, and moved out.
Complete ==
  /\ LoopRuns
  /\ packet[1] = START
  /\ FrameLen(packet, 1) <= BufferSize
  /\ WellEnded(packet, 1)
  /\ handled' = Append(handled, SubSeq(packet, 1, FrameLen(packet, 1)))
  /\ packet' = SubSeq(packet, FrameLen(packet, 1) + 1, Len(packet))
  /\ UNCHANGED <<input, taken, dropped, overflow>>

ByteNext ==
  \/ TakeByte
  \/ Resync
  \/ Oversize
  \/ Complete

ByteSpec == ByteInit /\ [][ByteNext]_byteVars

-----------------------------------------------------------------------------

\* Between two bytes, the frames found are those of the stream so far: an
\* oversized header costs its three bytes and a bad tail one byte, never a frame
\* that follows (191-283), unless the oversized header is itself inside a frame
\* with a bad tail: then what is buffered of the bytes after it goes too.
BytesMakeFrames ==
  ~dropped /\ ~LoopRuns => handled = FramesOf(SubSeq(input, 1, taken))

\* The loop never leaves the buffer full, so the overflow branch (183-187)
\* throws nothing away.
NeverOverflows == ~overflow
==============================================================================
