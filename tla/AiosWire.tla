------------------------------- MODULE AiosWire -------------------------------
(***************************************************************************)
(* The bytes of the AIOS protocol, and a reference definition of the       *)
(* frames a stream of bytes contains: [0x53][cmd][len][data][0x0D][0x0A].  *)
(* Only the bytes the receivers tell apart have values of their own.       *)
(***************************************************************************)
EXTENDS Naturals, Sequences

CONSTANT BufferSize   \* sizeof(frame_buffer), AIOS_RX_BUF_SIZE

ASSUME WireAssumption == BufferSize \in Nat /\ BufferSize >= 5

START == 83
CR == 13
LF == 10

\* The length of the frame that starts at position i, from its len byte.
FrameLen(s, i) == s[i + 2] + 5

\* The frame at i ends in CR LF.
WellEnded(s, i) ==
  /\ s[i + FrameLen(s, i) - 2] = CR
  /\ s[i + FrameLen(s, i) - 1] = LF

\* The frames of stream s from position i on, given those from later positions.  A
\* start byte whose frame does not end in CR LF is garbage, and so are the header
\* bytes of a frame that no buffer could hold.
FramesAt(s, from, i) ==
  IF i > Len(s) THEN << >>
  ELSE IF s[i] # START THEN from[i + 1]
  ELSE IF i + 2 > Len(s) THEN << >>
  ELSE IF FrameLen(s, i) > BufferSize THEN from[i + 3]
  ELSE IF i + FrameLen(s, i) - 1 > Len(s) THEN << >>
  ELSE IF ~WellEnded(s, i) THEN from[i + 1]
  ELSE << SubSeq(s, i, i + FrameLen(s, i) - 1) >> \o from[i + FrameLen(s, i)]

\* The frames of stream s, oldest first, up to the first one that is not complete yet.
FramesOf(s) ==
  LET from[i \in 1..(Len(s) + 1)] == FramesAt(s, from, i)
  IN from[1]
==============================================================================
