---------------------------- MODULE MCAiosReceivers ----------------------------
(* Streams of up to three pieces for the two receivers.                     *)
EXTENDS AiosReceivers

\* A frame without data, one with a data byte that may look like another byte,
\* garbage, a header cut off, a frame cut off, a header whose frame swallows the next
\* two pieces, the header of a frame one byte too long for a buffer of 12 bytes, and a
\* frame that just fits it.
Pieces ==
  { << START, 69, 0, CR, LF >>,
    << START, 82, 1, START, CR, LF >>,
    << START, 68, 2, 1, CR, CR, LF >>,
    << LF >>,
    << CR, LF, 7, 7, 7 >>,
    << START >>,
    << START, 82, 1, 0 >>,
    << START, 67, 5 >>,
    << START, 67, 8 >>,
    << START, 79, 7, 0, 1, 2, 3, 4, 5, 6, CR, LF >> }

SomeStreams == {a \o b \o c : a \in Pieces, b \in Pieces, c \in Pieces}
FewStreams == {a \o b : a \in Pieces, b \in Pieces}
==============================================================================
