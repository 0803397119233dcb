------------------------------- MODULE AiosFrame -------------------------------
(***************************************************************************)
(* aios_gpio_recv of 20260630/aios_gpio.c: the bytes the serial driver     *)
(* hands over, in chunks of any size, are collected in frame_buffer and    *)
(* cut into frames.  aios_gpio_write_timeout empties the buffer when it    *)
(* starts a transaction; the receive callback does not hold its mutex.     *)
(***************************************************************************)
EXTENDS AiosWire

CONSTANTS
  Streams,      \* the byte streams the expander may send
  Racing,       \* a transaction may start while the callback runs
  Resets,       \* bound: transactions that start while a stream arrives
  SizeModulus   \* stands for 2^64: frame_len is a size_t

ASSUME FrameAssumption ==
  /\ \A s \in Streams : s \in Seq(0..255)
  /\ Racing \in BOOLEAN
  /\ Resets \in Nat
  /\ SizeModulus \in Nat /\ SizeModulus > 2 * BufferSize

VARIABLES
  input,     \* the stream, as it was sent
  taken,     \* bytes of it received so far
  buffer,    \* frame_buffer up to frame_len
  frameLen,  \* priv->frame_len
  step,      \* where the callback is: "idle", "loop", "handle", "consume"
  current,   \* the frame found, at the head of frame_buffer
  handled,   \* history: the frames handed to aios_gpio_handle_frame
  dropped,   \* history: buffered bytes were thrown away
  resets     \* transactions started so far

frameVars == <<input, taken, buffer, frameLen, step, current, handled, dropped, resets>>

FrameTypeOK ==
  /\ input \in Streams
  /\ taken \in 0..Len(input)
  /\ frameLen \in 0..(SizeModulus - 1)
  /\ frameLen = Len(buffer)
  /\ step \in {"idle", "loop", "handle", "consume"}
  /\ Len(current) <= BufferSize
  /\ dropped \in BOOLEAN
  /\ resets \in 0..Resets

FrameInit ==
  /\ input \in Streams
  /\ taken = 0
  /\ buffer = << >>
  /\ frameLen = 0
  /\ step = "idle"
  /\ current = << >>
  /\ handled = << >>
  /\ dropped = FALSE
  /\ resets = 0

\* Mutant of Receive: the chunk is copied without regard to the space left.
ReceiveUnchecked(n) ==
  /\ step = "idle"
  /\ taken + n <= Len(input)
  /\ taken' = taken + n
  /\ buffer' = buffer \o SubSeq(input, taken + 1, taken + n)
  /\ frameLen' = frameLen + n
  /\ step' = "loop"
  /\ UNCHANGED <<input, current, handled, dropped, resets>>

\* The callback is given the next n bytes; when they do not fit, they and what
\* is buffered are dropped.
Receive(n) ==
  /\ step = "idle"
  /\ taken + n <= Len(input)
  /\ taken' = taken + n
  /\ IF frameLen + n <= BufferSize
       THEN /\ buffer' = buffer \o SubSeq(input, taken + 1, taken + n)
            /\ frameLen' = frameLen + n
            /\ step' = "loop"
            /\ UNCHANGED dropped
       ELSE /\ buffer' = << >>
            /\ frameLen' = 0
            /\ dropped' = TRUE
            /\ UNCHANGED step
  /\ UNCHANGED <<input, current, handled, resets>>

\* Less than a frame is buffered: the callback returns.
TooShort ==
  /\ step = "loop"
  /\ frameLen < 5
  /\ step' = "idle"
  /\ UNCHANGED <<input, taken, buffer, frameLen, current, handled, dropped, resets>>

\* No start byte: all that is buffered is garbage.
NoStart ==
  /\ step = "loop"
  /\ frameLen >= 5
  /\ \A i \in 1..Len(buffer) : buffer[i] # START
  /\ buffer' = << >>
  /\ frameLen' = 0
  /\ step' = "idle"
  /\ UNCHANGED <<input, taken, current, handled, dropped, resets>>

\* What is buffered from the first start byte on.
FromStart ==
  LET first == CHOOSE i \in 1..Len(buffer) :
                 buffer[i] = START /\ \A j \in 1..(i - 1) : buffer[j] # START
  IN SubSeq(buffer, first, Len(buffer))

\* Mutant of Examine: the frame's last two bytes are not looked at.
ExamineUnended ==
  /\ step = "loop"
  /\ frameLen >= 5
  /\ \E i \in 1..Len(buffer) : buffer[i] = START
  /\ LET b == FromStart IN
       \/ /\ \/ Len(b) < 5
             \/ /\ Len(b) >= 5
                /\ FrameLen(b, 1) <= BufferSize
                /\ Len(b) < FrameLen(b, 1)
          /\ buffer' = b /\ frameLen' = Len(b) /\ step' = "idle"
          /\ UNCHANGED <<current, dropped>>
       \/ /\ Len(b) >= 5
          /\ FrameLen(b, 1) > BufferSize
          /\ buffer' = << >> /\ frameLen' = 0 /\ step' = "idle"
          /\ dropped' = TRUE
          /\ UNCHANGED current
       \/ /\ Len(b) >= 5
          /\ FrameLen(b, 1) <= BufferSize
          /\ Len(b) >= FrameLen(b, 1)
          /\ buffer' = b /\ frameLen' = Len(b)
          /\ current' = SubSeq(b, 1, FrameLen(b, 1)) /\ step' = "handle"
          /\ UNCHANGED dropped
  /\ UNCHANGED <<input, taken, handled, resets>>

\* The start byte is found: the bytes before it go, and the header tells whether
\* the frame is too long for the buffer, incomplete, malformed or complete.
Examine ==
  /\ step = "loop"
  /\ frameLen >= 5
  /\ \E i \in 1..Len(buffer) : buffer[i] = START
  /\ LET b == FromStart IN
       \/ /\ Len(b) < 5
          /\ buffer' = b /\ frameLen' = Len(b) /\ step' = "idle"
          /\ UNCHANGED <<current, dropped>>
       \/ /\ Len(b) >= 5
          /\ FrameLen(b, 1) > BufferSize
          /\ buffer' = << >> /\ frameLen' = 0 /\ step' = "idle"
          /\ dropped' = TRUE
          /\ UNCHANGED current
       \/ /\ Len(b) >= 5
          /\ FrameLen(b, 1) <= BufferSize
          /\ Len(b) < FrameLen(b, 1)
          /\ buffer' = b /\ frameLen' = Len(b) /\ step' = "idle"
          /\ UNCHANGED <<current, dropped>>
       \/ /\ Len(b) >= 5
          /\ FrameLen(b, 1) <= BufferSize
          /\ Len(b) >= FrameLen(b, 1)
          /\ ~WellEnded(b, 1)
          /\ buffer' = Tail(b) /\ frameLen' = Len(b) - 1
          /\ UNCHANGED <<step, current, dropped>>
       \/ /\ Len(b) >= 5
          /\ FrameLen(b, 1) <= BufferSize
          /\ Len(b) >= FrameLen(b, 1)
          /\ WellEnded(b, 1)
          /\ buffer' = b /\ frameLen' = Len(b)
          /\ current' = SubSeq(b, 1, FrameLen(b, 1)) /\ step' = "handle"
          /\ UNCHANGED dropped
  /\ UNCHANGED <<input, taken, handled, resets>>

\* aios_gpio_handle_frame copies the frame and completes the transaction.
Handle ==
  /\ step = "handle"
  /\ handled' = Append(handled, current)
  /\ step' = "consume"
  /\ UNCHANGED <<input, taken, buffer, frameLen, current, dropped, resets>>

\* Mutant of Consume: the byte after the frame goes too.
ConsumeOver ==
  /\ step = "consume"
  /\ buffer' = SubSeq(buffer, Len(current) + 2, Len(buffer))
  /\ frameLen' = Len(buffer')
  /\ step' = "loop"
  /\ UNCHANGED <<input, taken, current, handled, dropped, resets>>

\* Mutant of Consume: frame_len is left as it was.
ConsumeUncounted ==
  /\ step = "consume"
  /\ buffer' = SubSeq(buffer, Len(current) + 1, Len(buffer))
  /\ step' = "loop"
  /\ UNCHANGED <<input, taken, frameLen, current, handled, dropped, resets>>

\* The frame is taken out of the buffer.  frame_len is read again here.
Consume ==
  /\ step = "consume"
  /\ buffer' = SubSeq(buffer, Len(current) + 1, Len(buffer))
  /\ frameLen' = (frameLen + SizeModulus - Len(current)) % SizeModulus
  /\ step' = "loop"
  /\ UNCHANGED <<input, taken, current, handled, dropped, resets>>

\* A transaction starts: priv->frame_len = 0, under a mutex the callback does
\* not take.
Reset ==
  /\ resets < Resets
  /\ Racing \/ step = "idle"
  /\ resets' = resets + 1
  /\ buffer' = << >>
  /\ frameLen' = 0
  /\ dropped' = TRUE
  /\ UNCHANGED <<input, taken, step, current, handled>>

FrameNext ==
  \/ \E n \in 1..Len(input) : Receive(n)
  \/ TooShort
  \/ NoStart
  \/ Examine
  \/ Handle
  \/ Consume
  \/ Reset

FrameSpec == FrameInit /\ [][FrameNext]_frameVars

-----------------------------------------------------------------------------

\* frame_len never exceeds frame_buffer, the bound the copy at 110 computes its
\* space from.
FrameLenBounded == frameLen <= BufferSize

\* However the serial driver cuts the stream into chunks, the frames handled are
\* those of the stream, none lost, doubled or out of order, as long as nothing
\* buffered had to be thrown away.
ChunksDoNotMatter ==
  ~dropped /\ step = "idle" => handled = FramesOf(SubSeq(input, 1, taken))

\* Whatever was thrown away, nothing but a well-formed frame is ever handled.
OnlyFramesHandled ==
  \A k \in 1..Len(handled) :
    /\ handled[k][1] = START
    /\ Len(handled[k]) = FrameLen(handled[k], 1)
    /\ WellEnded(handled[k], 1)
==============================================================================
