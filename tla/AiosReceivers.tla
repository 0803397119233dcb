----------------------------- MODULE AiosReceivers -----------------------------
(***************************************************************************)
(* The receivers of the two drivers, AiosFrame's and AiosFrameBytewise's,  *)
(* on the same streams and against the same reference definition.          *)
(***************************************************************************)
EXTENDS AiosFrame

VARIABLES
  driver,    \* the driver whose receiver gets the stream
  overflow   \* history of the January receiver

Bytewise == INSTANCE AiosFrameBytewise WITH packet <- buffer

juneVars == <<frameLen, step, current, resets>>

ReceiversInit ==
  /\ FrameInit
  /\ overflow = FALSE
  /\ driver \in {"june", "january"}

ReceiversNext ==
  \/ driver = "june" /\ FrameNext /\ UNCHANGED <<driver, overflow>>
  \/ driver = "january" /\ Bytewise!ByteNext /\ UNCHANGED <<driver, juneVars>>

ReceiversSpec == ReceiversInit /\ [][ReceiversNext]_<<frameVars, driver, overflow>>

ReceiversTypeOK ==
  CASE driver = "june" -> FrameTypeOK
    [] driver = "january" -> Bytewise!ByteTypeOK

\* However the serial driver cuts the stream into chunks, the June receiver handles
\* the frames of the stream, none lost, doubled or out of order, as long as nothing
\* buffered had to be thrown away (20260630/aios_gpio.c:96-171).
JuneChunksDoNotMatter == driver = "june" => ChunksDoNotMatter

\* The January receiver finds the reference's frames after every byte, unless it
\* threw away bytes that followed an oversized header (20260124/aios_gpio.c:159-286).
BytesMakeFrames == driver = "january" => Bytewise!BytesMakeFrames

\* Its overflow branch (20260124/aios_gpio.c:183-187) is dead code.
NeverOverflows == driver = "january" => Bytewise!NeverOverflows
==============================================================================
