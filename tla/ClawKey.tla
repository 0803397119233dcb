-------------------------------- MODULE ClawKey --------------------------------
(***************************************************************************)
(* The key of the py32f002b, py32f002bxx_clawstar.c: an edge interrupt and *)
(* a task polled from the main loop, which switches the system's power on  *)
(* a long press and the backlight on a short one.                          *)
(*                                                                         *)
(* HAL_GetTick wraps.  The edge interrupt may come anywhere in the task.   *)
(***************************************************************************)
EXTENDS Integers

CONSTANTS
  DEBOUNCE_TIME_MS, LONG_PRESS_TIME_MS,
  TickWrap,    \* 2^32
  FirstTick,   \* the tick at first
  MaxTicks,    \* bound: ticks, fewer than TickWrap
  MaxEdges     \* bound: edges of the key

ASSUME KeyAssumption ==
  /\ DEBOUNCE_TIME_MS \in Nat /\ LONG_PRESS_TIME_MS \in Nat
  /\ TickWrap \in Nat \ {0} /\ FirstTick \in Nat
  /\ MaxTicks \in Nat /\ MaxEdges \in Nat

VARIABLES
  key,      \* key_state, key_down_time, debounce_time, sys_pwr_state, bl_state, key_irq_flag
  pressed,  \* the level of the pin is KEY_PRESSED_LEVEL
  task,     \* key_level and now as the task read them, or none
  tick,     \* ticks passed
  edges,    \* edges so far
  hold      \* history: since when what the task acts on was pressed, and whether
            \* it has switched the power since

keyVars == <<key, pressed, task, tick, edges, hold>>

NotHeld == -1
HAL_GetTick == (FirstTick + tick) % TickWrap

\* Mutant: the difference is not cut to 32 bits.
Since_wide(now, then) == IF now < then THEN 2 * TickWrap ELSE now - then

Since(now, then) == (now - then) % TickWrap

KeyInit ==
  /\ key = [state |-> "IDLE", down |-> 0, debounce |-> 0, pwr |-> TRUE, bl |-> FALSE,
            irq |-> FALSE]
  /\ pressed \in BOOLEAN
  /\ task = [at |-> "out"]
  /\ tick = 0
  /\ edges = 0
  /\ hold = [since |-> NotHeld, switched |-> FALSE]

\* The task does not take longer than a tick, interrupted or not.
Tick ==
  /\ tick < MaxTicks
  /\ task.at = "in" => task.begun = tick
  /\ tick' = tick + 1
  /\ UNCHANGED <<key, pressed, task, edges, hold>>

\* HAL_GPIO_EXTI_Callback, on either edge.
Edge ==
  /\ edges < MaxEdges
  /\ edges' = edges + 1
  /\ pressed' = ~pressed
  /\ key' = [key EXCEPT !.irq = TRUE]
  /\ UNCHANGED <<task, tick, hold>>

KeyTaskReads ==
  /\ task.at = "out"
  /\ task' = [at |-> "in", now |-> HAL_GetTick, level |-> pressed, begun |-> tick]
  /\ UNCHANGED <<key, pressed, tick, edges, hold>>

\* The switch of ClawStar_Key_Task.  Idle acts on the level read before the flag, the
\* other states read the pin again.
NextState(now, level) ==
  CASE key.state = "IDLE" ->
         IF ~key.irq THEN key
         ELSE IF level THEN [key EXCEPT !.irq = FALSE, !.debounce = now, !.state = "DEBOUNCE"]
         ELSE [key EXCEPT !.irq = FALSE]
    [] key.state = "DEBOUNCE" ->
         IF Since(now, key.debounce) < DEBOUNCE_TIME_MS THEN key
         ELSE IF pressed THEN [key EXCEPT !.down = now, !.state = "PRESSED"]
         ELSE [key EXCEPT !.state = "IDLE"]
    [] key.state = "PRESSED" ->
         IF ~pressed THEN [key EXCEPT !.bl = ~key.bl, !.state = "IDLE"]
         ELSE IF Since(now, key.down) >= LONG_PRESS_TIME_MS
         THEN [key EXCEPT !.pwr = ~key.pwr, !.state = "LONG_DONE"]
         ELSE key
    [] key.state = "LONG_DONE" -> IF pressed THEN key ELSE [key EXCEPT !.state = "IDLE"]

KeyTaskActs ==
  LET next == NextState(task.now, task.level)
      seen == IF key.state = "IDLE" THEN task.level ELSE pressed
  IN  /\ task.at = "in"
      /\ key' = next
      /\ task' = [at |-> "out"]
      /\ hold' = IF ~seen THEN [since |-> NotHeld, switched |-> FALSE]
                 ELSE [since |-> IF hold.since = NotHeld THEN task.begun ELSE hold.since,
                       switched |-> hold.switched \/ next.pwr # key.pwr]
      /\ UNCHANGED <<pressed, tick, edges>>

KeyNext == Tick \/ Edge \/ KeyTaskReads \/ KeyTaskActs

KeySpec == KeyInit /\ [][KeyNext]_keyVars

------------------------------------------------------------------------------
(* Properties *)

KeyTypeOK ==
  /\ key.state \in {"IDLE", "DEBOUNCE", "PRESSED", "LONG_DONE"}
  /\ task.at \in {"out", "in"}
  /\ tick \in 0..MaxTicks
  /\ edges \in 0..MaxEdges

\* A press does one thing.  The power is switched only after the task has seen the key
\* pressed, and never released, for LONG_PRESS_TIME_MS, and once in that time, over a
\* wrap of the tick too; and then letting the key go does not switch the backlight.
OneThingPerPress ==
  [][/\ key'.pwr # key.pwr => /\ hold.since # NotHeld /\ ~hold.switched
                              /\ task.begun - hold.since >= LONG_PRESS_TIME_MS
     /\ key'.bl # key.bl => ~hold.switched]_keyVars
==============================================================================
