----------------------------- MODULE TimerTable -----------------------------
(***************************************************************************)
(* The timers of a script: the native table of slots                       *)
(* (src/runner/penmusic.c) and the callbacks that wait in                  *)
(* src/plugin/js/lx-shim.js.  RunnerLoop calls these operators from        *)
(* its turn and from the code of scripts.                                  *)
(*                                                                         *)
(* A deadline is the time that is left until it, so that no clock is       *)
(* needed.                                                                 *)
(***************************************************************************)
EXTENDS Integers, Sequences

CONSTANTS
  Slots,     \* 512: sizeof g_timers
  Delays     \* delays that scripts ask for, in units of time

ASSUME TimerAssumption == Slots \in Nat \ {0} /\ Delays \subseteq Nat

VARIABLES
  g_timers,  \* the slots in use, in the order of their allocation
  callbacks, \* __timers: ids whose callback waits
  timerSeq   \* __timerSeq: the last id

timerVars == <<g_timers, callbacks, timerSeq>>

TimerInit == g_timers = <<>> /\ callbacks = {} /\ timerSeq = 0

\* Mutant: a full table is used again from its last slot.
TimerAddReuses(id, ms) ==
  IF Len(g_timers) >= Slots
  THEN g_timers' = [g_timers EXCEPT ![Slots] = [id |-> id, left |-> ms, active |-> TRUE]]
  ELSE g_timers' = Append(g_timers, [id |-> id, left |-> ms, active |-> TRUE])

\* A full table refuses without a word.  timers_fire compares with the time at
\* which its pass began: a timer that a callback adds within the same
\* millisecond may be due in the same pass.
TimerAdd(id, ms) ==
  IF Len(g_timers) >= Slots
  THEN UNCHANGED g_timers
  ELSE \E later \in 0..1 :
         g_timers' = Append(g_timers, [id |-> id, left |-> ms + later, active |-> TRUE])

SetTimeout(ms) ==
  /\ timerSeq' = timerSeq + 1
  /\ callbacks' = callbacks \cup {timerSeq + 1}
  /\ TimerAdd(timerSeq + 1, ms)

\* Mutant: the callback is forgotten and the slot stays armed.
ClearCallbackOnly(id) ==
  /\ callbacks' = callbacks \ {id}
  /\ UNCHANGED <<g_timers, timerSeq>>

\* clearTimeout and timer_clear.
ClearTimeout(id) ==
  /\ callbacks' = callbacks \ {id}
  /\ g_timers' = [i \in DOMAIN g_timers |->
                    IF g_timers[i].id = id THEN [g_timers[i] EXCEPT !.active = FALSE]
                    ELSE g_timers[i]]
  /\ UNCHANGED timerSeq

\* The slots from the cursor on that timers_fire would stop at.
DueFrom(cursor) ==
  {i \in DOMAIN g_timers : i >= cursor /\ g_timers[i].active /\ g_timers[i].left = 0}

\* Mutant: the slot is left armed while its callback runs.
FireLeavesArmed(i) ==
  /\ callbacks' = callbacks \ {g_timers[i].id}
  /\ UNCHANGED <<g_timers, timerSeq>>

\* One slot of timers_fire, and __lx_timer_fire up to the call.
Fire(i) ==
  /\ g_timers' = [g_timers EXCEPT ![i].active = FALSE]
  /\ callbacks' = callbacks \ {g_timers[i].id}
  /\ UNCHANGED timerSeq

Elapse(time) ==
  /\ g_timers' = [i \in DOMAIN g_timers |->
                    [g_timers[i] EXCEPT !.left = IF @ > time THEN @ - time ELSE 0]]
  /\ UNCHANGED <<callbacks, timerSeq>>

-----------------------------------------------------------------------------
TimerTypeOK ==
  /\ g_timers \in Seq([id : Nat, left : Nat, active : BOOLEAN])
  /\ callbacks \subseteq 1..timerSeq /\ timerSeq \in Nat

\* The first timers in the life of the runner, as many as there are slots, are
\* armed as long as their callback waits and no longer.  Of later ones it says
\* nothing: timer_add refused them (penmusic.c:606), because a slot never
\* becomes free, and the shim keeps their callbacks, which nothing will call.
TimersAgree ==
  /\ Len(g_timers) = IF timerSeq < Slots THEN timerSeq ELSE Slots
  /\ \A i \in DOMAIN g_timers :
       g_timers[i].id = i /\ (g_timers[i].active <=> i \in callbacks)
=============================================================================
