-------------------------------- MODULE SlowPwm --------------------------------
(***************************************************************************)
(* The time-proportioning arithmetic of src/core/heater.c on a record      *)
(* [req, phase, on]: the requested duty in permille, the position in the   *)
(* window and the level the driver believes the gate has (output_on).      *)
(***************************************************************************)
EXTENDS Integers

CONSTANTS
    WindowMs,      \* CONFIG_REFLOW_HEATER_WINDOW_MS
    MinPulseMs     \* CONFIG_REFLOW_HEATER_MIN_PULSE_MS

ASSUME SlowPwmAssumption ==
    /\ WindowMs \in Nat \ {0}
    /\ MinPulseMs \in Nat

Permille == 0 .. 1000

Heaters == [req : Permille, phase : Nat, on : BOOLEAN]

HeaterReset == [req |-> 0, phase |-> 0, on |-> FALSE]

ClampDuty(d) == IF d > 1000 THEN 1000 ELSE d

\* The part of the window a request keeps the gate high.
OnMs(req) == (req * WindowMs) \div 1000

\* A pulse, or a gap, shorter than the relay can honour is not produced.
Snap(d) ==
    IF OnMs(d) < MinPulseMs THEN 0
    ELSE IF OnMs(1000 - d) < MinPulseMs THEN 1000
    ELSE d

SetDuty(h, d) == [h EXCEPT !.req = Snap(ClampDuty(d))]

\* reflow_heater_off(), and the stale branch of the tick: request and gate low.
HeaterOff(h) == [req |-> 0, phase |-> h.phase, on |-> FALSE]

\* Planted bug: the window has one instant too many.
NextPhase_LateWrap(phase, dt) ==
    IF phase + dt > WindowMs THEN (phase + dt) % WindowMs ELSE phase + dt

\* The position in the window dt later.
NextPhase(phase, dt) ==
    IF phase + dt >= WindowMs THEN (phase + dt) % WindowMs ELSE phase + dt

\* Planted bugs: a stale request is driven on; the window includes its last instant;
\* a step that does not fit the rest of the pulse is not begun.
HeaterTick_NeverStale(h, dt, stale) ==
    LET phase == NextPhase(h.phase, dt)
    IN  [req |-> h.req, phase |-> phase, on |-> phase < OnMs(h.req)]
HeaterTick_Inclusive(h, dt, stale) ==
    IF stale THEN HeaterOff(h)
    ELSE LET phase == NextPhase(h.phase, dt)
         IN  [req |-> h.req, phase |-> phase, on |-> phase <= OnMs(h.req)]
HeaterTick_WholePulses(h, dt, stale) ==
    IF stale THEN HeaterOff(h)
    ELSE LET phase == NextPhase(h.phase, dt)
         IN  [req |-> h.req, phase |-> phase, on |-> phase + dt <= OnMs(h.req)]

\* reflow_heater_tick(); "stale" is the outcome of its test of last_update.
HeaterTick(h, dt, stale) ==
    IF stale THEN HeaterOff(h)
    ELSE LET phase == NextPhase(h.phase, dt)
         IN  [req |-> h.req, phase |-> phase, on |-> phase < OnMs(h.req)]
================================================================================
