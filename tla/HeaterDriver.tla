------------------------------ MODULE HeaterDriver ------------------------------
(***************************************************************************)
(* The driver of the relay as its caller, the control thread, takes it to  *)
(* be: a record that each call changes in one step, the level of the gate  *)
(* in it, without a pin, a clock or a record that lags behind.  Whether a  *)
(* tick finds the request stale is beyond the caller's control.            *)
(* Module Heater implements it; module Controller calls it.                *)
(***************************************************************************)
EXTENDS SlowPwm

CONSTANT Elapsed   \* the times between two ticks

VARIABLES
    heater,        \* req, phase and on, see module SlowPwm: on is the gate
    halted

vars == <<heater, halted>>

Init == heater = HeaterReset /\ ~halted

\* reflow_heater_init()
Reset == heater' = HeaterReset

\* reflow_heater_set_duty()
Request == \E d \in Permille : heater' = SetDuty(heater, d)

\* reflow_heater_off()
Off == heater' = HeaterOff(heater)

\* reflow_heater_tick()
Tick == \E dt \in Elapsed, stale \in BOOLEAN : heater' = HeaterTick(heater, dt, stale)

Call ==
    /\ ~halted /\ ~halted'
    /\ Reset \/ Request \/ Off \/ Tick

\* reflow_heater_emergency_off(), after which nothing is called.
Halt == ~halted /\ halted' /\ Off

Next == Call \/ Halt

Spec == Init /\ [][Next]_vars
================================================================================
