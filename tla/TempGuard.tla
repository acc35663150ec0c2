------------------------------- MODULE TempGuard -------------------------------
(***************************************************************************)
(* The measurement path of the oven, src/core/tempguard.c and the window   *)
(* check of src/core/temp.c, as operators on values.  Every raw sample     *)
(* passes a plausibility window and then a spike filter with memory; the   *)
(* over-temperature predicate looks at the sample on both sides of it.     *)
(***************************************************************************)
EXTENDS Integers

CONSTANTS
    MaxStep,       \* REFLOW_SPIKE_MAX_STEP_MC: a larger jump is suspected noise
    MaxRejects,    \* REFLOW_SPIKE_MAX_REJECTS: which consecutive jump is believed
    TempMin,       \* TEMP_MIN_MC and TEMP_MAX_MC: the plausibility window
    TempMax

ASSUME TempGuardAssumption ==
    /\ MaxStep \in Nat
    /\ MaxRejects \in Nat \ {0}
    /\ TempMin \in Int
    /\ TempMax \in Int

\* struct reflow_spike: the last believed sample, the jumps suppressed since it.
Spikes == [last : Int, rejects : 0 .. MaxRejects - 1, have_last : BOOLEAN]

SpikeReset == [last |-> 0, rejects |-> 0, have_last |-> FALSE]

Jumped(s, raw) == raw - s.last > MaxStep \/ s.last - raw > MaxStep

Believe(raw) == [last |-> raw, rejects |-> 0, have_last |-> TRUE]

\* Planted bug: one jump too many is suppressed.
Rejects_OneMore(s, raw) ==
    /\ s.have_last
    /\ Jumped(s, raw)
    /\ s.rejects + 1 <= MaxRejects

\* A jump is suppressed unless it is the MaxRejects'th in a row.
Rejects(s, raw) ==
    /\ s.have_last
    /\ Jumped(s, raw)
    /\ s.rejects + 1 < MaxRejects

\* Planted bug: suppressed samples are not counted.
SpikeFilter_Uncounted(s, raw) ==
    IF Rejects(s, raw)
        THEN [spike |-> s, out |-> s.last]
        ELSE [spike |-> Believe(raw), out |-> raw]

\* reflow_spike_filter(): the filter's next state and the reading it reports.
SpikeFilter(s, raw) ==
    IF Rejects(s, raw)
        THEN [spike |-> [s EXCEPT !.rejects = @ + 1], out |-> s.last]
        ELSE [spike |-> Believe(raw), out |-> raw]

Plausible(mc) == TempMin <= mc /\ mc <= TempMax

\* Planted bug: the cut-out reads the sample the control loop reads.
OvertempTripped_FilteredOnly(filtered, raw, limit) == filtered >= limit

\* Either reading is enough: the filter cannot hide a rise from the cut-out.
OvertempTripped(filtered, raw, limit) == raw >= limit \/ filtered >= limit
================================================================================
