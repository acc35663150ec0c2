------------------------------- MODULE OvenSafety -------------------------------
(***************************************************************************)
(* What the control core promises whoever stands before the oven, without  *)
(* threads, samples, windows or commands: in which modes the gate of the   *)
(* relay may be high, how the oven gets from one mode to another, and when *)
(* the profile may change.                                                 *)
(* Module Controller implements it.                                        *)
(***************************************************************************)

VARIABLES
    mode,          \* what the oven is doing; HALTED after a fatal error
    fault,         \* the latched fault
    gate,          \* whether the element may be energised
    profile        \* what a run is judged by

vars == <<mode, fault, gate, profile>>

Init == mode = "IDLE" /\ fault = "NONE" /\ gate = FALSE /\ profile = 0

\* A run begins with a cold element, never from a fault.
Begin ==
    /\ mode \in {"IDLE", "DONE"}
    /\ mode' = "RUNNING"
    /\ gate' = FALSE
    /\ UNCHANGED <<fault, profile>>

\* The gate moves within a run only.
Regulate ==
    /\ mode = "RUNNING"
    /\ gate' \in BOOLEAN
    /\ UNCHANGED <<mode, fault, profile>>

End ==
    /\ mode = "RUNNING"
    /\ mode' \in {"IDLE", "DONE"}
    /\ gate' = FALSE
    /\ UNCHANGED <<fault, profile>>

\* A fault cuts the gate as it is latched, and keeps the code it was latched with.
Trip ==
    /\ mode \in {"IDLE", "RUNNING", "DONE"}
    /\ mode' = "FAULT"
    /\ fault' \in {"SENSOR", "OVERTEMP", "TIMEOUT"}
    /\ gate' = FALSE
    /\ UNCHANGED profile

Clear ==
    /\ mode = "FAULT"
    /\ mode' = "IDLE"
    /\ fault' = "NONE"
    /\ UNCHANGED <<gate, profile>>

\* Another profile is for the next run: not in one.
Select ==
    /\ mode \in {"IDLE", "DONE", "FAULT"}
    /\ UNCHANGED <<mode, fault, gate>>

\* After a fatal error nothing moves again.
Halt ==
    /\ mode # "HALTED"
    /\ mode' = "HALTED"
    /\ gate' = FALSE
    /\ UNCHANGED <<fault, profile>>

Next == Begin \/ Regulate \/ End \/ Trip \/ Clear \/ Select \/ Halt

Spec == Init /\ [][Next]_vars
================================================================================
