------------------------------ MODULE MCReflowRun ------------------------------
(***************************************************************************)
(* Instances of ReflowRun for TLC: temperatures in degrees, one unit of    *)
(* time a control period.  The first ramp can be entered from below and    *)
(* from above its target; 13 and 4 make the division inexact.              *)
(***************************************************************************)
EXTENDS Sequences, ReflowRun

ZeroBased(s) == [i \in 0 .. Len(s) - 1 |-> s[i + 1]]

Curve(stages, abort, tol) ==
    [n_stages |-> Len(stages), stages |-> ZeroBased(stages),
     abort |-> abort, tol |-> tol, grace |-> 2]

Stage(kind, target, nominal) == [kind |-> kind, target |-> target, nominal |-> nominal]

MCProfiles == ZeroBased(<<
    Curve(<<Stage("RAMP", 40, 3), Stage("SOAK", 45, 2), Stage("RAMP", 62, 4),
            Stage("COOL", 27, 2)>>, 70, 3),
    Curve(<<Stage("RAMP", 45, 4), Stage("COOL", 27, 1)>>, 60, 1)>>)

ASSUME MCProfilesValid == \A i \in ProfileIdx : ValidProfile(Profiles[i], 70)
================================================================================
