------------------------------ MODULE MCController ------------------------------
(***************************************************************************)
(* Instances of Controller for TLC.  One unit of time is one control       *)
(* period; temperatures are in tens of degrees, so that a step of more     *)
(* than MaxStep = 4 is a suspected spike.                                  *)
(***************************************************************************)
EXTENDS Controller

ZeroBased(s) == [i \in 0 .. Len(s) - 1 |-> s[i + 1]]

Curve(stages, abort) ==
    [n_stages |-> Len(stages), stages |-> ZeroBased(stages),
     abort |-> abort, tol |-> 1, grace |-> 1]

Stage(kind, target, nominal) == [kind |-> kind, target |-> target, nominal |-> nominal]

Reflow == Curve(<<Stage("RAMP", 6, 2), Stage("COOL", 3, 1)>>, 9)
Bake == Curve(<<Stage("SOAK", 3, 1), Stage("SOAK", 6, 1), Stage("COOL", 3, 1)>>, 12)

MCProfiles == ZeroBased(<<Reflow, Bake>>)

\* For the liveness run: one heating and one cooling stage.
MCShortProfiles == ZeroBased(<<Curve(<<Stage("SOAK", 6, 1), Stage("COOL", 3, 1)>>, 9)>>)

ASSUME MCProfilesValid == \A i \in ProfileIdx : ValidProfile(Profiles[i], AbsMax)
================================================================================
