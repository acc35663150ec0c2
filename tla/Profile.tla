-------------------------------- MODULE Profile --------------------------------
(***************************************************************************)
(* The temperature curve and its runner, src/core/profile.c, as operators. *)
(* A profile is a record whose stages are numbered from 0, as in the       *)
(* source.  A run record holds what decides whether the element may be     *)
(* energised: the stage, the time spent in it and the latched result.  The *)
(* rest of struct reflow_run (setpoint, entry temperature, total time) is  *)
(* added by module ReflowRun.                                              *)
(***************************************************************************)
EXTENDS Integers, TempGuard

CONSTANTS
    Profiles,      \* builtin[]: a function from 0 .. n-1 to profiles
    CoolGraceMs    \* REFLOW_COOL_GRACE_MS

StageKinds == {"RAMP", "SOAK", "COOL"}

Stages == [target : Int, nominal : Nat, kind : StageKinds]

IsProfile(p) ==
    /\ p.n_stages \in Nat
    /\ p.stages \in [0 .. p.n_stages - 1 -> Stages]
    /\ p.abort \in Int
    /\ p.tol \in Int
    /\ p.grace \in Nat

ProfileIdx == DOMAIN Profiles

ASSUME ProfileAssumption ==
    /\ ProfileIdx \subseteq Nat
    /\ 0 \in ProfileIdx
    /\ \A i \in ProfileIdx : IsProfile(Profiles[i]) /\ Profiles[i].n_stages > 0
    /\ CoolGraceMs \in Nat

--------------------------------------------------------------------------------

StageIdx(p) == 0 .. p.n_stages - 1

\* reflow_profile_validate() answers OK: a profile is a set of limits, and these
\* are the relations between them.  Names and error codes are not modelled.
ValidProfile(p, absMax) ==
    /\ p.n_stages > 0
    /\ p.tol > 0
    /\ \A i \in StageIdx(p) : p.stages[i].nominal > 0 /\ p.stages[i].target < p.abort
    /\ p.abort <= absMax

\* stage_grace_ms(): cooling is passive and gets its own budget.
StageGrace(st, p) == IF st.kind = "COOL" THEN CoolGraceMs ELSE p.grace

RunResults == {"ACTIVE", "DONE", "TIMEOUT", "OVERTEMP"}

Runs == [stage : Nat, stage_ms : Nat, result : RunResults]

RunStart == [stage |-> 0, stage_ms |-> 0, result |-> "ACTIVE"]

\* The static initial value of ctx.run: ACTIVE is enumerator 0.
RunZero == RunStart

HeaterAllowed(run, p) ==
    /\ run.result = "ACTIVE"
    /\ run.stage < p.n_stages
    /\ p.stages[run.stage].kind # "COOL"

\* Planted bug: a stage ends as soon as it is warm, or cold, enough.
StageComplete_Early(st, p, stage_ms, temp) ==
    IF st.kind = "COOL" THEN temp <= st.target ELSE temp >= st.target - p.tol

\* stage_complete(): the time is up and the thermal goal is met.
StageComplete(st, p, stage_ms, temp) ==
    /\ stage_ms >= st.nominal
    /\ IF st.kind = "COOL" THEN temp <= st.target ELSE temp >= st.target - p.tol

\* Planted bug: a stage that does not reach its goal is waited for, its clock stopped.
AdvanceStage_Patient(run, p, dt, temp) ==
    LET st == p.stages[run.stage]
        ms == run.stage_ms + dt
        over == ms > st.nominal + StageGrace(st, p)
    IN  IF ~StageComplete(st, p, ms, temp)
        THEN [run EXCEPT !.stage_ms = IF over THEN @ ELSE ms]
        ELSE [stage |-> run.stage + 1, stage_ms |-> 0,
              result |-> IF run.stage + 1 >= p.n_stages THEN "DONE" ELSE "ACTIVE"]

\* Planted bug: the time a stage has left over is taken off the next one.
AdvanceStage_Carries(run, p, dt, temp) ==
    LET st == p.stages[run.stage]
        ms == run.stage_ms + dt
    IN  IF StageComplete(st, p, ms, temp)
        THEN IF run.stage + 1 >= p.n_stages
             THEN [stage |-> run.stage + 1, stage_ms |-> ms, result |-> "DONE"]
             ELSE [stage |-> run.stage + 1, stage_ms |-> st.nominal - ms, result |-> "ACTIVE"]
        ELSE IF ms > st.nominal + StageGrace(st, p)
             THEN [run EXCEPT !.stage_ms = ms, !.result = "TIMEOUT"]
             ELSE [run EXCEPT !.stage_ms = ms]

\* Completion is tested before the overrun: a late stage that has reached its
\* goal completes, whatever the time it took.
AdvanceStage(run, p, dt, temp) ==
    LET st == p.stages[run.stage]
        ms == run.stage_ms + dt
    IN  IF StageComplete(st, p, ms, temp)
        THEN IF run.stage + 1 >= p.n_stages
             THEN [stage |-> run.stage + 1, stage_ms |-> ms, result |-> "DONE"]
             ELSE [stage |-> run.stage + 1, stage_ms |-> 0, result |-> "ACTIVE"]
        ELSE IF ms > st.nominal + StageGrace(st, p)
             THEN [run EXCEPT !.stage_ms = ms, !.result = "TIMEOUT"]
             ELSE [run EXCEPT !.stage_ms = ms]

\* Planted bug: the abort level is looked at in the stage the tick ends in.
RunTick_AbortLast(run, p, dt, temp, raw) ==
    IF run.result # "ACTIVE" \/ run.stage >= p.n_stages THEN run
    ELSE LET next == AdvanceStage(run, p, dt, temp)
         IN  IF next.stage = run.stage /\ OvertempTripped(temp, raw, p.abort)
             THEN [run EXCEPT !.result = "OVERTEMP"] ELSE next

\* reflow_run_tick().  A result that is not ACTIVE is latched.
RunTick(run, p, dt, temp, raw) ==
    IF run.result # "ACTIVE" THEN run
    ELSE IF run.stage >= p.n_stages THEN [run EXCEPT !.result = "DONE"]
    ELSE IF OvertempTripped(temp, raw, p.abort) THEN [run EXCEPT !.result = "OVERTEMP"]
    ELSE AdvanceStage(run, p, dt, temp)
================================================================================
