------------------------------- MODULE ReflowRun -------------------------------
(***************************************************************************)
(* The profile runner of src/core/profile.c with everything struct         *)
(* reflow_run holds: the stage machine of module Profile, and with it the  *)
(* setpoint the PID follows, the temperature a stage was entered at and    *)
(* the total time that is compared with the profile's budget.  The caller  *)
(* starts a run at any time (a stopped run stays as it was) and ticks it   *)
(* with any step and any pair of readings.                                 *)
(***************************************************************************)
EXTENDS Integers, FiniteSetsExt, Profile

CONSTANTS
    Temps,         \* the readings, filtered and raw
    Steps          \* the possible dt_ms of a tick

ASSUME ReflowRunAssumption ==
    /\ Temps \subseteq Int
    /\ Steps \subseteq Nat \ {0}
    /\ \E longest \in Steps : \A dt \in Steps : dt <= longest    \* dt_ms is a uint32_t

VARIABLES
    prof,          \* the index of the profile of the run
    run,           \* stage, stage_ms and result, see module Profile
    total_ms,
    stage_start,   \* the temperature the stage was entered at
    setpoint

vars == <<prof, run, total_ms, stage_start, setpoint>>

P == Profiles[prof]

TypeOK ==
    /\ prof \in ProfileIdx
    /\ run \in Runs
    /\ total_ms \in Nat
    /\ stage_start \in Int /\ setpoint \in Int

\* The loop over the stages: what the first n of them have together.
TotalOf(times, n) ==
    LET total[i \in Nat] == IF i = 0 THEN 0 ELSE total[i - 1] + times[i - 1] IN total[n]

Nominals(p) == [i \in StageIdx(p) |-> p.stages[i].nominal]

Graces(p) == [i \in StageIdx(p) |-> StageGrace(p.stages[i], p)]

NominalMs(p) == TotalOf(Nominals(p), p.n_stages)

MaxMs(p) == NominalMs(p) + TotalOf(Graces(p), p.n_stages)

\* Division as C does it, towards zero.
TruncDiv(a, b) == IF a >= 0 THEN a \div b ELSE -((-a) \div b)

\* Planted bug: a late stage extrapolates.
StageSetpoint_Unclamped(st, stage_ms, start) ==
    IF st.kind # "RAMP" \/ st.nominal = 0 THEN st.target
    ELSE start + TruncDiv((st.target - start) * stage_ms, st.nominal)

\* stage_setpoint(): a ramp is linear from the entry temperature, then holds.
StageSetpoint(st, stage_ms, start) ==
    IF st.kind # "RAMP" \/ st.nominal = 0 THEN st.target
    ELSE LET elapsed == IF stage_ms > st.nominal THEN st.nominal ELSE stage_ms
         IN  start + TruncDiv((st.target - start) * elapsed, st.nominal)

Init ==
    /\ prof \in ProfileIdx
    /\ run = RunZero
    /\ total_ms = 0
    /\ \E temp \in Temps :
           stage_start = temp /\ setpoint = StageSetpoint(P.stages[0], 0, temp)

\* reflow_run_start()
Start(temp) ==
    /\ prof' \in ProfileIdx
    /\ run' = RunStart
    /\ total_ms' = 0
    /\ stage_start' = temp
    /\ setpoint' = IF P'.n_stages > 0 THEN StageSetpoint(P'.stages[0], 0, temp) ELSE temp

\* What a tick that was not an abort does to the setpoint.
Resume(temp) ==
    CASE run'.result = "DONE" -> setpoint' = temp /\ UNCHANGED stage_start
      [] run'.result = "TIMEOUT" -> UNCHANGED <<stage_start, setpoint>>
      [] run'.result = "ACTIVE" ->
             /\ stage_start' = IF run'.stage # run.stage THEN temp ELSE stage_start
             /\ setpoint' = StageSetpoint(P.stages[run'.stage], run'.stage_ms, stage_start')

\* reflow_run_tick(): a latched run, and one that is aborted, keeps its clocks.
Tick(dt, temp, raw) ==
    /\ run.result = "ACTIVE"
    /\ UNCHANGED prof
    /\ run' = RunTick(run, P, dt, temp, raw)
    /\ IF run'.result = "OVERTEMP" \/ run.stage >= P.n_stages
          THEN UNCHANGED <<total_ms, stage_start, setpoint>>
          ELSE total_ms' = total_ms + dt /\ Resume(temp)

TickStep == \E dt \in Steps, temp, raw \in Temps : Tick(dt, temp, raw)

Next ==
    \/ \E temp \in Temps : Start(temp)
    \/ TickStep

Spec == Init /\ [][Next]_vars

--------------------------------------------------------------------------------

LongestStep == Max(Steps)

\* While a ramp is followed its setpoint lies between where the stage was entered
\* and its target, and from the nominal time on it is the target: C's truncating
\* division and a late stage never overshoot.
SetpointInRamp ==
    run.result = "ACTIVE" /\ run.stage < P.n_stages
        => LET st == P.stages[run.stage]
           IN  /\ \/ stage_start <= setpoint /\ setpoint <= st.target
                  \/ st.target <= setpoint /\ setpoint <= stage_start
                  \/ st.kind # "RAMP" /\ setpoint = st.target
               /\ run.stage_ms >= st.nominal => setpoint = st.target

\* The PID is never asked for a temperature the run would be aborted at, unless the
\* run was started at one.
SetpointBelowAbort ==
    run.result = "ACTIVE" /\ (run.stage > 0 \/ stage_start < P.abort) => setpoint < P.abort

\* DONE is earned: every stage has taken at least its nominal time, however the
\* ticks fell, so the whole run at least their sum.
DoneIsEarned == run.result = "DONE" => run.stage = P.n_stages /\ total_ms >= NominalMs(P)

\* A run that is still active, or was completed, has taken at most its budget and one
\* more tick per stage.
OverrunBounded ==
    run.result \in {"ACTIVE", "DONE"} => total_ms <= MaxMs(P) + P.n_stages * LongestStep
================================================================================
