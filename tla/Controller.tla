------------------------------- MODULE Controller -------------------------------
(***************************************************************************)
(* The control core, src/core/controller.c: the one thread that owns the   *)
(* thermocouple, the heater and the profile runner, the queue every other  *)
(* module posts commands to and the telemetry channel it publishes on.     *)
(*                                                                         *)
(* One iteration of controller_thread() is a sequence of steps, told apart *)
(* by pc in the order of the source:                                       *)
(*                                                                         *)
(*    retry -> sample -> judge -> run -> pwm -> publish -> sleep -> retry  *)
(*                                                                         *)
(* Commands are consumed in "sleep" only.  Between any two steps another   *)
(* thread may post a command and a fatal error may halt the processor.     *)
(* Times are the differences the code compares: each counter is the time   *)
(* since an event and stops at the threshold it is compared with.          *)
(***************************************************************************)
EXTENDS Integers, Sequences, TempGuard, Profile, SlowPwm

CONSTANTS
    AbsMax,        \* ABS_MAX_MC, the cut-out above every profile
    SampleMs,      \* SAMPLE_MS, RETRY_MS and PUBLISH_MS
    RetryMs,
    PublishMs,
    Readings,      \* the raw samples the converter can deliver
    Duties,        \* the duties pid_step() can ask for
    Ticks,         \* the possible times between two iterations, all >= PERIOD_MS
    SelectArgs,    \* the arguments SELECT_PROFILE is posted with
    QueueDepth,    \* the length of cmd_q
    LossyBus       \* whether zbus_chan_pub() may time out

ASSUME ControllerAssumption ==
    /\ AbsMax \in Int
    /\ SampleMs \in Nat \ {0} /\ RetryMs \in Nat /\ PublishMs \in Nat
    /\ Readings \subseteq Int
    /\ Duties \subseteq Permille
    /\ Ticks \subseteq Nat \ {0}
    /\ SelectArgs \subseteq Int
    /\ QueueDepth \in Nat
    /\ LossyBus \in BOOLEAN

States == {"IDLE", "RUNNING", "DONE", "FAULT"}
Faults == {"NONE", "SENSOR", "OVERTEMP", "TIMEOUT"}
Commands == [id : {"START", "STOP", "CLEAR_FAULT"}, arg : {0}]
                \cup [id : {"SELECT_PROFILE"}, arg : SelectArgs]

VARIABLES
    pc,            \* the next step of controller_thread(), or "halted"
    ready,         \* both drivers initialised
    state, fault, profile_idx,
    run,           \* ctx.run, see module Profile
    temp, temp_raw, temp_valid,
    duty,
    spike,         \* the spike filter of temp.c
    heater,        \* the state of heater.c, see module SlowPwm
    dt, new_sample,                            \* locals of one iteration
    since_sample, since_retry, since_publish,
    cmd_q,
    chan           \* the last frame on reflow_telemetry_chan

readingVars == <<temp, temp_raw, temp_valid, spike>>
modeVars == <<state, fault, profile_idx, run, duty>>
timeVars == <<dt, new_sample, since_sample, since_retry, since_publish>>
vars == <<pc, ready, modeVars, readingVars, heater, timeVars, cmd_q, chan>>

Frames == [state : States, fault : Faults, profile : ProfileIdx, valid : BOOLEAN]

TypeOK ==
    /\ pc \in {"boot", "retry", "sample", "judge", "run", "pwm", "publish", "sleep", "halted"}
    /\ ready \in BOOLEAN
    /\ state \in States /\ fault \in Faults /\ profile_idx \in ProfileIdx
    /\ run \in Runs
    /\ temp \in Int /\ temp_raw \in Int /\ temp_valid \in BOOLEAN
    /\ duty \in Permille
    /\ spike \in Spikes
    /\ heater \in Heaters
    /\ dt \in Nat /\ new_sample \in BOOLEAN
    /\ since_sample \in Nat /\ since_retry \in Nat /\ since_publish \in Nat
    /\ cmd_q \in Seq(Commands) /\ Len(cmd_q) <= QueueDepth
    /\ chan \in Frames

Prof == Profiles[profile_idx]

Init ==
    /\ pc = "boot"
    /\ ready = FALSE
    /\ state = "IDLE" /\ fault = "NONE" /\ profile_idx = 0
    /\ run = RunZero
    /\ temp = 0 /\ temp_raw = 0 /\ temp_valid = FALSE
    /\ duty = 0
    /\ spike = SpikeReset
    /\ heater = HeaterReset
    /\ dt = 0 /\ new_sample = FALSE
    /\ since_sample = 0 /\ since_retry = 0 /\ since_publish = 0
    /\ cmd_q = <<>>
    /\ chan = [state |-> "IDLE", fault |-> "NONE", profile |-> 0, valid |-> FALSE]

--------------------------------------------------------------------------------
(* Helpers shared by the steps.                                               *)

Saturate(t, threshold) == IF t >= threshold THEN threshold ELSE t

\* publish(): the context as this step leaves it, unless the channel is busy for
\* longer than the publisher waits; the result is not looked at.
Publish ==
    LET frame == [state |-> state', fault |-> fault', profile |-> profile_idx',
                  valid |-> temp_valid']
    IN  chan' \in IF LossyBus THEN {chan, frame} ELSE {frame}

\* enter_fault()
EnterFault(f) ==
    /\ heater' = HeaterOff(heater)
    /\ duty' = 0
    /\ state' = "FAULT"
    /\ fault' = f
    /\ Publish

\* Planted bug: the state is left and the heater is left on.
StopRun_StaysOn(next) ==
    /\ duty' = 0
    /\ state' = next
    /\ UNCHANGED <<heater, fault>>
    /\ Publish

\* stop_run()
StopRun(next) ==
    /\ heater' = HeaterOff(heater)
    /\ duty' = 0
    /\ state' = next
    /\ UNCHANGED fault
    /\ Publish

--------------------------------------------------------------------------------
(* The control thread.                                                        *)

\* The thread starts: reflow_temp_init() is reached only if the heater came up.
Boot ==
    /\ pc = "boot"
    /\ pc' = "retry"
    /\ UNCHANGED <<profile_idx, run, readingVars, timeVars, cmd_q>>
    /\ ready' \in BOOLEAN
    /\ IF ready'
          THEN UNCHANGED <<heater, duty, state, fault, chan>>
          ELSE EnterFault("SENSOR")

\* A front-end that was missing at boot is tried again, outside a run only.
\* The heater may come up although the thermocouple does not.
RetryInit ==
    /\ since_retry' = 0
    /\ ready' \in BOOLEAN
    /\ heater' \in IF ready' THEN {HeaterReset} ELSE {heater, HeaterReset}
    /\ spike' = IF ready' THEN SpikeReset ELSE spike
    /\ since_sample' = IF ready' THEN SampleMs ELSE since_sample

\* Planted bug: nothing is retried once the fault has been cleared.
RetryDue_InFaultOnly == ~ready /\ state = "FAULT" /\ since_retry >= RetryMs

RetryDue == ~ready /\ state # "RUNNING" /\ since_retry >= RetryMs

RetryStep ==
    /\ pc = "retry"
    /\ pc' = "sample"
    /\ UNCHANGED <<modeVars, temp, temp_raw, temp_valid, dt, new_sample,
                   since_publish, cmd_q, chan>>
    /\ IF RetryDue
          THEN RetryInit
          ELSE UNCHANGED <<ready, heater, spike, since_sample, since_retry>>

\* reflow_temp_read() succeeded with raw sample mc.
ReadingTaken(mc) ==
    LET filtered == SpikeFilter(spike, mc)
    IN  /\ spike' = filtered.spike
        /\ temp' = filtered.out
        /\ temp_raw' = mc
        /\ temp_valid' = TRUE
        /\ new_sample' = TRUE
        /\ UNCHANGED <<state, fault, duty, heater, chan>>

\* reflow_temp_read() failed: a fault only while the element can be energised.
ReadingLost ==
    /\ temp_valid' = FALSE
    /\ UNCHANGED <<spike, temp, temp_raw, new_sample>>
    /\ CASE state = "RUNNING" -> EnterFault("SENSOR")
         [] state # "RUNNING" /\ temp_valid ->
                UNCHANGED <<state, fault, duty, heater>> /\ Publish
         [] state # "RUNNING" /\ ~temp_valid ->
                UNCHANGED <<state, fault, duty, heater, chan>>

\* Planted bugs: the front-end is read before it has come up; the sample is put off
\* while the gate is high.
SampleDue_Blind == since_sample >= SampleMs
SampleDue_GateLow == ready /\ since_sample >= SampleMs /\ ~heater.on

SampleDue == ready /\ since_sample >= SampleMs

SampleStep ==
    /\ pc = "sample"
    /\ pc' = "judge"
    /\ UNCHANGED <<ready, profile_idx, run, dt, since_retry, since_publish, cmd_q>>
    /\ IF SampleDue
          THEN /\ since_sample' = 0
               /\ \/ \E mc \in Readings : Plausible(mc) /\ ReadingTaken(mc)
                  \/ ReadingLost
          ELSE UNCHANGED <<since_sample, readingVars, new_sample, state, fault, duty,
                           heater, chan>>

\* Planted bug: the backstop guards a run only.
BackstopTrips_InRunOnly ==
    temp_valid /\ state = "RUNNING" /\ OvertempTripped(temp, temp_raw, AbsMax)

\* The absolute backstop, on the filtered and on the raw sample.
BackstopTrips ==
    temp_valid /\ state # "FAULT" /\ OvertempTripped(temp, temp_raw, AbsMax)

JudgeStep ==
    /\ pc = "judge"
    /\ pc' = "run"
    /\ UNCHANGED <<ready, profile_idx, run, readingVars, timeVars, cmd_q>>
    /\ IF BackstopTrips
          THEN EnterFault("OVERTEMP")
          ELSE UNCHANGED <<heater, duty, state, fault, chan>>

\* The rest of run_step() once the runner is still ACTIVE: the PID is consulted
\* on a fresh sample only, and its output is any of Duties.
DriveDuty ==
    /\ duty' \in IF ~HeaterAllowed(run', Prof) THEN {0}
                 ELSE IF new_sample THEN Duties ELSE {duty}
    /\ heater' = SetDuty(heater, duty')
    /\ UNCHANGED <<state, fault, chan>>

RunStep ==
    /\ pc = "run"
    /\ pc' = "pwm"
    /\ UNCHANGED <<ready, profile_idx, readingVars, timeVars, cmd_q>>
    /\ IF state = "RUNNING"
          THEN /\ run' = RunTick(run, Prof, dt, temp, temp_raw)
               /\ CASE run'.result = "ACTIVE"   -> DriveDuty
                    [] run'.result = "DONE"     -> StopRun("DONE")
                    [] run'.result = "OVERTEMP" -> EnterFault("OVERTEMP")
                    [] run'.result = "TIMEOUT"  -> EnterFault("TIMEOUT")
          ELSE /\ duty' = 0
               /\ heater' = HeaterOff(heater)
               /\ UNCHANGED <<run, state, fault, chan>>

\* reflow_heater_tick(): the request is stale if the thread was kept off the
\* processor for STALE_MS since it was made.
PwmStep ==
    /\ pc = "pwm"
    /\ pc' = "publish"
    /\ UNCHANGED <<ready, modeVars, readingVars, timeVars, cmd_q, chan>>
    /\ \E stale \in BOOLEAN : heater' = HeaterTick(heater, dt, stale)

\* The periodic frame; with it the iteration's locals end.
PublishStep ==
    /\ pc = "publish"
    /\ pc' = "sleep"
    /\ UNCHANGED <<ready, modeVars, readingVars, heater, since_sample, since_retry, cmd_q>>
    /\ dt' = 0
    /\ new_sample' = FALSE
    /\ IF since_publish >= PublishMs
          THEN since_publish' = 0 /\ Publish
          ELSE UNCHANGED <<since_publish, chan>>

\* The deadline has passed: the next iteration begins, even with commands queued.
Wake ==
    /\ pc = "sleep"
    /\ pc' = "retry"
    /\ UNCHANGED <<ready, modeVars, readingVars, heater, new_sample, cmd_q, chan>>
    /\ dt' \in Ticks
    /\ since_sample' = Saturate(since_sample + dt', SampleMs)
    /\ since_retry' = Saturate(since_retry + dt', RetryMs)
    /\ since_publish' = Saturate(since_publish + dt', PublishMs)

ThreadStep ==
    \/ Boot \/ RetryStep \/ SampleStep \/ JudgeStep \/ RunStep \/ PwmStep
    \/ PublishStep \/ Wake

--------------------------------------------------------------------------------
(* handle_cmd(), one action per command, consumed in the sleep of the loop.   *)

\* Planted bug: the command is read and stays in the queue.
Consume_Peek(id) ==
    /\ pc = "sleep"
    /\ cmd_q # <<>>
    /\ Head(cmd_q).id = id
    /\ UNCHANGED <<cmd_q, pc, ready, readingVars, timeVars>>

Consume(id) ==
    /\ pc = "sleep"
    /\ cmd_q # <<>>
    /\ Head(cmd_q).id = id
    /\ cmd_q' = Tail(cmd_q)
    /\ UNCHANGED <<pc, ready, readingVars, timeVars>>

\* Planted bug: START also works from FAULT.
StartAccepted_InFault == state # "RUNNING" /\ temp_valid

\* Refused in FAULT, refused without a valid temperature, ignored while RUNNING.
StartAccepted == state \notin {"FAULT", "RUNNING"} /\ temp_valid

\* The heater is not touched: the next iteration drives it.
HandleStart ==
    /\ Consume("START")
    /\ UNCHANGED <<profile_idx, duty, heater>>
    /\ IF StartAccepted
          THEN run' = RunStart /\ state' = "RUNNING" /\ UNCHANGED fault /\ Publish
          ELSE UNCHANGED <<run, state, fault, chan>>

\* Planted bug: STOP goes to IDLE from every state.
HandleStop_Always ==
    /\ Consume("STOP")
    /\ UNCHANGED <<profile_idx, run>>
    /\ StopRun("IDLE")

HandleStop ==
    /\ Consume("STOP")
    /\ UNCHANGED <<profile_idx, run>>
    /\ IF state = "RUNNING"
          THEN StopRun("IDLE")
          ELSE UNCHANGED <<heater, duty, state, fault, chan>>

\* Planted bugs: a profile can be swapped under a run; a selection is not shown.
HandleSelect_InRun ==
    /\ Consume("SELECT_PROFILE")
    /\ UNCHANGED <<run, duty, heater, state, fault>>
    /\ profile_idx' = 1
    /\ Publish
HandleSelect_Silent ==
    /\ Consume("SELECT_PROFILE")
    /\ UNCHANGED <<run, duty, heater, state, fault, chan>>
    /\ profile_idx' = IF state # "RUNNING" THEN 1 ELSE profile_idx

\* The argument is an int32_t; the index it is looked up by is a uint8_t.
HandleSelect ==
    /\ Consume("SELECT_PROFILE")
    /\ UNCHANGED <<run, duty, heater>>
    /\ LET idx == Head(cmd_q).arg % 256
       IN  IF state # "RUNNING" /\ idx \in ProfileIdx
           THEN profile_idx' = idx /\ UNCHANGED <<state, fault>> /\ Publish
           ELSE UNCHANGED <<profile_idx, state, fault, chan>>

\* Planted bug: the state is unlatched and the code stays.
HandleClear_KeepsCode ==
    /\ Consume("CLEAR_FAULT")
    /\ UNCHANGED <<profile_idx, run, duty, heater, fault>>
    /\ IF state = "FAULT"
          THEN state' = "IDLE" /\ Publish
          ELSE UNCHANGED <<state, chan>>

HandleClear ==
    /\ Consume("CLEAR_FAULT")
    /\ UNCHANGED <<profile_idx, run, duty, heater>>
    /\ IF state = "FAULT"
          THEN fault' = "NONE" /\ state' = "IDLE" /\ Publish
          ELSE UNCHANGED <<fault, state, chan>>

HandleCmd == HandleStart \/ HandleStop \/ HandleSelect \/ HandleClear

--------------------------------------------------------------------------------
(* The surroundings.                                                          *)

\* reflow_cmd_post() from any other thread.  With the queue full the command is
\* dropped and nothing changes.
Post(cmd) ==
    /\ pc # "halted"
    /\ Len(cmd_q) < QueueDepth
    /\ cmd_q' = Append(cmd_q, cmd)
    /\ UNCHANGED <<pc, ready, modeVars, readingVars, heater, timeVars, chan>>

\* Planted bug: the handler waits for the lock the faulting thread holds.
FatalError_Locked ==
    /\ pc # "halted"
    /\ pc' = "halted"
    /\ UNCHANGED <<ready, modeVars, readingVars, heater, timeVars, cmd_q, chan>>

\* k_sys_fatal_error_handler(): the gate is cut without the lock, then the
\* processor halts for good.
FatalError ==
    /\ pc # "halted"
    /\ pc' = "halted"
    /\ heater' = HeaterOff(heater)
    /\ UNCHANGED <<ready, modeVars, readingVars, timeVars, cmd_q, chan>>

Next ==
    \/ ThreadStep
    \/ HandleCmd
    \/ \E cmd \in Commands : Post(cmd)
    \/ FatalError

Spec == Init /\ [][Next]_vars

\* The thread has the highest application priority and is always runnable at its
\* deadline.  A pending command is taken unless the deadline has already passed,
\* and iterations are far shorter than the period: it is not passed over for ever.
Fairness == WF_vars(ThreadStep) /\ SF_vars(HandleCmd)

LiveSpec == Spec /\ Fairness

--------------------------------------------------------------------------------
(* Safety.                                                                    *)

\* The properties judge temperatures and stages by themselves, not by the code's
\* own predicates.
TooHot(limit) == temp >= limit \/ temp_raw >= limit

HeatingStage ==
    /\ run.result = "ACTIVE"
    /\ run.stage < Prof.n_stages
    /\ Prof.stages[run.stage].kind # "COOL"

\* A run cannot exist, nor a reading be believed, while the front-end is down:
\* the argument controller.c gives for initialising a driver again on the fly.
NoRunWithoutFrontEnd == ~ready => ~temp_valid /\ state # "RUNNING"

\* The fault code and the latched state are two variables that never disagree.
FaultMatchesState == (state = "FAULT") <=> (fault # "NONE")

\* Between any two steps, the gate is high or a duty is requested only in a run
\* that is active and has a valid temperature: every way out of RUNNING cuts both.
HeatOnlyInRun ==
    heater.on \/ heater.req > 0 \/ duty > 0
        => state = "RUNNING" /\ temp_valid /\ run.result = "ACTIVE"

\* From the moment the gate is driven until the next sample replaces the readings,
\* a high gate means a heating stage and both readings, the filtered and the raw
\* one, below the profile's abort level and below the absolute one.
HeatOnlyBelowLimits ==
    heater.on /\ pc \in {"publish", "sleep", "retry", "sample"}
        => /\ HeatingStage
           /\ ~TooHot(AbsMax)
           /\ ~TooHot(Prof.abort)

\* When an iteration leaves the gate high, the sensor was read less than one
\* sampling period before: an element is never driven on an old reading.
HeatOnFreshReading == heater.on /\ pc \in {"publish", "sleep"} => since_sample < SampleMs

\* Once the backstop has looked, a valid sample at or above the limit, seen raw or
\* filtered, has latched a fault, whatever was cleared and started meanwhile.
OvertempTrips ==
    pc \in {"run", "pwm", "publish"} /\ temp_valid /\ TooHot(AbsMax)
        => state = "FAULT"

\* On a bus that loses nothing the last frame tells the truth about the state, the
\* fault and the profile at every step, and never calls an invalid reading valid.
FrameTruthful ==
    ~LossyBus => /\ chan.state = state
                 /\ chan.fault = fault
                 /\ chan.profile = profile_idx
                 /\ chan.valid => temp_valid

--------------------------------------------------------------------------------
(* What the invariants above rest on: together they are inductive.            *)

\* handle_cmd() starts a run on a valid reading only, and whatever latches a result
\* or loses the reading leaves RUNNING in the same step.
RunIsActive == state = "RUNNING" => run.result = "ACTIVE" /\ temp_valid

\* Between two ticks of the window the gate is high only for a request.
GateFollowsRequest == heater.on /\ pc # "pwm" => heater.req > 0

\* A request outlives the step that made it only below both limits and in a stage
\* that heats, until a new sample is judged.
RequestIsAllowed ==
    heater.req > 0 /\ pc \in {"pwm", "publish", "sleep", "retry", "sample"}
        => /\ HeatingStage
           /\ ~TooHot(AbsMax)
           /\ ~TooHot(Prof.abort)

SampledThisPeriod ==
    ready /\ pc \in {"judge", "run", "pwm", "publish", "sleep"} => since_sample < SampleMs

\* Nothing happens before the thread has started.
BootComesFirst == pc = "boot" => ~ready /\ state = "IDLE"

Safe ==
    /\ BootComesFirst
    /\ NoRunWithoutFrontEnd
    /\ FaultMatchesState
    /\ HeatOnlyInRun
    /\ OvertempTrips
    /\ FrameTruthful
    /\ RunIsActive
    /\ GateFollowsRequest
    /\ RequestIsAllowed
    /\ SampledThisPeriod

--------------------------------------------------------------------------------
(* What a step may never do.                                                  *)

\* A fault is unlatched by an explicit CLEAR_FAULT only, and into IDLE.
OnlyClearUnlatches ==
    [][state = "FAULT" /\ state' # "FAULT"
         => pc = "sleep" /\ Head(cmd_q).id = "CLEAR_FAULT" /\ state' = "IDLE"]_vars

\* A run begins by a START that finds a valid reading and no fault, with the gate
\* low and no duty left over from an earlier run.
RunBeginsCold ==
    [][state # "RUNNING" /\ state' = "RUNNING"
         => /\ Head(cmd_q).id = "START" /\ temp_valid /\ state # "FAULT"
            /\ ~heater'.on /\ heater'.req = 0 /\ duty' = 0
            /\ run'.stage = 0 /\ run'.stage_ms = 0]_vars

\* The profile a run was started with is the profile it is judged by to its end.
ProfileFixedInRun == [][state = "RUNNING" => profile_idx' = profile_idx]_vars

\* A sample the filter hides is counted, so (rejects < MaxRejects) at most
\* MaxRejects - 1 good samples in a row are hidden from the control loop.
SuppressionIsCounted ==
    [][new_sample' /\ ~new_sample /\ temp' # temp_raw'
         => spike'.rejects = spike.rejects + 1]_vars

\* selmap.h: "controller.c returns early while RUNNING and for an index that does not
\* resolve, and a refused command never produces a frame carrying it."  The index is
\* the argument of the command (app.h), an int32_t.
UnresolvedRefused ==
    [][HandleSelect /\ Head(cmd_q).arg \notin ProfileIdx => profile_idx' = profile_idx]_vars

--------------------------------------------------------------------------------
(* The contracts this module implements.                                      *)

Mode == IF pc = "halted" THEN "HALTED" ELSE state

Oven == INSTANCE OvenSafety WITH mode <- Mode, gate <- heater.on, profile <- profile_idx

\* Interleaved commands, retries, lost samples, drops of the bus and fatal errors
\* between any two steps amount to the seven moves of module OvenSafety.
ImplementsOvenSafety == Oven!Spec

\* The thread as the clients of its queue know it: what is left to change once a run has
\* been stepped, or a fault is latched, is nothing before the commands are taken.
Thread ==
    CASE pc = "halted" -> "halted"
      [] pc = "sleep" -> "sleep"
      [] pc \in {"boot", "retry", "sample", "judge", "run"} /\ state # "FAULT" -> "work"
      [] OTHER -> "settled"

OvenSeen == [state |-> state, profile |-> profile_idx]

Commanded == INSTANCE CommandedOven
    WITH Indices <- ProfileIdx, Arguments <- SelectArgs, Depth <- QueueDepth,
         thread <- Thread, oven <- OvenSeen, q <- cmd_q

\* To its clients the control core is the oven of module CommandedOven: each command is
\* taken once, in the order of posting, and obeyed or refused as the oven then is; state
\* and profile change by no other way but once in an iteration, into DONE or FAULT.
ImplementsCommandedOven == Commanded!Spec

Calls == INSTANCE HeaterDriver WITH halted <- pc = "halted", Elapsed <- Ticks \cup {0}

\* The driver is called and its state left alone: a step makes one call or none, and what
\* the call leaves is what module HeaterDriver says it may leave.
OnlyCallsDriver == Calls!Spec

--------------------------------------------------------------------------------
(* Liveness.                                                                  *)

Halted == pc = "halted"

\* A full queue does not stay full: a post refused for that reason can be retried.
QueueDrains == (QueueDepth > 0 /\ Len(cmd_q) = QueueDepth)
                   ~> (Len(cmd_q) < QueueDepth \/ Halted)

\* Every run ends, by completion, by a fault or by a command: a stage that does not
\* reach its goal is given up.
RunEnds == state = "RUNNING" ~> (state # "RUNNING" \/ Halted)

\* A front-end that answers if it is asked often enough brings the oven back
\* without a reboot.
FrontEndReturns == WF_vars(ThreadStep) /\ SF_vars(RetryStep /\ ready')
                       => (~ready ~> (ready \/ Halted))
================================================================================
