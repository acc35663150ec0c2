---------------------------- MODULE ControllerProofs ----------------------------
(***************************************************************************)
(* Proofs that the control loop keeps its safety invariants for every      *)
(* profile table, sensor, duty, timing and command argument.               *)
(***************************************************************************)
EXTENDS Controller, TLAPS

--------------------------------------------------------------------------------
(* The operators the steps are built from.                                    *)

\* Whatever is asked for, the request in force is a duty, and none is never turned into
\* one.
LEMMA SetDutyType ==
    ASSUME NEW h \in Heaters, NEW d \in Permille
    PROVE  /\ SetDuty(h, d) \in Heaters
           /\ SetDuty(h, d).on = h.on
           /\ d = 0 => SetDuty(h, d).req = 0
<1>1. ClampDuty(d) \in Permille /\ (d = 0 => ClampDuty(d) = 0)
  BY DEF ClampDuty, Permille
<1>2. Snap(ClampDuty(d)) \in Permille
  BY <1>1 DEF Snap, Permille
<1>3. Snap(0) = 0
  <2>1. OnMs(0) = 0 /\ OnMs(1000) = WindowMs
    BY SlowPwmAssumption DEF OnMs
  <2> QED BY <2>1, SlowPwmAssumption DEF Snap
<1> QED BY <1>1, <1>2, <1>3 DEF SetDuty, Heaters

\* Switched off, nothing is requested and the window stays where it is.
LEMMA HeaterOffType ==
    ASSUME NEW h \in Heaters
    PROVE  /\ HeaterOff(h) \in Heaters
           /\ HeaterOff(h).req = 0
           /\ HeaterOff(h).phase = h.phase
           /\ ~HeaterOff(h).on
BY DEF HeaterOff, Heaters, Permille

\* A tick leaves the gate high only if a duty is requested.
LEMMA HeaterTickType ==
    ASSUME NEW h \in Heaters, NEW d \in Nat, NEW stale \in BOOLEAN
    PROVE  /\ HeaterTick(h, d, stale) \in Heaters
           /\ HeaterTick(h, d, stale).on => HeaterTick(h, d, stale).req > 0
           /\ HeaterTick(h, d, stale).req > 0 => HeaterTick(h, d, stale).req = h.req
<1>1. NextPhase(h.phase, d) \in Nat
  <2>1. h.phase + d \in Nat
    BY DEF Heaters
  <2>2. (h.phase + d) % WindowMs \in Nat
    BY <2>1, SlowPwmAssumption
  <2> QED BY <2>1, <2>2 DEF NextPhase
<1>2. OnMs(0) = 0
  BY SlowPwmAssumption DEF OnMs
<1>3. (NextPhase(h.phase, d) < OnMs(h.req)) => h.req > 0
  <2> SUFFICES ASSUME NextPhase(h.phase, d) < OnMs(h.req) PROVE h.req > 0
    OBVIOUS
  <2>1. h.req # 0
    BY <1>1, <1>2
  <2>2. h.req \in Nat
    BY DEF Heaters, Permille
  <2> QED BY <2>1, <2>2
<1>4. CASE stale
  <2>1. HeaterTick(h, d, stale) = HeaterOff(h)
    BY <1>4 DEF HeaterTick
  <2>2. ~HeaterOff(h).on /\ ~(HeaterOff(h).req > 0)
    BY HeaterOffType
  <2> QED BY <2>1, <2>2, HeaterOffType
<1>5. CASE ~stale
  <2> DEFINE high == NextPhase(h.phase, d) < OnMs(h.req)
  <2>1. HeaterTick(h, d, stale)
          = [req |-> h.req, phase |-> NextPhase(h.phase, d), on |-> high]
    BY <1>5 DEF HeaterTick
  <2>2. high \in BOOLEAN /\ h.req \in Permille
    BY DEF Heaters
  <2>3. high => h.req > 0
    BY <1>3
  <2> HIDE DEF high
  <2> QED BY <2>1, <2>2, <2>3, <1>1 DEF Heaters
<1> QED BY <1>4, <1>5

\* The filter reports the sample it was given or, counting the sample as hidden,
\* the last one it believed.
LEMMA SpikeFilterType ==
    ASSUME NEW s \in Spikes, NEW raw \in Int
    PROVE  /\ SpikeFilter(s, raw).spike \in Spikes
           /\ SpikeFilter(s, raw).out \in Int
           /\ \/ SpikeFilter(s, raw).out = raw
              \/ SpikeFilter(s, raw).spike.rejects = s.rejects + 1
BY TempGuardAssumption DEF SpikeFilter, Spikes, Rejects, Believe

LEMMA ProfType ==
    ASSUME TypeOK
    PROVE  IsProfile(Prof)
BY ProfileAssumption DEF TypeOK, Prof

\* The runner keeps its type, and stays ACTIVE only below the abort level.
LEMMA RunTickType ==
    ASSUME NEW r \in Runs, NEW p, IsProfile(p), NEW d \in Nat, NEW f \in Int, NEW raw \in Int
    PROVE  /\ RunTick(r, p, d, f, raw) \in Runs
           /\ RunTick(r, p, d, f, raw).result = "ACTIVE"
                => ~OvertempTripped(f, raw, p.abort)
<1>1. r.stage < p.n_stages => p.stages[r.stage] \in Stages
  BY DEF IsProfile, Runs
<1>2. ASSUME r.stage < p.n_stages
      PROVE  AdvanceStage(r, p, d, f) \in Runs
  <2>1. r.stage_ms + d \in Nat /\ r.stage + 1 \in Nat
    BY DEF Runs
  <2> QED BY <1>1, <1>2, <2>1 DEF AdvanceStage, Runs, RunResults
<1> QED BY <1>2 DEF RunTick, Runs, RunResults, IsProfile

--------------------------------------------------------------------------------
(* Type correctness.                                                          *)

LEMMA PublishType ==
    ASSUME TypeOK, Publish, state' \in States, fault' \in Faults,
           profile_idx' \in ProfileIdx, temp_valid' \in BOOLEAN
    PROVE  chan' \in Frames
BY DEF TypeOK, Publish, Frames

LEMMA EnterFaultType ==
    ASSUME TypeOK, NEW f \in Faults, EnterFault(f),
           profile_idx' \in ProfileIdx, temp_valid' \in BOOLEAN
    PROVE  /\ heater' \in Heaters /\ duty' \in Permille
           /\ state' \in States /\ fault' \in Faults /\ chan' \in Frames
BY PublishType, HeaterOffType DEF TypeOK, EnterFault, States, Permille

LEMMA StopRunType ==
    ASSUME TypeOK, NEW next \in States, StopRun(next),
           profile_idx' \in ProfileIdx, temp_valid' \in BOOLEAN
    PROVE  /\ heater' \in Heaters /\ duty' \in Permille
           /\ state' \in States /\ fault' \in Faults /\ chan' \in Frames
BY PublishType, HeaterOffType DEF TypeOK, StopRun, Permille

LEMMA InitType == Init => TypeOK
<1> SUFFICES ASSUME Init PROVE TypeOK
  OBVIOUS
<1>1. run \in Runs
  BY DEF Init, RunZero, RunStart, Runs, RunResults
<1>2. spike \in Spikes
  BY TempGuardAssumption DEF Init, SpikeReset, Spikes
<1>3. heater \in Heaters /\ duty \in Permille
  BY DEF Init, HeaterReset, Heaters, Permille
<1>4. state \in States /\ fault \in Faults /\ profile_idx \in ProfileIdx
  BY ProfileAssumption DEF Init, States, Faults
<1>5. chan \in Frames
  BY ProfileAssumption DEF Init, Frames, States, Faults
<1>6. cmd_q \in Seq(Commands) /\ Len(cmd_q) <= QueueDepth
  BY ControllerAssumption DEF Init
<1>7. ready \in BOOLEAN /\ temp_valid \in BOOLEAN /\ new_sample \in BOOLEAN
  BY Zenon DEF Init
<1>8. /\ dt \in Nat /\ temp \in Int /\ temp_raw \in Int
      /\ since_sample \in Nat /\ since_retry \in Nat /\ since_publish \in Nat
  BY DEF Init
<1> QED BY <1>1, <1>2, <1>3, <1>4, <1>5, <1>6, <1>7, <1>8 DEF Init, TypeOK

LEMMA BootType == TypeOK /\ Boot => TypeOK'
BY EnterFaultType DEF Boot, TypeOK, Faults, readingVars, timeVars

LEMMA RetryType == TypeOK /\ RetryStep => TypeOK'
<1> SUFFICES ASSUME TypeOK, RetryStep PROVE TypeOK'
  OBVIOUS
<1>1. HeaterReset \in Heaters /\ SpikeReset \in Spikes
  BY TempGuardAssumption DEF HeaterReset, Heaters, Permille, SpikeReset, Spikes
<1>2. CASE RetryInit
  BY <1>1, <1>2, ControllerAssumption DEF RetryInit, RetryStep, RetryDue, TypeOK, modeVars
<1>3. CASE UNCHANGED <<ready, heater, spike, since_sample, since_retry>>
  BY <1>3 DEF RetryStep, RetryDue, TypeOK, modeVars
<1> QED BY <1>2, <1>3 DEF RetryStep, RetryDue

LEMMA SampleType == TypeOK /\ SampleStep => TypeOK'
<1> SUFFICES ASSUME TypeOK, SampleStep PROVE TypeOK'
  OBVIOUS
<1>1. ASSUME NEW mc \in Readings, ReadingTaken(mc), since_sample' = 0 PROVE TypeOK'
  <2>1. mc \in Int /\ spike \in Spikes
    BY ControllerAssumption DEF TypeOK
  <2>2. SpikeFilter(spike, mc).spike \in Spikes /\ SpikeFilter(spike, mc).out \in Int
    BY <2>1, SpikeFilterType
  <2> QED BY <1>1, <2>1, <2>2 DEF ReadingTaken, SampleStep, SampleDue, TypeOK
<1>2. ASSUME ReadingLost, since_sample' = 0 PROVE TypeOK'
  <2>1. profile_idx' \in ProfileIdx /\ temp_valid' \in BOOLEAN
    BY <1>2 DEF ReadingLost, SampleStep, SampleDue, TypeOK
  <2>2. /\ heater' \in Heaters /\ duty' \in Permille
        /\ state' \in States /\ fault' \in Faults /\ chan' \in Frames
    BY <1>2, <2>1, EnterFaultType, PublishType DEF ReadingLost, TypeOK, Faults
  <2> QED BY <1>2, <2>1, <2>2 DEF ReadingLost, SampleStep, SampleDue, TypeOK
<1>3. ASSUME UNCHANGED <<since_sample, readingVars, new_sample, state, fault, duty, heater, chan>>
      PROVE  TypeOK'
  BY <1>3 DEF SampleStep, SampleDue, TypeOK, readingVars
<1> QED BY <1>1, <1>2, <1>3 DEF SampleStep, SampleDue

LEMMA JudgeType == TypeOK /\ JudgeStep => TypeOK'
BY EnterFaultType DEF JudgeStep, BackstopTrips, TypeOK, Faults, readingVars, timeVars

LEMMA RunStepType == TypeOK /\ RunStep => TypeOK'
<1> SUFFICES ASSUME TypeOK, RunStep PROVE TypeOK'
  OBVIOUS
<1>1. profile_idx' \in ProfileIdx /\ temp_valid' \in BOOLEAN
  BY DEF RunStep, TypeOK, readingVars
<1>2. run' \in Runs
  BY RunTickType, ProfType DEF RunStep, TypeOK
<1>3. /\ heater' \in Heaters /\ duty' \in Permille
      /\ state' \in States /\ fault' \in Faults /\ chan' \in Frames
  <2>1. CASE state = "RUNNING" /\ DriveDuty
    <3>1. duty' \in Permille
      BY <2>1, ControllerAssumption DEF DriveDuty, TypeOK, Permille
    <3> QED BY <2>1, <3>1, SetDutyType DEF DriveDuty, TypeOK
  <2>2. ASSUME NEW f \in Faults, EnterFault(f)
        PROVE  /\ heater' \in Heaters /\ duty' \in Permille
               /\ state' \in States /\ fault' \in Faults /\ chan' \in Frames
    BY <1>1, <2>2, EnterFaultType
  <2>3. CASE StopRun("DONE")
    BY <1>1, <2>3, StopRunType DEF States
  <2>4. CASE state # "RUNNING"
    BY <2>4, HeaterOffType DEF RunStep, TypeOK, Permille
  <2>5. run'.result \in RunResults
    BY <1>2 DEF Runs
  <2>6. "OVERTEMP" \in Faults /\ "TIMEOUT" \in Faults
    BY DEF Faults
  <2> QED BY <2>1, <2>2, <2>3, <2>4, <2>5, <2>6 DEF RunStep, RunResults
<1> QED BY <1>1, <1>2, <1>3 DEF RunStep, TypeOK, readingVars, timeVars

LEMMA PwmType == TypeOK /\ PwmStep => TypeOK'
BY HeaterTickType DEF PwmStep, TypeOK, modeVars, readingVars, timeVars

LEMMA PublishStepType == TypeOK /\ PublishStep => TypeOK'
<1> SUFFICES ASSUME TypeOK, PublishStep PROVE TypeOK'
  OBVIOUS
<1>1. chan' \in Frames /\ since_publish' \in Nat
  BY PublishType DEF PublishStep, TypeOK, modeVars, readingVars
<1> QED BY <1>1 DEF PublishStep, TypeOK, modeVars, readingVars

LEMMA SaturateType ==
    ASSUME NEW t \in Nat, NEW threshold \in Nat
    PROVE  Saturate(t, threshold) \in Nat
BY DEF Saturate

LEMMA WakeType == TypeOK /\ Wake => TypeOK'
<1> SUFFICES ASSUME TypeOK, Wake PROVE TypeOK'
  OBVIOUS
<1>1. PICK d \in Nat : dt' = d
  BY ControllerAssumption DEF Wake
<1>2. since_sample + d \in Nat /\ since_retry + d \in Nat /\ since_publish + d \in Nat
  BY DEF TypeOK
<1>3. since_sample' \in Nat /\ since_retry' \in Nat /\ since_publish' \in Nat
  BY <1>1, <1>2, SaturateType, ControllerAssumption DEF Wake
<1> QED BY <1>1, <1>3 DEF Wake, TypeOK, modeVars, readingVars

LEMMA ConsumeType ==
    ASSUME TypeOK, NEW id, Consume(id)
    PROVE  /\ cmd_q' \in Seq(Commands) /\ Len(cmd_q') <= QueueDepth
           /\ Head(cmd_q) \in Commands
           /\ UNCHANGED <<pc, ready, readingVars, timeVars>>
BY ControllerAssumption DEF Consume, TypeOK

LEMMA HandleStartType == TypeOK /\ HandleStart => TypeOK'
<1> SUFFICES ASSUME TypeOK, HandleStart PROVE TypeOK'
  OBVIOUS
<1>1. RunStart \in Runs
  BY DEF RunStart, Runs, RunResults
<1>2. temp_valid' \in BOOLEAN /\ profile_idx' \in ProfileIdx
  BY ConsumeType DEF HandleStart, StartAccepted, TypeOK, readingVars
<1>3. run' \in Runs /\ state' \in States /\ fault' \in Faults /\ chan' \in Frames
  BY <1>1, <1>2, PublishType DEF HandleStart, StartAccepted, TypeOK, States
<1> QED BY <1>3, ConsumeType DEF HandleStart, StartAccepted, TypeOK, readingVars, timeVars

LEMMA HandleStopType == TypeOK /\ HandleStop => TypeOK'
<1> SUFFICES ASSUME TypeOK, HandleStop PROVE TypeOK'
  OBVIOUS
<1>1. temp_valid' \in BOOLEAN /\ profile_idx' \in ProfileIdx
  BY ConsumeType DEF HandleStop, TypeOK, readingVars
<1>2. /\ heater' \in Heaters /\ duty' \in Permille
      /\ state' \in States /\ fault' \in Faults /\ chan' \in Frames
  BY <1>1, StopRunType DEF HandleStop, TypeOK, States
<1> QED BY <1>2, ConsumeType DEF HandleStop, TypeOK, readingVars, timeVars

LEMMA HandleSelectType == TypeOK /\ HandleSelect => TypeOK'
<1> SUFFICES ASSUME TypeOK, HandleSelect PROVE TypeOK'
  OBVIOUS
<1>1. temp_valid' \in BOOLEAN /\ profile_idx' \in ProfileIdx
  BY ConsumeType DEF HandleSelect, TypeOK, readingVars
<1>2. state' \in States /\ fault' \in Faults /\ chan' \in Frames
  BY <1>1, PublishType DEF HandleSelect, TypeOK
<1> QED BY <1>1, <1>2, ConsumeType DEF HandleSelect, TypeOK, readingVars, timeVars

LEMMA HandleClearType == TypeOK /\ HandleClear => TypeOK'
<1> SUFFICES ASSUME TypeOK, HandleClear PROVE TypeOK'
  OBVIOUS
<1>1. temp_valid' \in BOOLEAN /\ profile_idx' \in ProfileIdx
  BY ConsumeType DEF HandleClear, TypeOK, readingVars
<1>2. state' \in States /\ fault' \in Faults /\ chan' \in Frames
  BY <1>1, PublishType DEF HandleClear, TypeOK, States, Faults
<1> QED BY <1>2, ConsumeType DEF HandleClear, TypeOK, readingVars, timeVars

LEMMA PostType == ASSUME NEW cmd \in Commands PROVE TypeOK /\ Post(cmd) => TypeOK'
BY ControllerAssumption DEF Post, TypeOK, modeVars, readingVars, timeVars

LEMMA FatalType == TypeOK /\ FatalError => TypeOK'
BY HeaterOffType DEF FatalError, TypeOK, modeVars, readingVars, timeVars

LEMMA StutterType == TypeOK /\ UNCHANGED vars => TypeOK'
BY DEF TypeOK, vars, modeVars, readingVars, timeVars

LEMMA NextType == TypeOK /\ [Next]_vars => TypeOK'
BY BootType, RetryType, SampleType, JudgeType, RunStepType, PwmType, PublishStepType,
   WakeType, HandleStartType, HandleStopType, HandleSelectType, HandleClearType,
   PostType, FatalType, StutterType DEF Next, ThreadStep, HandleCmd

\* Every variable of the control loop keeps its type, whatever the profile table,
\* the sensor, the duties, the timing and the commands.
THEOREM TypeCorrect == Spec => []TypeOK
<1>1. Init => TypeOK
  BY InitType
<1>2. TypeOK /\ [Next]_vars => TypeOK'
  BY NextType
<1> QED BY <1>1, <1>2, PTL DEF Spec

--------------------------------------------------------------------------------
(* The safety invariant.  Safe is inductive given TypeOK; each step either    *)
(* cuts the element (NoHeatSafe) or leaves what made it safe alone.           *)

\* What the properties mean by too hot and by a heating stage, from here on.
USE DEF TooHot, HeatingStage

LEMMA PublishTruthful == ASSUME Publish PROVE FrameTruthful'
BY ControllerAssumption DEF Publish, FrameTruthful

LEMMA EnterFaultCuts ==
    ASSUME TypeOK, NEW f \in Faults \ {"NONE"}, EnterFault(f)
    PROVE  /\ ~heater'.on /\ heater'.req = 0 /\ duty' = 0
           /\ state' = "FAULT" /\ fault' # "NONE" /\ FrameTruthful'
BY HeaterOffType, PublishTruthful DEF EnterFault, TypeOK

LEMMA StopRunCuts ==
    ASSUME TypeOK, NEW next \in States, StopRun(next)
    PROVE  /\ ~heater'.on /\ heater'.req = 0 /\ duty' = 0
           /\ state' = next /\ fault' = fault /\ FrameTruthful'
BY HeaterOffType, PublishTruthful DEF StopRun, TypeOK

LEMMA RequestType == ASSUME TypeOK PROVE heater.req \in Nat /\ duty \in Nat
<1>1. heater \in Heaters /\ duty \in Permille
  BY DEF TypeOK
<1>2. heater.req \in Permille
  BY <1>1 DEF Heaters
<1>3. \A d \in Permille : d \in Nat
  BY DEF Permille
<1> QED BY <1>1, <1>2, <1>3

\* Outside a run nothing is requested and the gate is low.
LEMMA NoRunNoHeat ==
    ASSUME TypeOK, Safe, state # "RUNNING"
    PROVE  ~heater.on /\ heater.req = 0 /\ duty = 0
<1>1. ~heater.on /\ ~(heater.req > 0) /\ ~(duty > 0)
  BY DEF Safe, HeatOnlyInRun
<1> QED BY <1>1, RequestType

\* With the element cut and no run, what is left to show is about the readings.
LEMMA NoRunNoHeatNext ==
    ASSUME TypeOK', Safe', state' # "RUNNING"
    PROVE  ~heater'.on
BY DEF Safe, HeatOnlyInRun

LEMMA NoHeatSafe ==
    ASSUME ~heater'.on, heater'.req = 0, duty' = 0, state' # "RUNNING",
           FaultMatchesState', FrameTruthful', NoRunWithoutFrontEnd', OvertempTrips',
           SampledThisPeriod', BootComesFirst'
    PROVE  Safe'
<1>1. ~(heater'.req > 0) /\ ~(duty' > 0)
  OBVIOUS
<1>2. HeatOnlyInRun' /\ GateFollowsRequest' /\ RequestIsAllowed' /\ RunIsActive'
  BY <1>1 DEF HeatOnlyInRun, GateFollowsRequest, RequestIsAllowed, RunIsActive
<1> QED BY <1>2 DEF Safe

LEMMA InitSafe == Init => Safe
BY DEF Init, Safe, NoRunWithoutFrontEnd, FaultMatchesState, HeatOnlyInRun, OvertempTrips,
       FrameTruthful, RunIsActive, GateFollowsRequest, RequestIsAllowed,
       SampledThisPeriod, BootComesFirst, HeaterReset

LEMMA BootSafe == TypeOK /\ Safe /\ Boot => Safe'
<1> SUFFICES ASSUME TypeOK, Safe, Boot PROVE Safe'
  OBVIOUS
<1>1. state # "RUNNING" /\ ~temp_valid
  BY DEF Boot, Safe, BootComesFirst, NoRunWithoutFrontEnd
<1>2. NoRunWithoutFrontEnd' /\ OvertempTrips' /\ SampledThisPeriod' /\ BootComesFirst'
  <2>1. state' # "RUNNING" /\ ~temp_valid'
    BY <1>1 DEF Boot, EnterFault, readingVars
  <2> QED BY <2>1 DEF Boot, NoRunWithoutFrontEnd, OvertempTrips, SampledThisPeriod,
          BootComesFirst
<1>3. CASE ready'
  <2>1. ~heater.on /\ heater.req = 0 /\ duty = 0
    BY <1>1, NoRunNoHeat
  <2> QED BY <1>1, <1>2, <1>3, <2>1, NoHeatSafe
          DEF Boot, Safe, FaultMatchesState, FrameTruthful, readingVars
<1>4. CASE ~ready'
  <2>1. EnterFault("SENSOR")
    BY <1>4 DEF Boot
  <2>2. /\ ~heater'.on /\ heater'.req = 0 /\ duty' = 0
        /\ state' = "FAULT" /\ fault' # "NONE" /\ FrameTruthful'
    BY <2>1, EnterFaultCuts DEF Faults
  <2> QED BY <1>2, <2>2, NoHeatSafe DEF FaultMatchesState
<1> QED BY <1>3, <1>4

LEMMA RetrySafe == TypeOK /\ Safe /\ RetryStep => Safe'
<1> SUFFICES ASSUME TypeOK, Safe, RetryStep PROVE Safe'
  OBVIOUS
<1>1. CASE ~ready /\ state # "RUNNING" /\ RetryInit
  <2>1. ~heater.on /\ heater.req = 0 /\ duty = 0
    BY <1>1, NoRunNoHeat
  <2>2. ~heater'.on /\ heater'.req = 0
    BY <1>1, <2>1 DEF RetryInit, HeaterReset
  <2> QED BY <1>1, <2>1, <2>2, NoHeatSafe DEF RetryStep, RetryDue, Safe, NoRunWithoutFrontEnd,
          FaultMatchesState, OvertempTrips, FrameTruthful, SampledThisPeriod, BootComesFirst, modeVars
<1>2. CASE UNCHANGED <<ready, heater, spike, since_sample, since_retry>>
  BY <1>2 DEF RetryStep, RetryDue, Safe, NoRunWithoutFrontEnd, FaultMatchesState, HeatOnlyInRun,
     OvertempTrips, FrameTruthful, RunIsActive, GateFollowsRequest, RequestIsAllowed,
     SampledThisPeriod, BootComesFirst, modeVars, Prof
<1> QED BY <1>1, <1>2 DEF RetryStep, RetryDue

LEMMA SampleSafe == TypeOK /\ Safe /\ SampleStep => Safe'
<1> SUFFICES ASSUME TypeOK, Safe, SampleStep PROVE Safe'
  OBVIOUS
<1>1. CASE ready /\ since_sample' = 0 /\ \E mc \in Readings : ReadingTaken(mc)
  <2>1. since_sample' < SampleMs
    BY <1>1, ControllerAssumption
  <2> QED BY <1>1, <2>1 DEF SampleStep, SampleDue, ReadingTaken, Safe, NoRunWithoutFrontEnd,
          FaultMatchesState, HeatOnlyInRun, OvertempTrips, FrameTruthful, RunIsActive,
          GateFollowsRequest, RequestIsAllowed, SampledThisPeriod, BootComesFirst
<1>2. CASE ready /\ since_sample' = 0 /\ ReadingLost
  <2>1. since_sample' < SampleMs /\ SampledThisPeriod'
    BY <1>2, ControllerAssumption DEF SampledThisPeriod
  <2>2. NoRunWithoutFrontEnd' /\ OvertempTrips' /\ BootComesFirst'
    BY <1>2 DEF SampleStep, SampleDue, ReadingLost, NoRunWithoutFrontEnd, OvertempTrips,
       BootComesFirst
  <2>3. CASE state = "RUNNING"
    <3>1. EnterFault("SENSOR")
      BY <1>2, <2>3 DEF ReadingLost
    <3>2. /\ ~heater'.on /\ heater'.req = 0 /\ duty' = 0
          /\ state' = "FAULT" /\ fault' # "NONE" /\ FrameTruthful'
      BY <3>1, EnterFaultCuts DEF Faults
    <3> QED BY <2>1, <2>2, <3>2, NoHeatSafe DEF FaultMatchesState
  <2>4. CASE state # "RUNNING"
    <3>1. UNCHANGED <<state, fault, duty, heater>>
      BY <1>2, <2>4 DEF ReadingLost, TypeOK
    <3>2. ~heater.on /\ heater.req = 0 /\ duty = 0
      BY <2>4, NoRunNoHeat
    <3>3. FrameTruthful'
      <4>1. CASE temp_valid
        BY <1>2, <2>4, <4>1, PublishTruthful DEF ReadingLost
      <4>2. CASE ~temp_valid
        BY <1>2, <2>4, <4>2 DEF ReadingLost, SampleStep, SampleDue, Safe, FrameTruthful
      <4> QED BY <4>1, <4>2 DEF TypeOK
    <3> QED BY <2>1, <2>2, <2>4, <3>1, <3>2, <3>3, NoHeatSafe DEF Safe, FaultMatchesState
  <2> QED BY <2>3, <2>4
<1>3. CASE /\ ~(ready /\ since_sample >= SampleMs)
           /\ UNCHANGED <<since_sample, readingVars, new_sample, state, fault, duty,
                          heater, chan>>
  <2>1. SampledThisPeriod'
    BY <1>3, ControllerAssumption DEF SampledThisPeriod, SampleStep, SampleDue, TypeOK
  <2> QED BY <1>3, <2>1 DEF SampleStep, SampleDue, Safe, NoRunWithoutFrontEnd, FaultMatchesState,
          HeatOnlyInRun, OvertempTrips, FrameTruthful, RunIsActive, GateFollowsRequest,
          RequestIsAllowed, BootComesFirst, readingVars
<1> QED BY <1>1, <1>2, <1>3 DEF SampleStep, SampleDue

LEMMA JudgeSafe == TypeOK /\ Safe /\ JudgeStep => Safe'
<1> SUFFICES ASSUME TypeOK, Safe, JudgeStep PROVE Safe'
  OBVIOUS
<1>1. CASE EnterFault("OVERTEMP")
  <2>1. /\ ~heater'.on /\ heater'.req = 0 /\ duty' = 0
        /\ state' = "FAULT" /\ fault' # "NONE" /\ FrameTruthful'
    BY <1>1, EnterFaultCuts DEF Faults
  <2> QED BY <2>1, NoHeatSafe DEF JudgeStep, BackstopTrips, Safe, NoRunWithoutFrontEnd, FaultMatchesState,
          OvertempTrips, SampledThisPeriod, BootComesFirst, readingVars, timeVars
<1>2. CASE /\ ~(temp_valid /\ state # "FAULT" /\ TooHot(AbsMax))
           /\ UNCHANGED <<heater, duty, state, fault, chan>>
  BY <1>2 DEF JudgeStep, BackstopTrips, Safe, NoRunWithoutFrontEnd, FaultMatchesState, HeatOnlyInRun,
     OvertempTrips, FrameTruthful, RunIsActive, GateFollowsRequest, RequestIsAllowed,
     SampledThisPeriod, BootComesFirst, readingVars, timeVars
<1> QED BY <1>1, <1>2 DEF JudgeStep, BackstopTrips, OvertempTripped

\* run_step(): what a run that goes on may request.
LEMMA DriveSafe ==
    ASSUME TypeOK, Safe, RunStep, state = "RUNNING", run'.result = "ACTIVE", DriveDuty
    PROVE  Safe'
<1>1. temp_valid /\ temp_valid' /\ ready /\ ready'
  BY DEF Safe, RunIsActive, RunStep, NoRunWithoutFrontEnd, readingVars, TypeOK
<1>2. ~TooHot(AbsMax)
  BY <1>1 DEF Safe, OvertempTrips, RunStep
<1>3. ~TooHot(Prof.abort)
  <2>1. run'.result = "ACTIVE" /\ run' = RunTick(run, Prof, dt, temp, temp_raw)
    BY DEF RunStep
  <2>2. run \in Runs /\ dt \in Nat /\ temp \in Int /\ temp_raw \in Int
    BY DEF TypeOK
  <2> QED BY <2>1, <2>2, RunTickType, ProfType DEF OvertempTripped
<1>4. duty' \in Permille
  BY ControllerAssumption DEF DriveDuty, TypeOK, Permille
<1>5. heater'.on = heater.on /\ (duty' = 0 => heater'.req = 0)
  BY <1>4, SetDutyType DEF DriveDuty, TypeOK
<1>6. ~HeaterAllowed(run', Prof) => ~(heater'.req > 0)
  BY <1>5 DEF DriveDuty
<1>7. Prof' = Prof /\ UNCHANGED <<temp, temp_raw, state, fault, chan, since_sample, profile_idx>>
  BY DEF Prof, RunStep, readingVars, DriveDuty, timeVars
<1>8. RequestIsAllowed'
  BY <1>2, <1>3, <1>6, <1>7 DEF RequestIsAllowed, HeaterAllowed
<1>9. HeatOnlyInRun' /\ RunIsActive' /\ NoRunWithoutFrontEnd' /\ GateFollowsRequest'
  BY <1>1, <1>7 DEF HeatOnlyInRun, RunIsActive, NoRunWithoutFrontEnd, GateFollowsRequest,
     RunStep
<1>10. FaultMatchesState' /\ FrameTruthful' /\ SampledThisPeriod' /\ BootComesFirst'
  BY <1>1, <1>7 DEF Safe, FaultMatchesState, FrameTruthful, SampledThisPeriod,
     BootComesFirst, RunStep
<1>11. OvertempTrips'
  BY <1>2, <1>7 DEF OvertempTrips
<1> QED BY <1>8, <1>9, <1>10, <1>11 DEF Safe

LEMMA RunSafe == TypeOK /\ Safe /\ RunStep => Safe'
<1> SUFFICES ASSUME TypeOK, Safe, RunStep PROVE Safe'
  OBVIOUS
<1>1. /\ NoRunWithoutFrontEnd \/ state = "RUNNING"
      /\ UNCHANGED <<ready, readingVars, timeVars>> /\ pc = "run" /\ pc' = "pwm"
  BY DEF RunStep, Safe
<1>2. SampledThisPeriod' /\ BootComesFirst'
  BY <1>1 DEF Safe, SampledThisPeriod, BootComesFirst, timeVars
<1>3. ASSUME state' # "RUNNING", state' = "FAULT" \/ state' = state
      PROVE  NoRunWithoutFrontEnd' /\ OvertempTrips'
  BY <1>1, <1>3 DEF Safe, NoRunWithoutFrontEnd, OvertempTrips, readingVars
<1>4. CASE state = "RUNNING" /\ run'.result = "ACTIVE" /\ DriveDuty
  BY <1>4, DriveSafe
<1>5. ASSUME NEW f \in Faults \ {"NONE"}, EnterFault(f) PROVE Safe'
  <2>1. /\ ~heater'.on /\ heater'.req = 0 /\ duty' = 0
        /\ state' = "FAULT" /\ fault' # "NONE" /\ FrameTruthful'
    BY <1>5, EnterFaultCuts
  <2> QED BY <1>2, <1>3, <2>1, NoHeatSafe DEF FaultMatchesState
<1>6. CASE state = "RUNNING" /\ StopRun("DONE")
  <2>1. /\ ~heater'.on /\ heater'.req = 0 /\ duty' = 0
        /\ state' = "DONE" /\ fault' = fault /\ FrameTruthful'
    BY <1>6, StopRunCuts DEF States
  <2>2. temp_valid /\ ~TooHot(AbsMax)
    BY <1>1, <1>6 DEF Safe, RunIsActive, OvertempTrips
  <2>3. NoRunWithoutFrontEnd' /\ OvertempTrips'
    BY <1>1, <2>1, <2>2 DEF Safe, NoRunWithoutFrontEnd, OvertempTrips, readingVars
  <2> QED BY <1>2, <1>6, <2>1, <2>3, NoHeatSafe DEF Safe, FaultMatchesState
<1>7. CASE state # "RUNNING"
  <2>1. /\ duty' = 0 /\ heater' = HeaterOff(heater)
        /\ UNCHANGED <<run, state, fault, chan, profile_idx>>
    BY <1>7 DEF RunStep
  <2>2. ~heater'.on /\ heater'.req = 0
    BY <2>1, HeaterOffType DEF TypeOK
  <2>3. FrameTruthful' /\ FaultMatchesState'
    BY <1>1, <2>1 DEF Safe, FrameTruthful, FaultMatchesState, readingVars
  <2> QED BY <1>2, <1>3, <1>7, <2>1, <2>2, <2>3, NoHeatSafe
<1>8. run' \in Runs \/ state # "RUNNING"
  BY RunTickType, ProfType DEF RunStep, TypeOK
<1>9. "OVERTEMP" \in Faults \ {"NONE"} /\ "TIMEOUT" \in Faults \ {"NONE"}
  BY DEF Faults
<1> QED BY <1>4, <1>5, <1>6, <1>7, <1>8, <1>9 DEF RunStep, Runs, RunResults

LEMMA PwmSafe == TypeOK /\ Safe /\ PwmStep => Safe'
<1> SUFFICES ASSUME TypeOK, Safe, PwmStep PROVE Safe'
  OBVIOUS
<1>1. /\ heater'.on => heater'.req > 0
      /\ heater'.req > 0 => heater.req > 0
  BY HeaterTickType DEF PwmStep, TypeOK
<1>2. HeatOnlyInRun' /\ GateFollowsRequest' /\ RequestIsAllowed'
  BY <1>1 DEF PwmStep, Safe, HeatOnlyInRun, GateFollowsRequest, RequestIsAllowed,
     modeVars, readingVars, Prof
<1> QED BY <1>2 DEF PwmStep, Safe, NoRunWithoutFrontEnd, FaultMatchesState, OvertempTrips,
        FrameTruthful, RunIsActive, SampledThisPeriod, BootComesFirst, modeVars,
        readingVars, timeVars

LEMMA PublishStepSafe == TypeOK /\ Safe /\ PublishStep => Safe'
<1> SUFFICES ASSUME TypeOK, Safe, PublishStep PROVE Safe'
  OBVIOUS
<1>1. FrameTruthful'
  BY PublishTruthful DEF PublishStep, Safe, FrameTruthful, modeVars, readingVars
<1> QED BY <1>1 DEF PublishStep, Safe, NoRunWithoutFrontEnd, FaultMatchesState,
        HeatOnlyInRun, OvertempTrips, RunIsActive, GateFollowsRequest, RequestIsAllowed,
        SampledThisPeriod, BootComesFirst, modeVars, readingVars, Prof

LEMMA WakeSafe == TypeOK /\ Safe /\ Wake => Safe'
BY DEF Wake, Safe, NoRunWithoutFrontEnd, FaultMatchesState, HeatOnlyInRun, OvertempTrips,
       FrameTruthful, RunIsActive, GateFollowsRequest, RequestIsAllowed,
       SampledThisPeriod, BootComesFirst, modeVars, readingVars, Prof

LEMMA HandleStartSafe == TypeOK /\ Safe /\ HandleStart => Safe'
<1> SUFFICES ASSUME TypeOK, Safe, HandleStart PROVE Safe'
  OBVIOUS
<1>1. CASE /\ state \notin {"FAULT", "RUNNING"} /\ temp_valid
           /\ run' = RunStart /\ state' = "RUNNING" /\ UNCHANGED fault /\ Publish
  <2>1. ~heater'.on /\ heater'.req = 0 /\ duty' = 0
    BY <1>1, NoRunNoHeat DEF HandleStart, StartAccepted
  <2>2. ~(heater'.req > 0) /\ ~(duty' > 0)
    BY <2>1
  <2>3. HeatOnlyInRun' /\ GateFollowsRequest' /\ RequestIsAllowed'
    BY <2>1, <2>2 DEF HeatOnlyInRun, GateFollowsRequest, RequestIsAllowed
  <2>4. RunIsActive' /\ FrameTruthful' /\ FaultMatchesState' /\ NoRunWithoutFrontEnd'
    BY <1>1, PublishTruthful DEF HandleStart, StartAccepted, Consume, Safe, RunIsActive, RunStart,
       FaultMatchesState, NoRunWithoutFrontEnd, readingVars
  <2>5. OvertempTrips' /\ SampledThisPeriod' /\ BootComesFirst'
    BY DEF HandleStart, StartAccepted, Consume, Safe, OvertempTrips, SampledThisPeriod,
       BootComesFirst, timeVars
  <2> QED BY <2>3, <2>4, <2>5 DEF Safe
<1>2. CASE UNCHANGED <<run, state, fault, chan>>
  BY <1>2 DEF HandleStart, StartAccepted, Consume, Safe, NoRunWithoutFrontEnd, FaultMatchesState,
     HeatOnlyInRun, OvertempTrips, FrameTruthful, RunIsActive, GateFollowsRequest,
     RequestIsAllowed, SampledThisPeriod, BootComesFirst, readingVars, timeVars, Prof
<1> QED BY <1>1, <1>2 DEF HandleStart, StartAccepted

LEMMA HandleStopSafe == TypeOK /\ Safe /\ HandleStop => Safe'
<1> SUFFICES ASSUME TypeOK, Safe, HandleStop PROVE Safe'
  OBVIOUS
<1>1. CASE state = "RUNNING" /\ StopRun("IDLE")
  <2>1. /\ ~heater'.on /\ heater'.req = 0 /\ duty' = 0
        /\ state' = "IDLE" /\ fault' = fault /\ FrameTruthful'
    BY <1>1, StopRunCuts DEF States
  <2> QED BY <1>1, <2>1, NoHeatSafe DEF HandleStop, Consume, Safe, NoRunWithoutFrontEnd,
          FaultMatchesState, OvertempTrips, SampledThisPeriod, BootComesFirst,
          readingVars, timeVars
<1>2. CASE UNCHANGED <<heater, duty, state, fault, chan>>
  BY <1>2 DEF HandleStop, Consume, Safe, NoRunWithoutFrontEnd, FaultMatchesState,
     HeatOnlyInRun, OvertempTrips, FrameTruthful, RunIsActive, GateFollowsRequest,
     RequestIsAllowed, SampledThisPeriod, BootComesFirst, readingVars, timeVars, Prof
<1> QED BY <1>1, <1>2 DEF HandleStop

\* A new profile changes the limits a request is judged by: outside a run there is none.
LEMMA HandleSelectSafe == TypeOK /\ Safe /\ HandleSelect => Safe'
<1> SUFFICES ASSUME TypeOK, Safe, HandleSelect PROVE Safe'
  OBVIOUS
<1>1. CASE state # "RUNNING" /\ UNCHANGED <<state, fault>> /\ Publish
  <2>1. ~heater'.on /\ heater'.req = 0 /\ duty' = 0
    BY <1>1, NoRunNoHeat DEF HandleSelect
  <2> QED BY <1>1, <2>1, PublishTruthful, NoHeatSafe DEF HandleSelect, Consume, Safe,
          NoRunWithoutFrontEnd, FaultMatchesState, OvertempTrips, SampledThisPeriod,
          BootComesFirst, readingVars, timeVars
<1>2. CASE UNCHANGED <<profile_idx, state, fault, chan>>
  BY <1>2 DEF HandleSelect, Consume, Safe, NoRunWithoutFrontEnd, FaultMatchesState,
     HeatOnlyInRun, OvertempTrips, FrameTruthful, RunIsActive, GateFollowsRequest,
     RequestIsAllowed, SampledThisPeriod, BootComesFirst, readingVars, timeVars, Prof
<1> QED BY <1>1, <1>2 DEF HandleSelect

LEMMA HandleClearSafe == TypeOK /\ Safe /\ HandleClear => Safe'
<1> SUFFICES ASSUME TypeOK, Safe, HandleClear PROVE Safe'
  OBVIOUS
<1>1. CASE state = "FAULT" /\ fault' = "NONE" /\ state' = "IDLE" /\ Publish
  <2>1. ~heater'.on /\ heater'.req = 0 /\ duty' = 0
    BY <1>1, NoRunNoHeat DEF HandleClear
  <2> QED BY <1>1, <2>1, PublishTruthful, NoHeatSafe DEF HandleClear, Consume, Safe,
          NoRunWithoutFrontEnd, FaultMatchesState, OvertempTrips, SampledThisPeriod,
          BootComesFirst, readingVars, timeVars
<1>2. CASE UNCHANGED <<fault, state, chan>>
  BY <1>2 DEF HandleClear, Consume, Safe, NoRunWithoutFrontEnd, FaultMatchesState,
     HeatOnlyInRun, OvertempTrips, FrameTruthful, RunIsActive, GateFollowsRequest,
     RequestIsAllowed, SampledThisPeriod, BootComesFirst, readingVars, timeVars, Prof
<1> QED BY <1>1, <1>2 DEF HandleClear

LEMMA PostSafe == ASSUME NEW cmd \in Commands PROVE Safe /\ Post(cmd) => Safe'
BY DEF Post, Safe, NoRunWithoutFrontEnd, FaultMatchesState, HeatOnlyInRun, OvertempTrips,
       FrameTruthful, RunIsActive, GateFollowsRequest, RequestIsAllowed,
       SampledThisPeriod, BootComesFirst, modeVars, readingVars, timeVars, Prof

LEMMA FatalSafe == TypeOK /\ Safe /\ FatalError => Safe'
<1> SUFFICES ASSUME TypeOK, Safe, FatalError PROVE Safe'
  OBVIOUS
<1>1. ~heater'.on /\ ~(heater'.req > 0)
  <2>1. heater'.req = 0 /\ ~heater'.on
    BY HeaterOffType DEF FatalError, TypeOK
  <2> QED BY <2>1
<1>2. HeatOnlyInRun' /\ GateFollowsRequest' /\ RequestIsAllowed'
  BY <1>1 DEF FatalError, Safe, HeatOnlyInRun, GateFollowsRequest, RequestIsAllowed,
     modeVars, readingVars
<1> QED BY <1>2 DEF FatalError, Safe, NoRunWithoutFrontEnd, FaultMatchesState,
        OvertempTrips, FrameTruthful, RunIsActive, SampledThisPeriod, BootComesFirst,
        modeVars, readingVars, timeVars

LEMMA StutterSafe == Safe /\ UNCHANGED vars => Safe'
BY DEF Safe, NoRunWithoutFrontEnd, FaultMatchesState, HeatOnlyInRun, OvertempTrips,
       FrameTruthful, RunIsActive, GateFollowsRequest, RequestIsAllowed,
       SampledThisPeriod, BootComesFirst, vars, modeVars, readingVars, timeVars, Prof

LEMMA NextSafe == TypeOK /\ Safe /\ [Next]_vars => Safe'
BY BootSafe, RetrySafe, SampleSafe, JudgeSafe, RunSafe, PwmSafe, PublishStepSafe,
   WakeSafe, HandleStartSafe, HandleStopSafe, HandleSelectSafe, HandleClearSafe,
   PostSafe, FatalSafe, StutterSafe DEF Next, ThreadStep, HandleCmd

\* The inductive invariant holds in every reachable state of the control loop.
THEOREM AlwaysSafe == Spec => [](TypeOK /\ Safe)
<1>1. Init => TypeOK /\ Safe
  BY InitType, InitSafe
<1>2. TypeOK /\ Safe /\ [Next]_vars => TypeOK' /\ Safe'
  BY NextType, NextSafe
<1> QED BY <1>1, <1>2, PTL DEF Spec

--------------------------------------------------------------------------------
(* What it means for the oven.                                                *)

\* The element is energised only in an active run with a valid temperature.
THEOREM HeatsOnlyInRun == Spec => []HeatOnlyInRun
<1>1. Safe => HeatOnlyInRun
  BY DEF Safe
<1> QED BY <1>1, AlwaysSafe, PTL

\* A gate left high by an iteration means a heating stage and both readings below
\* both limits.
THEOREM HeatsOnlyBelowLimits == Spec => []HeatOnlyBelowLimits
<1>1. TypeOK /\ Safe => HeatOnlyBelowLimits
  BY DEF Safe, HeatOnlyBelowLimits, GateFollowsRequest, RequestIsAllowed
<1> QED BY <1>1, AlwaysSafe, PTL

\* A gate left high by an iteration rests on a sample of the current period.
THEOREM HeatsOnFreshReading == Spec => []HeatOnFreshReading
<1>1. TypeOK /\ Safe => HeatOnFreshReading
  <2> SUFFICES ASSUME TypeOK, Safe, heater.on, pc \in {"publish", "sleep"}
               PROVE  since_sample < SampleMs
    BY DEF HeatOnFreshReading
  <2>1. state = "RUNNING"
    BY DEF Safe, HeatOnlyInRun
  <2>2. ready
    BY <2>1 DEF Safe, NoRunWithoutFrontEnd
  <2> QED BY <2>2 DEF Safe, SampledThisPeriod
<1> QED BY <1>1, AlwaysSafe, PTL

\* A sample at or above the limit, raw or filtered, always latches a fault.
THEOREM OvertempAlwaysTrips == Spec => []OvertempTrips
<1>1. Safe => OvertempTrips
  BY DEF Safe
<1> QED BY <1>1, AlwaysSafe, PTL

\* Without the front-end there is neither a run nor a believed reading.
THEOREM FrontEndGuardsRun == Spec => []NoRunWithoutFrontEnd
<1>1. Safe => NoRunWithoutFrontEnd
  BY DEF Safe
<1> QED BY <1>1, AlwaysSafe, PTL

\* The fault code and the latched state agree, and the channel tells the truth.
THEOREM StateAndFrameAgree == Spec => [](FaultMatchesState /\ FrameTruthful)
<1>1. Safe => FaultMatchesState /\ FrameTruthful
  BY DEF Safe
<1> QED BY <1>1, AlwaysSafe, PTL

\* On a lossless bus the last frame has the state, the fault and the profile.
THEOREM FramesTellTheTruth == Spec => []FrameTruthful
BY StateAndFrameAgree, PTL

\* Only CLEAR_FAULT leaves FAULT.
THEOREM FaultsStayLatched == Spec => OnlyClearUnlatches
<1>1. ASSUME TypeOK, [Next]_vars, state = "FAULT", state' # "FAULT"
      PROVE  pc = "sleep" /\ Head(cmd_q).id = "CLEAR_FAULT" /\ state' = "IDLE"
  <2>1. CASE HandleClear
    BY <1>1, <2>1 DEF HandleClear, Consume
  <2>2. CASE HandleStart \/ HandleStop \/ HandleSelect
    BY <1>1, <2>2 DEF HandleStart, StartAccepted, HandleStop, HandleSelect
  <2>3. CASE Boot \/ SampleStep \/ JudgeStep
    BY <1>1, <2>3 DEF Boot, SampleStep, SampleDue, JudgeStep, BackstopTrips, ReadingTaken, ReadingLost, EnterFault
  <2>4. CASE RunStep
    BY <1>1, <2>4 DEF RunStep
  <2>5. CASE RetryStep \/ PwmStep \/ PublishStep \/ Wake \/ FatalError
    BY <1>1, <2>5 DEF RetryStep, RetryDue, PwmStep, PublishStep, Wake, FatalError, modeVars
  <2>6. CASE \E cmd \in Commands : Post(cmd)
    BY <1>1, <2>6 DEF Post, modeVars
  <2>7. CASE UNCHANGED vars
    BY <1>1, <2>7 DEF vars, modeVars
  <2> QED BY <1>1, <2>1, <2>2, <2>3, <2>4, <2>5, <2>6, <2>7 DEF Next, ThreadStep, HandleCmd
<1>2. TypeOK /\ [Next]_vars
        => [state = "FAULT" /\ state' # "FAULT"
              => pc = "sleep" /\ Head(cmd_q).id = "CLEAR_FAULT" /\ state' = "IDLE"]_vars
  BY <1>1
<1> QED BY <1>2, TypeCorrect, PTL DEF Spec, OnlyClearUnlatches

\* The profile does not change under a run.
THEOREM RunKeepsProfile == Spec => ProfileFixedInRun
<1>1. ASSUME TypeOK, [Next]_vars, state = "RUNNING" PROVE profile_idx' = profile_idx
  <2>1. CASE HandleSelect
    BY <1>1, <2>1 DEF HandleSelect
  <2>2. CASE HandleStart \/ HandleStop \/ HandleClear
    BY <2>2 DEF HandleStart, StartAccepted, HandleStop, HandleClear
  <2>3. CASE Boot \/ SampleStep \/ JudgeStep \/ RunStep
    BY <2>3 DEF Boot, SampleStep, SampleDue, JudgeStep, BackstopTrips, RunStep
  <2>4. CASE RetryStep \/ PwmStep \/ PublishStep \/ Wake \/ FatalError
    BY <2>4 DEF RetryStep, RetryDue, PwmStep, PublishStep, Wake, FatalError, modeVars
  <2>5. CASE \E cmd \in Commands : Post(cmd)
    BY <2>5 DEF Post, modeVars
  <2>6. CASE UNCHANGED vars
    BY <2>6 DEF vars, modeVars
  <2> QED BY <1>1, <2>1, <2>2, <2>3, <2>4, <2>5, <2>6 DEF Next, ThreadStep, HandleCmd
<1>2. TypeOK /\ [Next]_vars => [state = "RUNNING" => profile_idx' = profile_idx]_vars
  BY <1>1
<1> QED BY <1>2, TypeCorrect, PTL DEF Spec, ProfileFixedInRun

\* A run begins by a START on a valid reading, with the element cut.
THEOREM RunsBeginCold == Spec => RunBeginsCold
<1> DEFINE Cold == /\ Head(cmd_q).id = "START" /\ temp_valid /\ state # "FAULT"
                   /\ ~heater'.on /\ heater'.req = 0 /\ duty' = 0
                   /\ run'.stage = 0 /\ run'.stage_ms = 0
<1>1. ASSUME TypeOK, Safe, [Next]_vars, state # "RUNNING", state' = "RUNNING"
      PROVE  Cold
  <2>1. CASE HandleStart
    <3>1. ~heater.on /\ heater.req = 0 /\ duty = 0
      BY <1>1, NoRunNoHeat
    <3> QED BY <1>1, <2>1, <3>1 DEF HandleStart, StartAccepted, Consume, RunStart
  <2>2. CASE HandleStop \/ HandleSelect \/ HandleClear
    BY <1>1, <2>2 DEF HandleStop, HandleSelect, HandleClear, StopRun
  <2>3. CASE Boot \/ SampleStep \/ JudgeStep
    BY <1>1, <2>3 DEF Boot, SampleStep, SampleDue, JudgeStep, BackstopTrips, ReadingTaken, ReadingLost, EnterFault
  <2>4. CASE RunStep
    BY <1>1, <2>4 DEF RunStep
  <2>5. CASE RetryStep \/ PwmStep \/ PublishStep \/ Wake \/ FatalError
    BY <1>1, <2>5 DEF RetryStep, RetryDue, PwmStep, PublishStep, Wake, FatalError, modeVars
  <2>6. CASE \E cmd \in Commands : Post(cmd)
    BY <1>1, <2>6 DEF Post, modeVars
  <2>7. CASE UNCHANGED vars
    BY <1>1, <2>7 DEF vars, modeVars
  <2> QED BY <1>1, <2>1, <2>2, <2>3, <2>4, <2>5, <2>6, <2>7 DEF Next, ThreadStep, HandleCmd
<1>2. TypeOK /\ Safe /\ [Next]_vars
        => [state # "RUNNING" /\ state' = "RUNNING" => Cold]_vars
  BY <1>1
<1> QED BY <1>2, AlwaysSafe, PTL DEF Spec, RunBeginsCold

\* A sample hidden by the filter is counted by it.
THEOREM HiddenSamplesAreCounted == Spec => SuppressionIsCounted
<1>1. ASSUME TypeOK, [Next]_vars, new_sample', ~new_sample, temp' # temp_raw'
      PROVE  spike'.rejects = spike.rejects + 1
  <2>1. CASE SampleStep
    <3>1. PICK mc \in Readings : ReadingTaken(mc)
      BY <1>1, <2>1 DEF SampleStep, SampleDue, ReadingLost
    <3>2. mc \in Int /\ spike \in Spikes
      BY <1>1, <3>1, ControllerAssumption DEF TypeOK
    <3>3. /\ spike' = SpikeFilter(spike, mc).spike
          /\ temp' = SpikeFilter(spike, mc).out
          /\ temp_raw' = mc
      BY <3>1 DEF ReadingTaken
    <3>4. CASE Rejects(spike, mc)
      <4>1. SpikeFilter(spike, mc).spike = [spike EXCEPT !.rejects = @ + 1]
        BY <3>4 DEF SpikeFilter
      <4> QED BY <3>2, <3>3, <4>1 DEF Spikes
    <3>5. CASE ~Rejects(spike, mc)
      BY <1>1, <3>3, <3>5 DEF SpikeFilter
    <3> QED BY <3>4, <3>5
  <2>2. CASE HandleStart \/ HandleStop \/ HandleSelect \/ HandleClear
    BY <1>1, <2>2 DEF HandleStart, StartAccepted, HandleStop, HandleSelect, HandleClear, Consume, timeVars
  <2>3. CASE Boot \/ JudgeStep \/ RunStep \/ PwmStep \/ FatalError
    BY <1>1, <2>3 DEF Boot, JudgeStep, BackstopTrips, RunStep, PwmStep, FatalError, timeVars
  <2>4. CASE RetryStep \/ PublishStep \/ Wake
    BY <1>1, <2>4 DEF RetryStep, RetryDue, PublishStep, Wake
  <2>5. CASE \E cmd \in Commands : Post(cmd)
    BY <1>1, <2>5 DEF Post, timeVars
  <2>6. CASE UNCHANGED vars
    BY <1>1, <2>6 DEF vars, timeVars
  <2> QED BY <1>1, <2>1, <2>2, <2>3, <2>4, <2>5, <2>6 DEF Next, ThreadStep, HandleCmd
<1>2. TypeOK /\ [Next]_vars
        => [new_sample' /\ ~new_sample /\ temp' # temp_raw'
              => spike'.rejects = spike.rejects + 1]_vars
  BY <1>1
<1> QED BY <1>2, TypeCorrect, PTL DEF Spec, SuppressionIsCounted

--------------------------------------------------------------------------------
(* The refinement: every step of the thread, of a poster and of the fatal-error *)
(* handler is a move of OvenSafety, or moves nothing there.                     *)

LEMMA TripStep ==
    ASSUME TypeOK, state # "FAULT", pc # "halted", pc' # "halted",
           NEW f \in Faults \ {"NONE"}, EnterFault(f), UNCHANGED profile_idx
    PROVE  Oven!Trip
<1>1. state' = "FAULT" /\ fault' = f /\ heater'.on = FALSE
  BY DEF EnterFault, HeaterOff
<1>2. state \in {"IDLE", "RUNNING", "DONE"} /\ f \in {"SENSOR", "OVERTEMP", "TIMEOUT"}
  BY DEF TypeOK, States, Faults
<1> QED BY <1>1, <1>2 DEF Oven!Trip, Mode

LEMMA EndStep ==
    ASSUME TypeOK, state = "RUNNING", pc # "halted", pc' # "halted",
           NEW next \in {"IDLE", "DONE"}, StopRun(next), UNCHANGED profile_idx
    PROVE  Oven!End
BY DEF Oven!End, Mode, StopRun, HeaterOff

LEMMA RegulateStep ==
    ASSUME state = "RUNNING", pc # "halted", pc' # "halted", heater' \in Heaters,
           UNCHANGED <<state, fault, profile_idx>>
    PROVE  Oven!Regulate
BY DEF Oven!Regulate, Mode, Heaters

LEMMA StepImplements == TypeOK /\ TypeOK' /\ Safe /\ [Next]_vars => [Oven!Next]_(Oven!vars)
<1> SUFFICES ASSUME TypeOK, TypeOK', Safe, [Next]_vars, ~UNCHANGED Oven!vars PROVE Oven!Next
  OBVIOUS
<1>1. heater' \in Heaters
  BY DEF TypeOK
<1>2. state # "RUNNING" => heater.on = FALSE
  BY NoRunNoHeat DEF TypeOK, Heaters
<1>3. CASE Boot
  BY <1>3, TripStep DEF Boot, Oven!vars, Mode, Oven!Next, Faults, Safe, BootComesFirst
<1>4. CASE RetryStep \/ PublishStep \/ Wake \/ \E cmd \in Commands : Post(cmd)
  <2>1. UNCHANGED <<state, fault, profile_idx>> /\ pc # "halted" /\ pc' # "halted"
    BY <1>4 DEF RetryStep, PublishStep, Wake, Post, modeVars
  <2>2. CASE RetryStep
    <3>1. CASE RetryDue /\ RetryInit
      <4>1. heater' \in {heater, HeaterReset} /\ HeaterReset.on = FALSE /\ heater.on = FALSE
        BY <1>2, <3>1 DEF RetryInit, RetryDue, HeaterReset
      <4> QED BY <2>1, <4>1 DEF Oven!vars, Mode
    <3>2. CASE UNCHANGED heater
      BY <2>1, <3>2 DEF Oven!vars, Mode
    <3> QED BY <2>2, <3>1, <3>2 DEF RetryStep
  <2>3. CASE ~RetryStep
    BY <1>4, <2>1, <2>3 DEF PublishStep, Wake, Post, Oven!vars, Mode
  <2> QED BY <2>2, <2>3
<1>5. CASE SampleStep
  BY <1>5, TripStep DEF SampleStep, ReadingTaken, ReadingLost, Oven!vars, Mode, Oven!Next,
     Faults
<1>6. CASE JudgeStep
  BY <1>6, TripStep DEF JudgeStep, BackstopTrips, Oven!vars, Mode, Oven!Next, Faults
<1>7. CASE RunStep
  <2>1. pc # "halted" /\ pc' # "halted" /\ UNCHANGED profile_idx
    BY <1>7 DEF RunStep
  <2>2. CASE state # "RUNNING"
    <3>1. heater'.on = FALSE /\ heater.on = FALSE /\ UNCHANGED <<state, fault>>
      BY <1>2, <1>7, <2>2 DEF RunStep, HeaterOff
    <3> QED BY <2>1, <3>1 DEF Oven!vars, Mode
  <2>3. CASE state = "RUNNING" /\ DriveDuty
    BY <1>1, <2>1, <2>3, RegulateStep DEF DriveDuty, Oven!Next
  <2>4. CASE state = "RUNNING" /\ StopRun("DONE")
    BY <2>1, <2>4, EndStep DEF Oven!Next
  <2>5. CASE state = "RUNNING" /\ (EnterFault("OVERTEMP") \/ EnterFault("TIMEOUT"))
    BY <2>1, <2>5, TripStep DEF Oven!Next, Faults
  <2> QED BY <1>7, <2>2, <2>3, <2>4, <2>5 DEF RunStep, TypeOK, Runs, RunResults
<1>8. CASE PwmStep
  <2>1. pc # "halted" /\ pc' # "halted" /\ UNCHANGED <<state, fault, profile_idx>>
    BY <1>8 DEF PwmStep, modeVars
  <2>2. CASE state = "RUNNING"
    BY <1>1, <2>1, <2>2, RegulateStep DEF Oven!Next
  <2>3. CASE state # "RUNNING"
    <3>1. ~heater'.on
      BY <1>8, <2>3, PwmSafe, <2>1, NoRunNoHeatNext
    <3> QED BY <1>2, <2>1, <2>3, <3>1, <1>1 DEF Oven!vars, Mode, Heaters, TypeOK
  <2> QED BY <2>2, <2>3
<1>9. CASE HandleStart
  BY <1>2, <1>9 DEF HandleStart, StartAccepted, Consume, Oven!vars, Mode, Oven!Next, Oven!Begin,
     TypeOK, States
<1>10. CASE HandleStop
  BY <1>10, EndStep DEF HandleStop, Consume, Oven!vars, Mode, Oven!Next
<1>11. CASE HandleSelect
  <2>1. UNCHANGED <<state, fault, heater>> /\ pc # "halted" /\ pc' # "halted"
    BY <1>11 DEF HandleSelect, Consume
  <2>2. UNCHANGED profile_idx \/ state # "RUNNING"
    BY <1>11 DEF HandleSelect
  <2>3. state # "RUNNING" => Oven!Select
    BY <2>1 DEF Oven!Select, Mode, TypeOK, States
  <2> QED BY <2>1, <2>2, <2>3 DEF Oven!vars, Mode, Oven!Next
<1>12. CASE HandleClear
  BY <1>12 DEF HandleClear, Consume, Oven!vars, Mode, Oven!Next, Oven!Clear
<1>13. CASE FatalError
  BY <1>13 DEF FatalError, HeaterOff, modeVars, Oven!vars, Mode, Oven!Next, Oven!Halt, TypeOK,
     States
<1>14. CASE UNCHANGED vars
  BY <1>14 DEF vars, modeVars, Oven!vars, Mode
<1> QED BY <1>3, <1>4, <1>5, <1>6, <1>7, <1>8, <1>9, <1>10, <1>11, <1>12, <1>13, <1>14
        DEF Next, ThreadStep, HandleCmd

\* The control core implements the contract of the oven.
THEOREM ControllerRefinesOven == Spec => ImplementsOvenSafety
<1>1. Init => Oven!Init
  BY DEF Init, Oven!Init, Mode, HeaterReset
<1> QED BY <1>1, StepImplements, AlwaysSafe, PTL DEF Spec, Oven!Spec, ImplementsOvenSafety

--------------------------------------------------------------------------------
(* The refinement of CommandedOven: what the clients of the queue rely on.      *)

Working == {"boot", "retry", "sample", "judge", "run"}

LEMMA ThreadSeen ==
    /\ pc = "halted" => Thread = "halted"
    /\ pc = "sleep" => Thread = "sleep"
    /\ pc \in Working /\ state # "FAULT" => Thread = "work"
    /\ pc \in Working /\ state = "FAULT" => Thread = "settled"
    /\ pc \in {"pwm", "publish"} => Thread = "settled"
BY DEF Thread, Working

LEMMA ThreadSeenNext ==
    /\ pc' = "halted" => Thread' = "halted"
    /\ pc' = "sleep" => Thread' = "sleep"
    /\ pc' \in Working /\ state' # "FAULT" => Thread' = "work"
    /\ pc' \in Working /\ state' = "FAULT" => Thread' = "settled"
    /\ pc' \in {"pwm", "publish"} => Thread' = "settled"
BY DEF Thread, Working

LEMMA SeenUnchanged ==
    ASSUME UNCHANGED <<state, profile_idx>>
    PROVE  OvenSeen' = OvenSeen
BY DEF OvenSeen

LEMMA OnlyState ==
    ASSUME UNCHANGED profile_idx, NEW next, state' = next
    PROVE  OvenSeen' = [OvenSeen EXCEPT !.state = next]
BY DEF OvenSeen

\* A step of the work that completes the run or latches a fault.
LEMMA MoveSeen ==
    ASSUME pc \in Working, state # "FAULT", UNCHANGED <<profile_idx, cmd_q>>,
           NEW next \in {"DONE", "FAULT"}, state' = next, state = "RUNNING" \/ next = "FAULT",
           pc' = "pwm" \/ (pc' \in Working /\ next = "FAULT")
    PROVE  Commanded!Move
<1>1. Thread = "work" /\ Thread' = "settled"
  BY ThreadSeen, ThreadSeenNext
<1>2. OvenSeen' = [OvenSeen EXCEPT !.state = next] /\ OvenSeen.state = state
  BY OnlyState DEF OvenSeen
<1> QED BY <1>1, <1>2 DEF Commanded!Move

\* A step of the work that changes nothing a client sees.
LEMMA QuietSeen ==
    ASSUME pc \in Working, UNCHANGED <<state, profile_idx, cmd_q>>,
           pc' \in Working \cup {"pwm"}
    PROVE  UNCHANGED Commanded!vars \/ Commanded!Settle
<1>1. OvenSeen' = OvenSeen
  BY SeenUnchanged
<1>2. CASE pc' \in Working
  BY <1>1, <1>2, ThreadSeen, ThreadSeenNext DEF Commanded!vars
<1>3. CASE pc' = "pwm" /\ state = "FAULT"
  BY <1>1, <1>3, ThreadSeen, ThreadSeenNext DEF Commanded!vars
<1>4. CASE pc' = "pwm" /\ state # "FAULT"
  BY <1>1, <1>4, ThreadSeen, ThreadSeenNext DEF Commanded!Settle
<1> QED BY <1>2, <1>3, <1>4

\* A command leaves the oven in one of the outcomes of the contract.
LEMMA ServeSeen ==
    ASSUME NEW id, Consume(id), OvenSeen' \in Commanded!Outcomes(Head(cmd_q))
    PROVE  Commanded!Serve
BY ThreadSeen, ThreadSeenNext DEF Consume, Commanded!Serve

LEMMA CommandedStep == TypeOK /\ TypeOK' /\ Safe /\ [Next]_vars => [Commanded!Next]_(Commanded!vars)
<1> SUFFICES ASSUME TypeOK, TypeOK', Safe, [Next]_vars
             PROVE  Commanded!Next \/ UNCHANGED Commanded!vars
  OBVIOUS
<1> DEFINE c == Head(cmd_q)
<1>s. OvenSeen.state = state /\ OvenSeen.profile = profile_idx
  BY DEF OvenSeen
<1>1. ASSUME Boot PROVE Commanded!Move \/ UNCHANGED Commanded!vars \/ Commanded!Settle
  <2>1. state = "IDLE" /\ pc \in Working /\ pc' \in Working /\ UNCHANGED <<profile_idx, cmd_q>>
    BY <1>1 DEF Boot, Safe, BootComesFirst, Working
  <2>2. CASE state' = "FAULT"
    BY <2>1, <2>2, MoveSeen
  <2>3. CASE state' = state
    BY <2>1, <2>3, QuietSeen
  <2> QED BY <1>1, <2>2, <2>3 DEF Boot, EnterFault
<1>2. ASSUME RetryStep PROVE UNCHANGED Commanded!vars \/ Commanded!Settle
  <2>1. pc \in Working /\ pc' \in Working /\ UNCHANGED <<state, profile_idx, cmd_q>>
    BY <1>2 DEF RetryStep, modeVars, Working
  <2> QED BY <2>1, QuietSeen
<1>3. ASSUME SampleStep PROVE Commanded!Move \/ UNCHANGED Commanded!vars \/ Commanded!Settle
  <2>1. pc \in Working /\ pc' \in Working /\ UNCHANGED <<profile_idx, cmd_q>>
    BY <1>3 DEF SampleStep, Working
  <2>2. state' = state \/ (state = "RUNNING" /\ state' = "FAULT")
    BY <1>3 DEF SampleStep, ReadingTaken, ReadingLost, EnterFault
  <2>3. CASE state' = state
    BY <2>1, <2>3, QuietSeen
  <2>4. CASE state = "RUNNING" /\ state' = "FAULT"
    BY <2>1, <2>4, MoveSeen
  <2> QED BY <2>2, <2>3, <2>4
<1>4. ASSUME JudgeStep PROVE Commanded!Move \/ UNCHANGED Commanded!vars \/ Commanded!Settle
  <2>1. pc \in Working /\ pc' \in Working /\ UNCHANGED <<profile_idx, cmd_q>>
    BY <1>4 DEF JudgeStep, Working
  <2>2. state' = state \/ (state # "FAULT" /\ state' = "FAULT")
    BY <1>4 DEF JudgeStep, BackstopTrips, EnterFault
  <2>3. CASE state' = state
    BY <2>1, <2>3, QuietSeen
  <2>4. CASE state # "FAULT" /\ state' = "FAULT"
    BY <2>1, <2>4, MoveSeen
  <2> QED BY <2>2, <2>3, <2>4
<1>5. ASSUME RunStep PROVE Commanded!Move \/ UNCHANGED Commanded!vars \/ Commanded!Settle
  <2>1. pc \in Working /\ pc' = "pwm" /\ UNCHANGED <<profile_idx, cmd_q>>
    BY <1>5 DEF RunStep, Working
  <2>2. state' = state \/ (state = "RUNNING" /\ state' \in {"DONE", "FAULT"})
    <3>1. CASE state # "RUNNING"
      BY <1>5, <3>1 DEF RunStep
    <3>2. CASE state = "RUNNING"
      <4>1. run'.result \in RunResults
        BY DEF TypeOK, Runs
      <4>2. DriveDuty \/ StopRun("DONE") \/ EnterFault("OVERTEMP") \/ EnterFault("TIMEOUT")
        BY <1>5, <3>2, <4>1 DEF RunStep, RunResults
      <4> QED BY <3>2, <4>2 DEF DriveDuty, StopRun, EnterFault
    <3> QED BY <3>1, <3>2
  <2>3. CASE state' = state
    BY <2>1, <2>3, QuietSeen
  <2>4. CASE state = "RUNNING" /\ state' \in {"DONE", "FAULT"}
    BY <2>1, <2>4, MoveSeen
  <2> QED BY <2>2, <2>3, <2>4
<1>6. ASSUME PwmStep PROVE UNCHANGED Commanded!vars
  <2>1. pc = "pwm" /\ pc' = "publish" /\ UNCHANGED <<state, profile_idx, cmd_q>>
    BY <1>6 DEF PwmStep, modeVars
  <2> QED BY <2>1, ThreadSeen, ThreadSeenNext, SeenUnchanged DEF Commanded!vars
<1>7. ASSUME PublishStep PROVE Commanded!Sleep
  <2>1. pc = "publish" /\ pc' = "sleep" /\ UNCHANGED <<state, profile_idx, cmd_q>>
    BY <1>7 DEF PublishStep, modeVars
  <2> QED BY <2>1, ThreadSeen, ThreadSeenNext, SeenUnchanged DEF Commanded!Sleep
<1>8. ASSUME Wake PROVE Commanded!Wake
  <2>1. pc = "sleep" /\ pc' \in Working /\ UNCHANGED <<state, profile_idx, cmd_q>>
    BY <1>8 DEF Wake, modeVars, Working
  <2> QED BY <2>1, ThreadSeen, ThreadSeenNext, SeenUnchanged DEF Commanded!Wake
<1>9. ASSUME HandleStart PROVE Commanded!Serve
  <2>1. Consume("START") /\ c.id = "START" /\ UNCHANGED profile_idx
    BY <1>9 DEF HandleStart, Consume
  <2>2. state' = state \/ (state \in {"IDLE", "DONE"} /\ state' = "RUNNING")
    BY <1>9 DEF HandleStart, StartAccepted, TypeOK, States
  <2>3. OvenSeen' \in Commanded!Outcomes(c)
    <3>1. OvenSeen \in Commanded!Outcomes(c)
      BY <1>s, <2>1 DEF Commanded!Outcomes, Commanded!Selects
    <3>2. CASE state' = state
      BY <2>1, <3>1, <3>2, SeenUnchanged
    <3>3. CASE state \in {"IDLE", "DONE"} /\ state' = "RUNNING"
      <4>1. OvenSeen' = [OvenSeen EXCEPT !.state = "RUNNING"]
        BY <2>1, <3>3, OnlyState
      <4> QED BY <1>s, <2>1, <3>3, <4>1 DEF Commanded!Outcomes, Commanded!Selects
    <3> QED BY <2>2, <3>2, <3>3
  <2> QED BY <2>1, <2>3, ServeSeen
<1>10. ASSUME HandleStop PROVE Commanded!Serve
  <2>1. Consume("STOP") /\ c.id = "STOP" /\ UNCHANGED profile_idx
    BY <1>10 DEF HandleStop, Consume
  <2>2. OvenSeen' \in Commanded!Outcomes(c)
    <3>1. CASE state = "RUNNING"
      <4>1. OvenSeen' = [OvenSeen EXCEPT !.state = "IDLE"]
        BY <1>10, <2>1, <3>1, OnlyState DEF HandleStop, StopRun
      <4> QED BY <1>s, <2>1, <3>1, <4>1 DEF Commanded!Outcomes, Commanded!Selects
    <3>2. CASE state # "RUNNING"
      <4>1. OvenSeen' = OvenSeen
        BY <1>10, <2>1, <3>2, SeenUnchanged DEF HandleStop
      <4> QED BY <1>s, <2>1, <3>2, <4>1 DEF Commanded!Outcomes, Commanded!Selects
    <3> QED BY <3>1, <3>2
  <2> QED BY <2>1, <2>2, ServeSeen
<1>11. ASSUME HandleSelect PROVE Commanded!Serve
  <2>1. Consume("SELECT_PROFILE") /\ c.id = "SELECT_PROFILE" /\ UNCHANGED state
    BY <1>11 DEF HandleSelect, Consume
  <2>2. OvenSeen' \in Commanded!Outcomes(c)
    <3>1. CASE state # "RUNNING" /\ c.arg % 256 \in ProfileIdx
      <4>1. profile_idx' = c.arg % 256
        BY <1>11, <3>1 DEF HandleSelect
      <4>2. OvenSeen' = [OvenSeen EXCEPT !.profile = c.arg % 256]
        BY <2>1, <4>1 DEF OvenSeen
      <4> QED BY <1>s, <2>1, <3>1, <4>2 DEF Commanded!Outcomes, Commanded!Selects
    <3>2. CASE ~(state # "RUNNING" /\ c.arg % 256 \in ProfileIdx)
      <4>1. profile_idx' = profile_idx
        BY <1>11, <3>2 DEF HandleSelect
      <4>2. OvenSeen' = OvenSeen
        BY <2>1, <4>1, SeenUnchanged
      <4> QED BY <1>s, <2>1, <3>2, <4>2 DEF Commanded!Outcomes, Commanded!Selects
    <3> QED BY <3>1, <3>2
  <2> QED BY <2>1, <2>2, ServeSeen
<1>12. ASSUME HandleClear PROVE Commanded!Serve
  <2>1. Consume("CLEAR_FAULT") /\ c.id = "CLEAR_FAULT" /\ UNCHANGED profile_idx
    BY <1>12 DEF HandleClear, Consume
  <2>2. OvenSeen' \in Commanded!Outcomes(c)
    <3>1. CASE state = "FAULT"
      <4>1. OvenSeen' = [OvenSeen EXCEPT !.state = "IDLE"]
        BY <1>12, <2>1, <3>1, OnlyState DEF HandleClear
      <4> QED BY <1>s, <2>1, <3>1, <4>1 DEF Commanded!Outcomes, Commanded!Selects
    <3>2. CASE state # "FAULT"
      <4>1. OvenSeen' = OvenSeen
        BY <1>12, <2>1, <3>2, SeenUnchanged DEF HandleClear
      <4> QED BY <1>s, <2>1, <3>2, <4>1 DEF Commanded!Outcomes, Commanded!Selects
    <3> QED BY <3>1, <3>2
  <2> QED BY <2>1, <2>2, ServeSeen
<1>13. ASSUME NEW cmd \in Commands, Post(cmd) PROVE Commanded!Next
  <2>1. /\ pc # "halted" /\ Len(cmd_q) < QueueDepth /\ cmd_q' = Append(cmd_q, cmd)
        /\ UNCHANGED <<pc, state, profile_idx>>
    BY <1>13 DEF Post, modeVars
  <2>2. Thread # "halted" /\ Thread' = Thread
    BY <2>1, ThreadSeen, ThreadSeenNext DEF TypeOK, Working
  <2>3. Commanded!Post(cmd)
    BY <2>1, <2>2, SeenUnchanged DEF Commanded!Post
  <2> QED BY <2>3 DEF Commanded!Next, Commanded!Commands, Commands
<1>14. ASSUME FatalError PROVE Commanded!Halt
  <2>1. pc # "halted" /\ pc' = "halted" /\ UNCHANGED <<state, profile_idx, cmd_q>>
    BY <1>14 DEF FatalError, modeVars
  <2>2. Thread # "halted"
    BY <2>1, ThreadSeen DEF TypeOK, Working
  <2> QED BY <2>1, <2>2, ThreadSeenNext, SeenUnchanged DEF Commanded!Halt
<1>15. ASSUME UNCHANGED vars PROVE UNCHANGED Commanded!vars
  BY <1>15 DEF vars, modeVars, Commanded!vars, Thread, OvenSeen
<1> QED BY <1>1, <1>2, <1>3, <1>4, <1>5, <1>6, <1>7, <1>8, <1>9, <1>10, <1>11, <1>12, <1>13,
           <1>14, <1>15 DEF Next, ThreadStep, HandleCmd, Commanded!Next

\* To the clients of its queue the control core is the oven of CommandedOven, for every
\* profile table, timing, queue and bus.
THEOREM ControllerServesCommands == Spec => ImplementsCommandedOven
<1>1. Init => Commanded!Init
  BY DEF Init, Commanded!Init, Thread, OvenSeen
<1> QED BY <1>1, CommandedStep, AlwaysSafe, PTL DEF Spec, Commanded!Spec, ImplementsCommandedOven

--------------------------------------------------------------------------------
(* The control core as the caller of HeaterDriver.                              *)

LEMMA CallArithmetic ==
    /\ \A h, d : Calls!SetDuty(h, d) = SetDuty(h, d)
    /\ \A h : Calls!HeaterOff(h) = HeaterOff(h)
    /\ \A h, d, stale : Calls!HeaterTick(h, d, stale) = HeaterTick(h, d, stale)
    /\ Calls!HeaterReset = HeaterReset
    /\ Calls!Permille = Permille
<1>1. \A d : Calls!OnMs(d) = OnMs(d)
  BY DEF OnMs, Calls!OnMs
<1>2. \A d : Calls!Snap(d) = Snap(d) /\ Calls!ClampDuty(d) = ClampDuty(d)
  <2> TAKE d
  <2>1. Calls!ClampDuty(d) = ClampDuty(d)
    BY DEF ClampDuty, Calls!ClampDuty
  <2>2. Calls!OnMs(d) = OnMs(d) /\ Calls!OnMs(1000 - d) = OnMs(1000 - d)
    BY <1>1
  <2>3. Calls!Snap(d) = Snap(d)
    <3>1. CASE OnMs(d) < MinPulseMs
      BY <2>2, <3>1 DEF Snap, Calls!Snap
    <3>2. CASE ~(OnMs(d) < MinPulseMs) /\ OnMs(1000 - d) < MinPulseMs
      BY <2>2, <3>2 DEF Snap, Calls!Snap
    <3>3. CASE ~(OnMs(d) < MinPulseMs) /\ ~(OnMs(1000 - d) < MinPulseMs)
      BY <2>2, <3>3 DEF Snap, Calls!Snap
    <3> QED BY <3>1, <3>2, <3>3
  <2> QED BY <2>1, <2>3
<1>3. \A phi, d : Calls!NextPhase(phi, d) = NextPhase(phi, d)
  BY DEF NextPhase, Calls!NextPhase
<1>4. \A h : Calls!HeaterOff(h) = HeaterOff(h)
  BY DEF HeaterOff, Calls!HeaterOff
<1>5. \A h, d : Calls!SetDuty(h, d) = SetDuty(h, d)
  BY <1>2 DEF SetDuty, Calls!SetDuty
<1>6. \A h, d, stale : Calls!HeaterTick(h, d, stale) = HeaterTick(h, d, stale)
  BY <1>1, <1>3, <1>4 DEF HeaterTick, Calls!HeaterTick
<1>7. Calls!HeaterReset = HeaterReset /\ Calls!Permille = Permille
  BY DEF HeaterReset, Calls!HeaterReset, Permille, Calls!Permille
<1> QED BY <1>4, <1>5, <1>6, <1>7

\* A tick is given the time since the last iteration, and none in the first.
DtIsTick == dt \in Ticks \cup {0}

LEMMA DtIsTickStep == DtIsTick /\ [Next]_vars => DtIsTick'
BY DEF DtIsTick, Next, ThreadStep, HandleCmd, vars, timeVars, Boot, RetryStep, SampleStep,
       JudgeStep, RunStep, PwmStep, PublishStep, Wake, HandleStart, HandleStop, HandleSelect,
       HandleClear, Consume, Post, FatalError

LEMMA CallStep == TypeOK /\ TypeOK' /\ DtIsTick /\ [Next]_vars => [Calls!Next]_(Calls!vars)
<1> SUFFICES ASSUME TypeOK, TypeOK', DtIsTick, [Next]_vars
             PROVE  Calls!Next \/ UNCHANGED Calls!vars
  OBVIOUS
<1> DEFINE Awake == pc # "halted" /\ pc' # "halted"
           Called == heater' = heater \/ heater' = HeaterReset \/ heater' = HeaterOff(heater)
<1>1. ASSUME Awake, Called PROVE Calls!Next \/ UNCHANGED Calls!vars
  BY <1>1, CallArithmetic DEF Calls!Next, Calls!Call, Calls!Reset, Calls!Off, Calls!vars
<1>2. ASSUME Boot \/ RetryStep \/ SampleStep \/ JudgeStep \/ PublishStep \/ Wake
      PROVE  Awake /\ Called
  BY <1>2 DEF Boot, EnterFault, RetryStep, RetryInit, SampleStep, ReadingTaken, ReadingLost,
              JudgeStep, PublishStep, Wake
<1>3. ASSUME RunStep PROVE Calls!Next \/ UNCHANGED Calls!vars
  <2>1. Awake
    BY <1>3 DEF RunStep
  <2>2. CASE DriveDuty
    <3>1. heater' = SetDuty(heater, duty') /\ duty' \in Permille
      BY <2>2 DEF DriveDuty, TypeOK
    <3> QED BY <2>1, <3>1, CallArithmetic DEF Calls!Next, Calls!Call, Calls!Request
  <2>3. CASE ~DriveDuty
    <3>1. run'.result \in RunResults
      BY DEF TypeOK, Runs
    <3>2. heater' = HeaterOff(heater)
      BY <1>3, <2>3, <3>1 DEF RunStep, RunResults, StopRun, EnterFault
    <3> QED BY <1>1, <2>1, <3>2
  <2> QED BY <2>2, <2>3
<1>4. ASSUME PwmStep PROVE Calls!Next
  <2>1. pc # "halted" /\ pc' # "halted"
    BY <1>4 DEF PwmStep
  <2>2. PICK stale \in BOOLEAN : heater' = HeaterTick(heater, dt, stale)
    BY <1>4 DEF PwmStep
  <2>3. heater' = Calls!HeaterTick(heater, dt, stale) /\ dt \in Ticks \cup {0}
    BY <2>2, CallArithmetic DEF DtIsTick
  <2> QED BY <2>1, <2>3 DEF Calls!Next, Calls!Call, Calls!Tick
<1>5. ASSUME HandleCmd PROVE Awake /\ Called
  BY <1>5 DEF HandleCmd, HandleStart, HandleStop, StopRun, HandleSelect, HandleClear, Consume
<1>6. ASSUME NEW cmd \in Commands, Post(cmd) PROVE Awake /\ Called
  BY <1>6 DEF Post
<1>7. ASSUME FatalError PROVE Calls!Next
  BY <1>7, CallArithmetic DEF FatalError, Calls!Next, Calls!Halt, Calls!Off
<1>8. ASSUME UNCHANGED vars PROVE UNCHANGED Calls!vars
  BY <1>8 DEF vars, Calls!vars
<1> QED BY <1>1, <1>2, <1>3, <1>4, <1>5, <1>6, <1>7, <1>8 DEF Next, ThreadStep

\* The control core touches the driver by its calls only, one at a time.
THEOREM ControllerCallsDriver == Spec => OnlyCallsDriver
<1>1. Init => Calls!Init /\ DtIsTick
  BY CallArithmetic DEF Init, Calls!Init, DtIsTick
<1> QED BY <1>1, DtIsTickStep, CallStep, TypeCorrect, PTL DEF Spec, Calls!Spec, OnlyCallsDriver
================================================================================
