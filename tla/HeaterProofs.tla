------------------------------ MODULE HeaterProofs ------------------------------
(***************************************************************************)
(* Proofs that the relay driver keeps its gate, its record and the age of  *)
(* its request together, for every window, pulse, stale time, gap between  *)
(* ticks and set of requests.                                              *)
(***************************************************************************)
EXTENDS Heater, TLAPS

--------------------------------------------------------------------------------
(* What the operators of the relay window return.                             *)

\* Whatever is requested, the request in force is a duty, and none is never turned
\* into one.
LEMMA SetDutyAny ==
    ASSUME NEW h \in Heaters, NEW d \in Nat
    PROVE  /\ SetDuty(h, d) \in Heaters
           /\ SetDuty(h, d).on = h.on
           /\ SetDuty(h, d).phase = h.phase
           /\ d = 0 => SetDuty(h, d).req = 0
<1>1. ClampDuty(d) \in Permille /\ (d = 0 => ClampDuty(d) = 0)
  BY DEF ClampDuty, Permille
<1>2. Snap(ClampDuty(d)) \in Permille
  BY <1>1 DEF Snap, Permille
<1>3. Snap(0) = 0
  <2>1. OnMs(0) = 0 /\ OnMs(1000) = WindowMs
    BY SlowPwmAssumption DEF OnMs
  <2> QED BY <2>1, SlowPwmAssumption DEF Snap
<1> QED BY <1>1, <1>2, <1>3 DEF SetDuty, Heaters

\* Switched off, nothing is requested and the window stays where it is.
LEMMA HeaterOffType ==
    ASSUME NEW h \in Heaters
    PROVE  /\ HeaterOff(h) \in Heaters
           /\ HeaterOff(h).req = 0
           /\ HeaterOff(h).phase = h.phase
           /\ ~HeaterOff(h).on
BY DEF HeaterOff, Heaters, Permille

\* A tick leaves the gate high only if a duty is requested.
LEMMA HeaterTickType ==
    ASSUME NEW h \in Heaters, NEW d \in Nat, NEW stale \in BOOLEAN
    PROVE  /\ HeaterTick(h, d, stale) \in Heaters
           /\ HeaterTick(h, d, stale).on => HeaterTick(h, d, stale).req > 0
           /\ HeaterTick(h, d, stale).req > 0 => HeaterTick(h, d, stale).req = h.req
<1>1. NextPhase(h.phase, d) \in Nat
  <2>1. h.phase + d \in Nat
    BY DEF Heaters
  <2>2. (h.phase + d) % WindowMs \in Nat
    BY <2>1, SlowPwmAssumption
  <2> QED BY <2>1, <2>2 DEF NextPhase
<1>2. OnMs(0) = 0
  BY SlowPwmAssumption DEF OnMs
<1>3. (NextPhase(h.phase, d) < OnMs(h.req)) => h.req > 0
  <2> SUFFICES ASSUME NextPhase(h.phase, d) < OnMs(h.req) PROVE h.req > 0
    OBVIOUS
  <2>1. h.req # 0
    BY <1>1, <1>2
  <2>2. h.req \in Nat
    BY DEF Heaters, Permille
  <2> QED BY <2>1, <2>2
<1>4. CASE stale
  <2>1. HeaterTick(h, d, stale) = HeaterOff(h)
    BY <1>4 DEF HeaterTick
  <2>2. ~HeaterOff(h).on /\ ~(HeaterOff(h).req > 0)
    BY HeaterOffType
  <2> QED BY <2>1, <2>2, HeaterOffType
<1>5. CASE ~stale
  <2> DEFINE high == NextPhase(h.phase, d) < OnMs(h.req)
  <2>1. HeaterTick(h, d, stale)
          = [req |-> h.req, phase |-> NextPhase(h.phase, d), on |-> high]
    BY <1>5 DEF HeaterTick
  <2>2. high \in BOOLEAN /\ h.req \in Permille
    BY DEF Heaters
  <2>3. high => h.req > 0
    BY <1>3
  <2> HIDE DEF high
  <2> QED BY <2>1, <2>2, <2>3, <1>1 DEF Heaters
<1> QED BY <1>4, <1>5

\* The window never runs past its end.
LEMMA HeaterTickPhase ==
    ASSUME NEW h \in Heaters, h.phase < WindowMs, NEW d \in Nat, NEW stale \in BOOLEAN
    PROVE  HeaterTick(h, d, stale).phase < WindowMs
<1>1. h.phase + d \in Nat
  BY DEF Heaters
<1>2. (h.phase + d) % WindowMs < WindowMs
  BY <1>1, SlowPwmAssumption
<1>3. NextPhase(h.phase, d) < WindowMs
  BY <1>1, <1>2, SlowPwmAssumption DEF NextPhase
<1> QED BY <1>3 DEF HeaterTick, HeaterOff

--------------------------------------------------------------------------------
(* The inductive invariant.                                                   *)

\* Before the safe init nothing is driven; without a port the gate is never claimed;
\* what is not claimed is neither requested nor recorded as on.
Unclaimed ==
    /\ phase = "reset" => ~Claimed /\ ~driving
    /\ ~gpio => ~Claimed
    /\ ~Claimed => ~heater.on /\ heater.req = 0 /\ ~driving

\* Inside drive() the pin is one write ahead of its record, outside they agree.
RecordFollowsPin ==
    phase = "up" /\ Claimed => ((pin = "HIGH") <=> IF driving THEN ~heater.on ELSE heater.on)

\* A high gate was confirmed by a tick at which its request was not stale.
ConfirmedByTick ==
    /\ since_tick <= MaxGap
    /\ pin = "HIGH" => age <= StaleMs + since_tick

IInv == TypeOK /\ Unclaimed /\ RecordFollowsPin /\ HaltedIsCold /\ ConfirmedByTick

--------------------------------------------------------------------------------

LEMMA OlderType ==
    ASSUME NEW t \in 0 .. Horizon
    PROVE  Older(t) \in 0 .. Horizon /\ Older(t) <= t + 1
BY HeaterAssumption DEF Older

\* A step of the clock that is not cut short by the bound: the bound lies beyond every
\* gap.
LEMMA OlderWithinGap ==
    ASSUME NEW t \in 0 .. Horizon, t < MaxGap
    PROVE  Older(t) = t + 1
BY HeaterAssumption DEF Older

\* With no request there is no pulse.
LEMMA NoRequestNoPulse ==
    ASSUME NEW h \in Heaters, h.req = 0, NEW d \in Nat, NEW stale \in BOOLEAN
    PROVE  ~HeaterTick(h, d, stale).on /\ HeaterTick(h, d, stale).req = 0
<1> DEFINE next == HeaterTick(h, d, stale)
<1>1. /\ next \in Heaters
      /\ next.on => next.req > 0
      /\ next.req > 0 => next.req = h.req
  BY HeaterTickType
<1> HIDE DEF next
<1>2. next.req \in Permille
  BY <1>1 DEF Heaters
<1>3. ~(next.req > 0)
  BY <1>1, <1>2 DEF Permille
<1>4. next.req = 0 /\ ~next.on
  BY <1>1, <1>2, <1>3 DEF Permille
<1> QED BY <1>4 DEF next

LEMMA StaleTickIsOff ==
    ASSUME NEW h \in Heaters, NEW d \in Nat
    PROVE  ~HeaterTick(h, d, TRUE).on
BY HeaterOffType DEF HeaterTick

LEMMA WindowResetType ==
    ASSUME NEW req \in Permille
    PROVE  WindowReset(req) \in Windows
BY DEF WindowReset, Windows

LEMMA WindowCutType ==
    ASSUME TypeOK
    PROVE  WindowCut \in Windows
BY DEF TypeOK, WindowCut, Windows, Permille

\* The larger and the smaller of two duties.
LEMMA ExtremesType ==
    ASSUME NEW a \in Permille, NEW b \in Permille
    PROVE  Max({a, b}) \in Permille /\ Min({a, b}) \in Permille
<1>1. PICK m \in {a, b} : \A y \in {a, b} : m >= y
  BY DEF Permille
<1>2. PICK n \in {a, b} : \A y \in {a, b} : n <= y
  BY DEF Permille
<1>3. Max({a, b}) \in {a, b}
  BY <1>1 DEF Max
<1>4. Min({a, b}) \in {a, b}
  BY <1>2 DEF Min
<1> QED BY <1>3, <1>4

\* Entering drive() with a well-typed next state of the driver.
LEMMA DriveType ==
    ASSUME TypeOK, NEW next \in Heaters, next.phase < WindowMs, Drive(next)
    PROVE  /\ heater' \in Heaters /\ heater'.phase < WindowMs
           /\ heater'.on = heater.on /\ heater'.req = next.req
           /\ driving' \in BOOLEAN /\ pin' \in Pins
<1>1. heater.on \in BOOLEAN
  BY DEF TypeOK, Heaters
<1>2. heater' = [req |-> next.req, phase |-> next.phase, on |-> heater.on]
  BY DEF Drive, Heaters
<1>3. Level(next.on) \in Pins
  BY DEF Level, Pins
<1> QED BY <1>1, <1>2, <1>3 DEF Drive, Heaters, TypeOK

--------------------------------------------------------------------------------
(* Type correctness.                                                          *)

LEMMA InitType == Init => TypeOK
<1> SUFFICES ASSUME Init PROVE TypeOK
  OBVIOUS
<1>1. heater \in Heaters /\ heater.phase < WindowMs
  BY SlowPwmAssumption DEF Init, HeaterReset, Heaters, Permille
<1>2. window \in Windows
  BY WindowResetType DEF Init, Permille
<1>3. age \in 0 .. Horizon /\ since_tick \in 0 .. Horizon
  BY HeaterAssumption DEF Init
<1> QED BY <1>1, <1>2, <1>3 DEF Init, TypeOK, Pins

LEMMA NextType == TypeOK /\ [Next]_vars => TypeOK'
<1> SUFFICES ASSUME TypeOK, [Next]_vars PROVE TypeOK'
  OBVIOUS
<1>1. HeaterReset \in Heaters /\ HeaterReset.phase < WindowMs
  BY SlowPwmAssumption DEF HeaterReset, Heaters, Permille
<1>2. 0 \in 0 .. Horizon /\ 0 \in Permille
  BY HeaterAssumption DEF Permille
<1>3. CASE SafeInit
  BY <1>3 DEF TypeOK, SafeInit, Pins
<1>4. CASE HeaterInit
  BY <1>4, <1>1, <1>2, WindowResetType DEF TypeOK, HeaterInit, Pins
<1>5. ASSUME NEW d \in Requests, SetDutyCall(d)
      PROVE  TypeOK'
  <2>1. d \in Nat /\ heater \in Heaters
    BY HeaterAssumption DEF TypeOK
  <2>2. heater' \in Heaters /\ heater'.phase < WindowMs
    BY <1>5, <2>1, SetDutyAny DEF TypeOK, SetDutyCall
  <2> QED BY <1>5, <2>2, <1>2 DEF TypeOK, SetDutyCall
<1>6. CASE OffCall
  <2>1. HeaterOff(heater) \in Heaters /\ HeaterOff(heater).phase < WindowMs
    BY HeaterOffType DEF TypeOK
  <2>2. heater' \in Heaters /\ heater'.phase < WindowMs /\ driving' \in BOOLEAN /\ pin' \in Pins
    BY <1>6, <2>1, DriveType DEF OffCall
  <2>3. window' \in Windows
    BY <1>6, WindowCutType DEF OffCall
  <2> QED BY <1>6, <2>2, <2>3, <1>2 DEF TypeOK, OffCall
<1>7. CASE TickCall
  <2> DEFINE next == HeaterTick(heater, since_tick, age > StaleMs)
  <2>1. since_tick \in Nat /\ (age > StaleMs) \in BOOLEAN
    BY HeaterAssumption DEF TypeOK
  <2>2. next \in Heaters /\ next.phase < WindowMs
    BY <2>1, HeaterTickType, HeaterTickPhase DEF TypeOK
  <2>3. Drive(next)
    BY <1>7 DEF TickCall
  <2>4. next.req \in Permille /\ window.most \in Permille /\ window.least \in Permille
    BY <2>2 DEF TypeOK, Heaters, Windows
  <2>5. window' = IF age > StaleMs THEN WindowReset(0)
                  ELSE IF next.phase < heater.phase THEN WindowReset(next.req)
                  ELSE [window EXCEPT !.most = Max({@, next.req}), !.least = Min({@, next.req})]
    BY <1>7 DEF TickCall
  <2> HIDE DEF next
  <2>6. heater' \in Heaters /\ heater'.phase < WindowMs /\ driving' \in BOOLEAN /\ pin' \in Pins
    BY <2>2, <2>3, DriveType
  <2>7. Max({window.most, next.req}) \in Permille /\ Min({window.least, next.req}) \in Permille
    BY <2>4, ExtremesType
  <2>8. window' \in Windows
    <3>1. WindowReset(0) \in Windows /\ WindowReset(next.req) \in Windows
      BY <1>2, <2>4, WindowResetType
    <3>2. [window EXCEPT !.most = Max({@, next.req}), !.least = Min({@, next.req})] \in Windows
      BY <2>7 DEF TypeOK, Windows
    <3> QED BY <2>5, <3>1, <3>2
  <2> QED BY <1>7, <2>6, <2>8, <1>2 DEF TypeOK, TickCall
<1>8. CASE DriveDone
  BY <1>8 DEF TypeOK, DriveDone, Heaters
<1>9. CASE Pass
  <2>1. window' \in Windows
    BY <1>9 DEF TypeOK, Pass, Windows
  <2> QED BY <1>9, <2>1, OlderType DEF TypeOK, Pass
<1>10. CASE EmergencyOff
  <2>1. heater' \in Heaters /\ heater'.phase < WindowMs
    BY <1>10, HeaterOffType DEF TypeOK, EmergencyOff
  <2> QED BY <1>10, <2>1 DEF TypeOK, EmergencyOff, Pins
<1>11. CASE UNCHANGED vars
  BY <1>11 DEF TypeOK, vars
<1> QED BY <1>3, <1>4, <1>5, <1>6, <1>7, <1>8, <1>9, <1>10, <1>11 DEF Next

\* Every variable of the driver keeps its type, whatever is requested.
THEOREM HeaterTypeCorrect == Spec => []TypeOK
BY InitType, NextType, PTL DEF Spec

--------------------------------------------------------------------------------
(* The record, the emergency cut and the age of what is driven.               *)

\* What drive() does to the pin, from a driver whose record is right.
LEMMA DrivePin ==
    ASSUME TypeOK, Unclaimed, RecordFollowsPin, Idle,
           NEW next \in Heaters, next.phase < WindowMs, Drive(next),
           ~Claimed => ~next.on /\ next.req = 0
    PROVE  /\ pin' # "FLOATING" <=> Claimed
           /\ pin' = "HIGH" <=> next.on
           /\ driving' => pin' # "FLOATING"
           /\ pin' # "FLOATING" =>
                ((pin' = "HIGH") <=> IF driving' THEN ~heater'.on ELSE heater'.on)
           /\ pin' = "FLOATING" => ~heater'.on /\ heater'.req = 0
<1>1. heater.on \in BOOLEAN /\ next.on \in BOOLEAN /\ pin \in Pins
  BY DEF TypeOK, Heaters
<1>2. heater'.on = heater.on /\ heater'.req = next.req
  BY DriveType
<1>3. ~driving /\ phase = "up"
  BY DEF Idle
<1>4. Claimed => (heater.on <=> pin = "HIGH")
  BY <1>3 DEF RecordFollowsPin
<1>5. ~Claimed => ~heater.on /\ ~next.on
  BY DEF Unclaimed
<1>6. CASE next.on = heater.on
  <2>1. pin' = pin /\ ~driving'
    BY <1>6 DEF Drive
  <2> QED BY <2>1, <1>1, <1>2, <1>4, <1>5, <1>6 DEF Claimed
<1>7. CASE next.on # heater.on
  <2>1. pin' = Level(next.on) /\ driving' /\ Claimed
    BY <1>5, <1>7, <1>1 DEF Drive
  <2> QED BY <2>1, <1>1, <1>2, <1>7 DEF Claimed, Level
<1> QED BY <1>6, <1>7

LEMMA InitIInv == Init => IInv
<1> SUFFICES ASSUME Init PROVE IInv
  OBVIOUS
<1>1. TypeOK
  BY InitType
<1>2. Unclaimed /\ RecordFollowsPin /\ HaltedIsCold
  BY DEF Init, Unclaimed, RecordFollowsPin, HaltedIsCold, Claimed, HeaterReset
<1>3. ConfirmedByTick
  BY HeaterAssumption DEF Init, ConfirmedByTick
<1> QED BY <1>1, <1>2, <1>3 DEF IInv

LEMMA NextIInv == IInv /\ [Next]_vars => IInv'
<1> SUFFICES ASSUME IInv, [Next]_vars PROVE IInv'
  OBVIOUS
<1>0. TypeOK /\ Unclaimed /\ RecordFollowsPin /\ HaltedIsCold /\ ConfirmedByTick
  BY DEF IInv
<1>t. TypeOK'
  BY <1>0, NextType
<1> DEFINE Rest == Unclaimed' /\ RecordFollowsPin' /\ HaltedIsCold' /\ ConfirmedByTick'
<1>1. ASSUME SafeInit PROVE Rest
  <2>1. ~Claimed /\ ~driving /\ ~heater.on /\ heater.req = 0
    BY <1>0, <1>1 DEF SafeInit, Unclaimed
  <2>2. pin' \in {"LOW", "FLOATING"} /\ (~gpio => pin' = "FLOATING")
    BY <1>1, <2>1 DEF SafeInit, Claimed
  <2> QED BY <1>0, <1>1, <2>1, <2>2 DEF SafeInit, Unclaimed, RecordFollowsPin, HaltedIsCold,
                                        ConfirmedByTick, Claimed
<1>2. ASSUME HeaterInit PROVE Rest
  <2>1. ~driving /\ phase = "up" /\ gpio
    BY <1>2 DEF HeaterInit, Idle
  <2> QED BY <1>0, <1>2, <2>1 DEF HeaterInit, Unclaimed, RecordFollowsPin, HaltedIsCold,
                                  ConfirmedByTick, Claimed, HeaterReset
<1>3. ASSUME NEW d \in Requests, SetDutyCall(d)
      PROVE  Rest
  <2>1. heater'.on = heater.on
    BY <1>0, <1>3, HeaterAssumption, SetDutyAny DEF TypeOK, SetDutyCall
  <2>2. ~driving /\ phase = "up" /\ Claimed
    BY <1>3 DEF SetDutyCall, Idle
  <2>3. Unclaimed' /\ RecordFollowsPin' /\ HaltedIsCold'
    BY <1>0, <1>3, <2>1, <2>2 DEF SetDutyCall, Unclaimed, RecordFollowsPin, HaltedIsCold, Claimed
  <2>4. ConfirmedByTick'
    BY <1>0, <1>3, HeaterAssumption DEF SetDutyCall, ConfirmedByTick, TypeOK
  <2> QED BY <2>3, <2>4
<1>4. ASSUME OffCall PROVE Rest
  <2>1. HeaterOff(heater) \in Heaters /\ HeaterOff(heater).phase < WindowMs
        /\ ~HeaterOff(heater).on /\ HeaterOff(heater).req = 0
    BY <1>0, HeaterOffType DEF TypeOK
  <2>2. Idle /\ Drive(HeaterOff(heater))
    BY <1>4 DEF OffCall
  <2>3. /\ pin' # "FLOATING" <=> Claimed
        /\ pin' # "HIGH"
        /\ driving' => pin' # "FLOATING"
        /\ pin' # "FLOATING" =>
             ((pin' = "HIGH") <=> IF driving' THEN ~heater'.on ELSE heater'.on)
        /\ pin' = "FLOATING" => ~heater'.on /\ heater'.req = 0
    BY <1>0, <2>1, <2>2, DrivePin
  <2> QED BY <1>0, <1>4, <2>2, <2>3 DEF OffCall, Idle, Unclaimed, RecordFollowsPin,
                                        HaltedIsCold, ConfirmedByTick, Claimed
<1>5. ASSUME TickCall PROVE Rest
  <2> DEFINE next == HeaterTick(heater, since_tick, age > StaleMs)
  <2>1. since_tick \in Nat /\ (age > StaleMs) \in BOOLEAN /\ heater \in Heaters
    BY <1>0, HeaterAssumption DEF TypeOK
  <2>2. next \in Heaters /\ next.phase < WindowMs
    BY <1>0, <2>1, HeaterTickType, HeaterTickPhase DEF TypeOK
  <2>3. ~Claimed => ~next.on /\ next.req = 0
    BY <1>0, <2>1, NoRequestNoPulse DEF Unclaimed
  <2>4. next.on => ~(age > StaleMs)
    <3> SUFFICES ASSUME age > StaleMs PROVE ~next.on
      OBVIOUS
    <3>1. next = HeaterTick(heater, since_tick, TRUE)
      OBVIOUS
    <3> QED BY <3>1, <2>1, StaleTickIsOff
  <2>5. Idle /\ Drive(next) /\ since_tick' = 0
    BY <1>5 DEF TickCall
  <2> HIDE DEF next
  <2>6. /\ pin' # "FLOATING" <=> Claimed
        /\ pin' = "HIGH" <=> next.on
        /\ driving' => pin' # "FLOATING"
        /\ pin' # "FLOATING" =>
             ((pin' = "HIGH") <=> IF driving' THEN ~heater'.on ELSE heater'.on)
        /\ pin' = "FLOATING" => ~heater'.on /\ heater'.req = 0
    BY <1>0, <2>2, <2>3, <2>5, DrivePin
  <2>7. phase' = phase /\ gpio' = gpio /\ age' = age
    BY <1>5 DEF TickCall
  <2>8. Unclaimed' /\ RecordFollowsPin' /\ HaltedIsCold'
    BY <1>0, <2>5, <2>6, <2>7 DEF Idle, Unclaimed, RecordFollowsPin, HaltedIsCold, Claimed
  <2>9. ConfirmedByTick'
    <3>1. pin' = "HIGH" => ~(age > StaleMs)
      BY <2>4, <2>6
    <3>2. age \in Nat /\ StaleMs \in Nat /\ MaxGap \in Nat
      BY <1>0, HeaterAssumption DEF TypeOK
    <3>3. pin' = "HIGH" => age <= StaleMs + 0
      BY <3>1, <3>2
    <3> QED BY <3>2, <3>3, <2>5, <2>7 DEF ConfirmedByTick
  <2> QED BY <2>8, <2>9
<1>6. ASSUME DriveDone PROVE Rest
  <2>1. heater.on \in BOOLEAN /\ heater'.on = ~heater.on /\ heater'.req = heater.req
    BY <1>0, <1>6 DEF DriveDone, TypeOK, Heaters
  <2>2. driving /\ ~driving' /\ phase = "up" /\ Claimed /\ UNCHANGED <<phase, gpio, pin, age, since_tick>>
    BY <1>0, <1>6 DEF DriveDone, Unclaimed
  <2>3. Unclaimed' /\ RecordFollowsPin' /\ HaltedIsCold'
    BY <1>0, <2>1, <2>2 DEF Unclaimed, RecordFollowsPin, HaltedIsCold, Claimed
  <2>4. ConfirmedByTick'
    BY <1>0, <2>2, HeaterAssumption DEF ConfirmedByTick, TypeOK
  <2> QED BY <2>3, <2>4
<1>7. ASSUME Pass PROVE Rest
  <2>1. UNCHANGED <<phase, gpio, pin, driving, heater>> /\ since_tick < MaxGap
        /\ age' = Older(age) /\ since_tick' = Older(since_tick)
    BY <1>7 DEF Pass
  <2>2. since_tick' = since_tick + 1 /\ age' <= age + 1
    BY <1>0, <2>1, OlderType, OlderWithinGap DEF TypeOK
  <2>3. age' \in Nat /\ age \in Nat /\ since_tick \in Nat
    BY <1>0, <1>t, HeaterAssumption DEF TypeOK
  <2>4. ConfirmedByTick'
    BY <1>0, <2>1, <2>2, <2>3, HeaterAssumption DEF ConfirmedByTick
  <2>5. Unclaimed' /\ RecordFollowsPin' /\ HaltedIsCold'
    BY <1>0, <2>1 DEF Unclaimed, RecordFollowsPin, HaltedIsCold, Claimed
  <2> QED BY <2>4, <2>5
<1>8. ASSUME EmergencyOff PROVE Rest
  <2>1. phase' = "halted" /\ UNCHANGED <<gpio, driving, age, since_tick>>
    BY <1>8 DEF EmergencyOff
  <2>2. pin' # "HIGH" /\ (pin' = "FLOATING" <=> pin = "FLOATING")
    BY <1>0, <1>8 DEF EmergencyOff, Unclaimed, Claimed
  <2>3. ~Claimed => ~heater'.on /\ heater'.req = 0
    BY <1>0, <1>8, HeaterOffType DEF EmergencyOff, Unclaimed, TypeOK
  <2> QED BY <1>0, <2>1, <2>2, <2>3 DEF Unclaimed, RecordFollowsPin, HaltedIsCold,
                                        ConfirmedByTick, Claimed
<1>9. ASSUME UNCHANGED vars PROVE Rest
  BY <1>0, <1>9 DEF vars, Unclaimed, RecordFollowsPin, HaltedIsCold, ConfirmedByTick, Claimed
<1>10. Rest
  BY <1>1, <1>2, <1>3, <1>4, <1>5, <1>6, <1>7, <1>8, <1>9 DEF Next
<1> QED BY <1>t, <1>10 DEF IInv

\* The strengthened invariant holds always.
THEOREM HeaterInvariant == Spec => []IInv
BY InitIInv, NextIInv, PTL DEF Spec

\* Outside drive() the record of the pin is right.
THEOREM RecordIsRight == Spec => []RecordMatchesPin
<1>1. IInv => RecordMatchesPin
  BY DEF IInv, TypeOK, Heaters, RecordFollowsPin, RecordMatchesPin, Idle
<1> QED BY <1>1, HeaterInvariant, PTL

\* Wherever a fatal error strikes, the halted processor drives nothing.
THEOREM FatalErrorCuts == Spec => []HaltedIsCold
<1>1. IInv => HaltedIsCold
  BY DEF IInv
<1> QED BY <1>1, HeaterInvariant, PTL

\* A gate is never high for a request older than the stale time and one gap.
THEOREM StaleRequestsAreCut == Spec => []StaleIsCut
<1>1. IInv => StaleIsCut
  BY HeaterAssumption DEF IInv, TypeOK, ConfirmedByTick, StaleIsCut
<1> QED BY <1>1, HeaterInvariant, PTL

--------------------------------------------------------------------------------
(* The energy of a window.  The time since its last tick is a part of it, so  *)
(* gaps have to be shorter than windows.                                      *)

\* What a window has delivered fits into it.
HighFits == window.high <= heater.phase + since_tick

\* The gate is high where a request asked for it, and low only past the smallest one.
HighForCause ==
    /\ pin = "HIGH" => heater.phase < OnMs(window.most)
    /\ phase # "halted" => pin = "HIGH" \/ OnMs(window.least) <= heater.phase

\* A window is behind its own time, or its smallest request, by less than a gap.
NotBehind ==
    \/ OnMs(window.least) < window.high + MaxGap
    \/ heater.phase + since_tick < window.high + MaxGap

Energy == HighFits /\ HighForCause /\ EnergyBounded /\ NotBehind

\* Division by a thousand keeps the order.
LEMMA ByParts ==
    ASSUME NEW a \in Nat, NEW b \in Nat, a <= b
    PROVE  a \div 1000 \in Nat /\ a \div 1000 <= b \div 1000
OBVIOUS

\* A larger request keeps the gate high for longer, never for more than the window.
LEMMA OnMsGrows ==
    ASSUME NEW a \in Permille, NEW b \in Permille, a <= b
    PROVE  OnMs(a) \in Nat /\ OnMs(a) <= OnMs(b) /\ OnMs(b) <= WindowMs /\ OnMs(0) = 0
<1>1. a \in Nat /\ b \in Nat /\ b <= 1000
  BY DEF Permille
<1>2. WindowMs \in Nat
  BY SlowPwmAssumption
<1>3. a * WindowMs \in Nat /\ b * WindowMs \in Nat
  BY <1>1, <1>2, SMT
<1>4. a * WindowMs <= b * WindowMs
  BY <1>1, <1>2, SMT
<1>5. b * WindowMs <= 1000 * WindowMs
  BY <1>1, <1>2, SMT
<1>6. (1000 * WindowMs) \div 1000 = WindowMs /\ (0 * WindowMs) \div 1000 = 0
  BY <1>2, SMT
<1>7. 1000 * WindowMs \in Nat
  BY <1>2
<1> QED BY <1>3, <1>4, <1>5, <1>6, <1>7, ByParts DEF OnMs

LEMMA NothingIsNothing == OnMs(0) = 0
<1>1. 0 \in Permille
  BY DEF Permille
<1> QED BY <1>1, OnMsGrows

LEMMA OnMsType == ASSUME NEW a \in Permille PROVE OnMs(a) \in Nat
<1>1. a <= a
  BY DEF Permille
<1> QED BY <1>1, OnMsGrows

LEMMA ExtremesBound ==
    ASSUME NEW a \in Permille, NEW b \in Permille
    PROVE  /\ a <= Max({a, b}) /\ b <= Max({a, b})
           /\ Min({a, b}) <= a /\ Min({a, b}) <= b
<1>1. PICK m \in {a, b} : \A y \in {a, b} : m >= y
  BY DEF Permille
<1>2. PICK n \in {a, b} : \A y \in {a, b} : n <= y
  BY DEF Permille
<1>3. Max({a, b}) \in {a, b} /\ \A y \in {a, b} : Max({a, b}) >= y
  BY <1>1 DEF Max
<1>4. Min({a, b}) \in {a, b} /\ \A y \in {a, b} : Min({a, b}) <= y
  BY <1>2 DEF Min
<1> QED BY <1>3, <1>4 DEF Permille

\* A step of the clock either stays in the window or ends it, and then begins the next by
\* less than the step.
LEMMA NextPhaseMoves ==
    ASSUME NEW p \in Nat, p < WindowMs, NEW d \in Nat, d < WindowMs
    PROVE  \/ NextPhase(p, d) = p + d /\ p <= p + d
           \/ /\ NextPhase(p, d) < p /\ NextPhase(p, d) < d /\ NextPhase(p, d) \in Nat
              /\ p + d >= WindowMs
<1>1. WindowMs \in Nat /\ WindowMs > 0
  BY SlowPwmAssumption
<1>2. CASE p + d < WindowMs
  BY <1>1, <1>2 DEF NextPhase
<1>3. CASE p + d >= WindowMs
  <2>1. (p + d) % WindowMs = p + d - WindowMs
    <3> DEFINE r == p + d - WindowMs
    <3>1. r \in 0 .. WindowMs - 1 /\ p + d = r + WindowMs
      BY <1>1, <1>3
    <3> QED BY <1>1, <3>1, SMT
  <2>2. NextPhase(p, d) = p + d - WindowMs
    BY <1>1, <1>3, <2>1 DEF NextPhase
  <2> QED BY <1>1, <1>3, <2>2
<1> QED BY <1>1, <1>2, <1>3

LEMMA InitEnergy == Init => Energy
<1> SUFFICES ASSUME Init PROVE Energy
  OBVIOUS
<1>1. window.high = 0 /\ OnMs(window.most) = 0 /\ OnMs(window.least) = 0
  <2>1. window = WindowReset(0)
    BY DEF Init
  <2>2. window.high = 0 /\ window.most = 0 /\ window.least = 0
    BY <2>1 DEF WindowReset
  <2> QED BY <2>2, NothingIsNothing
<1>2. heater.phase = 0 /\ since_tick = 0 /\ pin # "HIGH"
  BY DEF Init, HeaterReset
<1>3. HighFits
  BY <1>1, <1>2 DEF HighFits
<1>4. HighForCause
  BY <1>1, <1>2 DEF HighForCause
<1>5. EnergyBounded
  BY <1>1 DEF EnergyBounded
<1>6. NotBehind
  BY <1>1, HeaterAssumption DEF NotBehind
<1> QED BY <1>3, <1>4, <1>5, <1>6 DEF Energy

\* What the proofs of the steps know of numbers.
LEMMA EnergyTypes ==
    ASSUME IInv
    PROVE  /\ heater \in Heaters /\ heater.phase \in Nat /\ heater.phase < WindowMs
           /\ heater.req \in Permille
           /\ since_tick \in Nat /\ since_tick <= MaxGap /\ age \in Nat
           /\ window \in Windows /\ window.high \in Nat
           /\ window.most \in Permille /\ window.least \in Permille
           /\ MaxGap \in Nat /\ MaxGap > 0
BY HeaterAssumption DEF IInv, TypeOK, ConfirmedByTick, Heaters, Windows

\* A window that begins, with the gate low or as its request has it.
LEMMA FreshWindow ==
    ASSUME IInv', NEW req \in Permille, window' = WindowReset(req),
           heater'.phase + since_tick' < MaxGap \/ req = 0,
           pin' = "HIGH" <=> heater'.phase < OnMs(req)
    PROVE  Energy'
<1>1. window'.high = 0 /\ window'.most = req /\ window'.least = req
  BY DEF WindowReset
<1>2. OnMs(req) \in Nat /\ OnMs(0) = 0
  BY NothingIsNothing, OnMsType
<1>3. /\ heater'.phase \in Nat /\ since_tick' \in Nat /\ MaxGap \in Nat /\ MaxGap > 0
  <2>1. TypeOK' /\ ConfirmedByTick'
    BY DEF IInv
  <2> QED BY <2>1, HeaterAssumption DEF TypeOK, ConfirmedByTick, Heaters
<1>4. HighFits'
  BY <1>1, <1>3 DEF HighFits
<1>5. HighForCause'
  BY <1>1, <1>2, <1>3 DEF HighForCause
<1>6. EnergyBounded'
  BY <1>1, <1>2, <1>3 DEF EnergyBounded
<1>7. NotBehind'
  BY <1>1, <1>2, <1>3 DEF NotBehind
<1> QED BY <1>4, <1>5, <1>6, <1>7 DEF Energy

LEMMA TickEnergy == ASSUME MaxGap < WindowMs, IInv, Energy, IInv', TickCall PROVE Energy'
<1> DEFINE next == HeaterTick(heater, since_tick, age > StaleMs)
           p == NextPhase(heater.phase, since_tick)
<1>1. /\ heater \in Heaters /\ heater.phase \in Nat /\ heater.phase < WindowMs
      /\ heater.req \in Permille
      /\ since_tick \in Nat /\ since_tick <= MaxGap /\ since_tick > 0
      /\ window \in Windows /\ window.high \in Nat
      /\ window.most \in Permille /\ window.least \in Permille
      /\ MaxGap \in Nat /\ MaxGap > 0 /\ WindowMs \in Nat
  BY EnergyTypes, SlowPwmAssumption DEF TickCall
<1>2. next \in Heaters /\ next.phase < WindowMs /\ (age > StaleMs) \in BOOLEAN
  <2>1. (age > StaleMs) \in BOOLEAN
    OBVIOUS
  <2> QED BY <1>1, <2>1, HeaterTickType, HeaterTickPhase
<1>3. ~Claimed => ~next.on /\ next.req = 0
  BY <1>1, <1>2, NoRequestNoPulse DEF IInv, Unclaimed
<1>4. Idle /\ Drive(next) /\ since_tick' = 0 /\ phase' = phase
  BY DEF TickCall
<1>5. /\ pin' = "HIGH" <=> next.on
      /\ heater'.phase = next.phase
  <2>1. pin' = "HIGH" <=> next.on
    BY <1>2, <1>3, <1>4, DrivePin DEF IInv
  <2>2. heater' = [next EXCEPT !.on = heater.on]
    BY <1>4 DEF Drive
  <2> HIDE DEF next
  <2>3. heater'.phase = next.phase
    BY <1>2, <2>2 DEF Heaters
  <2> QED BY <2>1, <2>3
<1>6. window' = IF age > StaleMs THEN WindowReset(0)
                ELSE IF next.phase < heater.phase THEN WindowReset(next.req)
                ELSE [window EXCEPT !.most = Max({window.most, next.req}),
                                    !.least = Min({window.least, next.req})]
  BY DEF TickCall
<1>7. CASE age > StaleMs
  <2>1. window' = WindowReset(0) /\ ~next.on
    <3>1. next = HeaterTick(heater, since_tick, TRUE)
      BY <1>7
    <3> QED BY <1>1, <1>6, <1>7, <3>1, StaleTickIsOff
  <2>2. 0 \in Permille
    BY DEF Permille
  <2>3. ~(heater'.phase < 0)
    <3> DEFINE ph == heater'.phase
    <3>1. ph \in Nat
      BY EnergyTypes DEF IInv, TypeOK, Heaters
    <3> HIDE DEF ph
    <3>2. ~(ph < 0)
      BY <3>1
    <3> QED BY <3>2 DEF ph
  <2>4. pin' = "HIGH" <=> heater'.phase < OnMs(0)
    <3> HIDE DEF next
    <3>1. pin' # "HIGH"
      BY <1>5, <2>1, Zenon
    <3>2. ~(heater'.phase < OnMs(0))
      BY <2>3, NothingIsNothing
    <3> QED BY <3>1, <3>2, Zenon
  <2> QED BY <2>1, <2>2, <2>4, FreshWindow
<1>8. CASE ~(age > StaleMs)
  <2>1. next = [req |-> heater.req, phase |-> p, on |-> p < OnMs(heater.req)]
    BY <1>8 DEF HeaterTick
  <2>2. next.req = heater.req /\ next.phase = p /\ (next.on <=> p < OnMs(heater.req))
    <3> DEFINE on == p < OnMs(heater.req)
    <3>1. next = [req |-> heater.req, phase |-> p, on |-> on]
      BY <2>1
    <3> HIDE DEF next, on, p
    <3>2. next.req = heater.req /\ next.phase = p /\ next.on = on
      BY <3>1
    <3> QED BY <3>2, Zenon DEF on
  <2> HIDE DEF next
  <2>3. heater'.phase = p /\ (pin' = "HIGH" <=> p < OnMs(heater.req))
    BY <1>5, <2>2
  <2>4. \/ p = heater.phase + since_tick /\ heater.phase <= p
        \/ p < heater.phase /\ p < since_tick /\ p \in Nat
    BY <1>1, NextPhaseMoves
  <2> HIDE DEF p
  <2>5. CASE p < heater.phase
    <3>1. window' = WindowReset(heater.req)
      BY <1>6, <1>8, <2>2, <2>5
    <3>2. heater'.phase + since_tick' < MaxGap
      BY <1>1, <1>4, <2>3, <2>4, <2>5
    <3> QED BY <1>1, <2>3, <3>1, <3>2, FreshWindow
  <2>6. CASE ~(p < heater.phase)
    <3>1. p = heater.phase + since_tick
      BY <1>1, <2>4, <2>6
    <3> DEFINE most == Max({window.most, heater.req})
               least == Min({window.least, heater.req})
    <3>2. /\ most \in Permille /\ least \in Permille
          /\ window.most <= most /\ heater.req <= most
          /\ least <= window.least /\ least <= heater.req
      BY <1>1, ExtremesType, ExtremesBound
    <3>3. window' = [window EXCEPT !.most = most, !.least = least]
      BY <1>6, <1>8, <2>2, <2>6
    <3> HIDE DEF most, least
    <3>4. window'.high = window.high /\ window'.most = most /\ window'.least = least
      BY <1>1, <3>3 DEF Windows
    <3>5. /\ OnMs(window.most) \in Nat /\ OnMs(heater.req) \in Nat /\ OnMs(most) \in Nat
          /\ OnMs(least) \in Nat /\ OnMs(window.least) \in Nat
          /\ OnMs(window.most) <= OnMs(most) /\ OnMs(heater.req) <= OnMs(most)
          /\ OnMs(least) <= OnMs(window.least) /\ OnMs(least) <= OnMs(heater.req)
      BY <1>1, <3>2, OnMsType, OnMsGrows
    <3>6. HighFits'
      BY <1>1, <1>4, <2>3, <3>1, <3>4 DEF Energy, HighFits
    <3>7. HighForCause'
      BY <1>1, <2>3, <3>1, <3>4, <3>5 DEF HighForCause
    <3>8. EnergyBounded'
      BY <1>1, <3>4, <3>5 DEF Energy, EnergyBounded
    <3>9. NotBehind'
      BY <1>1, <1>4, <2>3, <3>1, <3>4, <3>5 DEF Energy, NotBehind
    <3> QED BY <3>6, <3>7, <3>8, <3>9 DEF Energy
  <2> QED BY <2>5, <2>6
<1> QED BY <1>7, <1>8

LEMMA PassEnergy == ASSUME IInv, Energy, Pass PROVE Energy'
<1>1. /\ heater.phase \in Nat /\ since_tick \in Nat /\ since_tick + 1 <= MaxGap
      /\ window \in Windows /\ window.high \in Nat
      /\ window.most \in Permille /\ window.least \in Permille /\ MaxGap \in Nat
  BY EnergyTypes DEF Pass
<1>2. since_tick' = since_tick + 1 /\ heater' = heater /\ pin' = pin /\ phase = "up" /\ phase' = "up"
  BY OlderWithinGap DEF Pass, Idle, IInv, TypeOK
<1>3. /\ window'.high = IF pin = "HIGH" THEN window.high + 1 ELSE window.high
      /\ window'.most = window.most /\ window'.least = window.least
  BY <1>1 DEF Pass, Windows
<1>4. OnMs(window.most) \in Nat /\ OnMs(window.least) \in Nat
  BY <1>1, OnMsType
<1>5. HighFits'
  BY <1>1, <1>2, <1>3 DEF Energy, HighFits
<1>6. HighForCause'
  BY <1>2, <1>3 DEF Energy, HighForCause
<1>7. EnergyBounded'
  BY <1>1, <1>2, <1>3, <1>4 DEF Energy, HighFits, HighForCause, EnergyBounded
<1>8. NotBehind'
  BY <1>1, <1>2, <1>3, <1>4 DEF Energy, HighForCause, NotBehind
<1> QED BY <1>5, <1>6, <1>7, <1>8 DEF Energy

LEMMA OffEnergy == ASSUME IInv, Energy, OffCall PROVE Energy'
<1>1. /\ heater \in Heaters /\ heater.phase \in Nat /\ heater.phase < WindowMs
      /\ since_tick \in Nat
      /\ window \in Windows /\ window.high \in Nat /\ window.most \in Permille
      /\ MaxGap \in Nat /\ MaxGap > 0
  BY EnergyTypes
<1>2. /\ HeaterOff(heater) \in Heaters /\ HeaterOff(heater).phase = heater.phase
      /\ ~HeaterOff(heater).on /\ HeaterOff(heater).req = 0
  BY <1>1, HeaterOffType
<1>3. pin' # "HIGH" /\ heater'.phase = heater.phase /\ since_tick' = since_tick
  <2>1. Idle /\ Drive(HeaterOff(heater)) /\ since_tick' = since_tick
    BY DEF OffCall
  <2>2. pin' # "HIGH"
    BY <1>1, <1>2, <2>1, DrivePin DEF IInv
  <2>3. heater'.phase = HeaterOff(heater).phase
    BY <1>2, <2>1 DEF Drive, Heaters
  <2> QED BY <1>2, <2>1, <2>2, <2>3
<1>4. window'.high = window.high /\ window'.most = window.most /\ window'.least = 0
  BY <1>1 DEF OffCall, WindowCut, Windows
<1>5. OnMs(0) = 0
  BY NothingIsNothing, OnMsGrows DEF Permille
<1> QED BY <1>1, <1>3, <1>4, <1>5
        DEF Energy, HighFits, HighForCause, EnergyBounded, NotBehind

LEMMA NextEnergy ==
    ASSUME MaxGap < WindowMs, IInv, Energy, IInv', [Next]_vars PROVE Energy'
<1>1. CASE TickCall
  BY <1>1, TickEnergy
<1>2. CASE Pass
  BY <1>2, PassEnergy
<1>3. CASE OffCall
  BY <1>3, OffEnergy
<1>4. CASE HeaterInit
  <2>1. /\ window' = WindowReset(0) /\ pin' # "HIGH" /\ heater'.phase = 0
    BY <1>4 DEF HeaterInit, HeaterReset
  <2>2. 0 \in Permille
    BY DEF Permille
  <2>3. pin' = "HIGH" <=> heater'.phase < OnMs(0)
    BY <2>1, NothingIsNothing
  <2> QED BY <2>1, <2>2, <2>3, FreshWindow
<1>5. ASSUME heater'.phase = heater.phase, since_tick' = since_tick, window' = window,
             pin' = "HIGH" => pin = "HIGH",
             phase' = "halted" \/ (phase # "halted" /\ (pin = "HIGH" => pin' = "HIGH"))
      PROVE  Energy'
  BY <1>5 DEF Energy, HighFits, HighForCause, EnergyBounded, NotBehind
<1>6. CASE SafeInit
  <2>1. pin # "HIGH"
    BY <1>6 DEF SafeInit, IInv, Unclaimed, Claimed
  <2>2. pin' # "HIGH" /\ phase # "halted"
    BY <1>6, <2>1 DEF SafeInit
  <2> QED BY <1>5, <1>6, <2>1, <2>2 DEF SafeInit
<1>7. ASSUME NEW d \in Requests, SetDutyCall(d) PROVE Energy'
  <2>1. heater'.phase = heater.phase
    BY <1>7, EnergyTypes, SetDutyAny, HeaterAssumption DEF SetDutyCall
  <2> QED BY <1>5, <1>7, <2>1 DEF SetDutyCall, Idle
<1>8. CASE DriveDone
  <2>1. heater'.phase = heater.phase
    BY <1>8, EnergyTypes DEF DriveDone, Heaters
  <2> QED BY <1>5, <1>8, <2>1 DEF DriveDone
<1>9. CASE EmergencyOff
  <2>1. heater'.phase = heater.phase
    BY <1>9, EnergyTypes, HeaterOffType DEF EmergencyOff
  <2>2. pin' = "HIGH" => pin = "HIGH"
    BY <1>9 DEF EmergencyOff
  <2> QED BY <1>5, <1>9, <2>1, <2>2 DEF EmergencyOff
<1>10. CASE UNCHANGED vars
  BY <1>10 DEF vars, Energy, HighFits, HighForCause, EnergyBounded, NotBehind
<1> QED BY <1>1, <1>2, <1>3, <1>4, <1>6, <1>7, <1>8, <1>9, <1>10 DEF Next

\* The bookkeeping of a window holds always, when gaps are shorter than windows.
THEOREM EnergyInvariant == ASSUME MaxGap < WindowMs PROVE Spec => [](IInv /\ Energy)
<1>1. Init => IInv /\ Energy
  BY InitIInv, InitEnergy
<1>2. IInv /\ Energy /\ [Next]_vars => (IInv /\ Energy)'
  BY NextIInv, NextEnergy
<1> QED BY <1>1, <1>2, PTL DEF Spec

\* With gaps shorter than windows, no window delivers a gap more than its largest
\* request asked for.
THEOREM EnergyIsBounded == ASSUME MaxGap < WindowMs PROVE Spec => []EnergyBounded
<1>1. IInv /\ Energy => EnergyBounded
  BY DEF Energy
<1> QED BY <1>1, EnergyInvariant, PTL

\* With gaps shorter than windows, a window that was not cut is at most a gap short of
\* its smallest request.
THEOREM EnergyIsDelivered == ASSUME MaxGap < WindowMs PROVE Spec => EnergyDelivered
<1>1. IInv /\ Energy /\ [Next]_vars
        => [TickCall /\ window'.high = 0 /\ heater'.phase < heater.phase
              => window.high + MaxGap > OnMs(window.least)]_vars
  <2> SUFFICES ASSUME IInv, Energy, TickCall, heater'.phase < heater.phase
               PROVE  window.high + MaxGap > OnMs(window.least)
    OBVIOUS
  <2>1. /\ heater \in Heaters /\ heater.phase \in Nat /\ heater.phase < WindowMs
        /\ since_tick \in Nat /\ since_tick <= MaxGap
        /\ window.high \in Nat /\ window.least \in Permille
        /\ MaxGap \in Nat /\ WindowMs \in Nat
    BY EnergyTypes, SlowPwmAssumption
  <2>2. heater.phase + since_tick >= WindowMs
    <3> DEFINE next == HeaterTick(heater, since_tick, age > StaleMs)
    <3>1. next \in Heaters
      <4>1. (age > StaleMs) \in BOOLEAN
        OBVIOUS
      <4> QED BY <2>1, <4>1, HeaterTickType
    <3>2. heater'.phase = next.phase
      <4>1. heater' = [next EXCEPT !.on = heater.on]
        BY DEF TickCall, Drive
      <4> HIDE DEF next
      <4> QED BY <3>1, <4>1 DEF Heaters
    <3>3. next.phase = IF age > StaleMs THEN heater.phase ELSE NextPhase(heater.phase, since_tick)
      BY DEF HeaterTick, HeaterOff
    <3> HIDE DEF next
    <3>4. NextPhase(heater.phase, since_tick) < heater.phase
      BY <2>1, <3>2, <3>3
    <3> QED BY <2>1, <3>4, NextPhaseMoves
  <2>3. OnMs(window.least) \in Nat /\ OnMs(window.least) <= WindowMs
    <3>1. window.least <= window.least
      BY <2>1 DEF Permille
    <3> QED BY <2>1, <3>1, OnMsGrows
  <2> QED BY <2>1, <2>2, <2>3 DEF Energy, NotBehind
<1> QED BY <1>1, EnergyInvariant, PTL DEF Spec, EnergyDelivered

--------------------------------------------------------------------------------
(* The refinement: every step of the driver is one call of module HeaterDriver, *)
(* or moves nothing there.                                                      *)

\* The contract has the arithmetic of this module.
LEMMA SameArithmetic ==
    /\ \A h, d : Driver!SetDuty(h, d) = SetDuty(h, d)
    /\ \A h : Driver!HeaterOff(h) = HeaterOff(h)
    /\ \A h, dt, stale : Driver!HeaterTick(h, dt, stale) = HeaterTick(h, dt, stale)
    /\ Driver!HeaterReset = HeaterReset
    /\ Driver!Permille = Permille
<1>1. \A d : Driver!OnMs(d) = OnMs(d)
  BY DEF OnMs, Driver!OnMs
<1>2. \A d : Driver!Snap(d) = Snap(d) /\ Driver!ClampDuty(d) = ClampDuty(d)
  <2> TAKE d
  <2>1. Driver!ClampDuty(d) = ClampDuty(d)
    BY DEF ClampDuty, Driver!ClampDuty
  <2>2. Driver!OnMs(d) = OnMs(d) /\ Driver!OnMs(1000 - d) = OnMs(1000 - d)
    BY <1>1
  <2>3. Driver!Snap(d) = Snap(d)
    <3>1. CASE OnMs(d) < MinPulseMs
      BY <2>2, <3>1 DEF Snap, Driver!Snap
    <3>2. CASE ~(OnMs(d) < MinPulseMs) /\ OnMs(1000 - d) < MinPulseMs
      BY <2>2, <3>2 DEF Snap, Driver!Snap
    <3>3. CASE ~(OnMs(d) < MinPulseMs) /\ ~(OnMs(1000 - d) < MinPulseMs)
      BY <2>2, <3>3 DEF Snap, Driver!Snap
    <3> QED BY <3>1, <3>2, <3>3
  <2> QED BY <2>1, <2>3
<1>3. \A phi, dt : Driver!NextPhase(phi, dt) = NextPhase(phi, dt)
  BY DEF NextPhase, Driver!NextPhase
<1>4. \A h : Driver!HeaterOff(h) = HeaterOff(h)
  BY DEF HeaterOff, Driver!HeaterOff
<1>5. \A h, d : Driver!SetDuty(h, d) = SetDuty(h, d)
  BY <1>2 DEF SetDuty, Driver!SetDuty
<1>6. \A h, dt, stale : Driver!HeaterTick(h, dt, stale) = HeaterTick(h, dt, stale)
  BY <1>1, <1>3, <1>4 DEF HeaterTick, Driver!HeaterTick
<1>7. Driver!HeaterReset = HeaterReset /\ Driver!Permille = Permille
  BY DEF HeaterReset, Driver!HeaterReset, Permille, Driver!Permille
<1> QED BY <1>4, <1>5, <1>6, <1>7

\* Between two calls the caller's view of the gate is the driver's own record.
LEMMA GateIsRecord ==
    ASSUME IInv, Idle
    PROVE  Gate = heater
<1>1. heater = [req |-> heater.req, phase |-> heater.phase, on |-> heater.on]
      /\ heater.on \in BOOLEAN
  BY DEF IInv, TypeOK, Heaters
<1>2. (pin = "HIGH") = heater.on
  <2>1. CASE Claimed
    BY <1>1, <2>1 DEF IInv, RecordFollowsPin, Idle
  <2>2. CASE ~Claimed
    BY <1>1, <2>2 DEF IInv, Unclaimed, Claimed
  <2> QED BY <2>1, <2>2
<1> QED BY <1>1, <1>2 DEF Gate

\* A call that enters drive() has, for the caller, done all of its work.
LEMMA DriveGate ==
    ASSUME IInv, Idle, NEW next \in Heaters, next.phase < WindowMs, Drive(next),
           ~Claimed => ~next.on /\ next.req = 0
    PROVE  Gate' = next
<1>1. TypeOK /\ Unclaimed /\ RecordFollowsPin
  BY DEF IInv
<1>2. pin' = "HIGH" <=> next.on
  BY <1>1, DrivePin
<1>3. heater'.req = next.req /\ heater'.phase = next.phase
  BY <1>1, DriveType DEF Drive, TypeOK, Heaters
<1>4. next = [req |-> next.req, phase |-> next.phase, on |-> next.on] /\ next.on \in BOOLEAN
  BY DEF Heaters
<1>5. (pin' = "HIGH") = next.on
  BY <1>2, <1>4
<1> QED BY <1>3, <1>4, <1>5 DEF Gate

LEMMA StepImplements == IInv /\ [Next]_vars => [Driver!Next]_(Driver!vars)
<1> SUFFICES ASSUME IInv, [Next]_vars PROVE [Driver!Next]_(Driver!vars)
  OBVIOUS
<1>0. TypeOK /\ Unclaimed /\ RecordFollowsPin /\ HaltedIsCold /\ ConfirmedByTick
  BY DEF IInv
<1>h. heater \in Heaters /\ heater.phase < WindowMs
  BY <1>0 DEF TypeOK
<1>s. phase' = phase /\ Gate' = Gate => UNCHANGED Driver!vars
  BY DEF Driver!vars
<1>1. ASSUME SafeInit PROVE UNCHANGED Gate /\ phase # "halted" /\ phase' # "halted"
  <2>1. pin # "HIGH" /\ pin' # "HIGH" /\ UNCHANGED heater
    BY <1>0, <1>1 DEF SafeInit, Unclaimed, Claimed
  <2> QED BY <1>1, <2>1 DEF SafeInit, Gate
<1>2. ASSUME HeaterInit PROVE Driver!Next
  <2>1. Gate' = HeaterReset /\ phase = "up" /\ phase' = "up"
    BY <1>2 DEF HeaterInit, Idle, Gate, HeaterReset
  <2> QED BY <2>1, SameArithmetic DEF Driver!Next, Driver!Call, Driver!Reset
<1>3. ASSUME NEW d \in Requests, SetDutyCall(d) PROVE Driver!Next
  <2>1. d \in Nat /\ ClampDuty(d) \in Permille
    BY HeaterAssumption DEF ClampDuty, Permille
  <2>2. Gate = heater
    BY <1>3, GateIsRecord DEF SetDutyCall
  <2>3. SetDuty(heater, d) = SetDuty(heater, ClampDuty(d))
    <3>1. ClampDuty(ClampDuty(d)) = ClampDuty(d)
      BY <2>1 DEF ClampDuty
    <3> QED BY <3>1 DEF SetDuty
  <2>4. Gate' = SetDuty(Gate, ClampDuty(d))
    <3>1. heater' = SetDuty(heater, d) /\ pin' = pin
      BY <1>3 DEF SetDutyCall
    <3>2. heater'.on = heater.on /\ heater' \in Heaters
      BY <1>h, <2>1, <3>1, SetDutyAny
    <3>3. Gate.on = heater.on
      BY <2>2
    <3>4. Gate' = heater'
      BY <3>1, <3>2, <3>3 DEF Gate, Heaters
    <3> QED BY <2>2, <2>3, <3>1, <3>4
  <2>5. phase = "up" /\ phase' = "up"
    BY <1>3 DEF SetDutyCall, Idle
  <2> QED BY <2>1, <2>4, <2>5, SameArithmetic DEF Driver!Next, Driver!Call, Driver!Request
<1>4. ASSUME OffCall PROVE Driver!Next
  <2>1. Idle /\ Drive(HeaterOff(heater)) /\ phase' = phase
    BY <1>4 DEF OffCall
  <2>2. HeaterOff(heater) \in Heaters /\ HeaterOff(heater).phase < WindowMs
        /\ ~HeaterOff(heater).on /\ HeaterOff(heater).req = 0
    BY <1>h, HeaterOffType
  <2>3. Gate' = HeaterOff(Gate)
    BY <2>1, <2>2, GateIsRecord, DriveGate
  <2> QED BY <2>1, <2>3, SameArithmetic DEF Idle, Driver!Next, Driver!Call, Driver!Off
<1>5. ASSUME TickCall PROVE Driver!Next
  <2> DEFINE stale == age > StaleMs
             next == HeaterTick(heater, since_tick, stale)
  <2>1. Idle /\ Drive(next) /\ phase' = phase
    BY <1>5 DEF TickCall
  <2>2. since_tick \in 0 .. MaxGap /\ stale \in BOOLEAN
    BY <1>0, HeaterAssumption DEF TypeOK, ConfirmedByTick
  <2> HIDE DEF stale
  <2>3. since_tick \in Nat
    BY <2>2, HeaterAssumption
  <2>4. next \in Heaters /\ next.phase < WindowMs
    BY <1>h, <2>2, <2>3, HeaterTickType, HeaterTickPhase
  <2>5. ~Claimed => ~next.on /\ next.req = 0
    BY <1>0, <1>h, <2>2, <2>3, NoRequestNoPulse DEF Unclaimed
  <2> HIDE DEF next
  <2>6. Gate' = next /\ Gate = heater
    BY <2>1, <2>4, <2>5, GateIsRecord, DriveGate
  <2>7. Gate' = Driver!HeaterTick(Gate, since_tick, stale)
    BY <2>6, SameArithmetic DEF next
  <2> QED BY <2>1, <2>2, <2>7 DEF Idle, Driver!Next, Driver!Call, Driver!Tick
<1>6. ASSUME DriveDone PROVE UNCHANGED Gate /\ phase # "halted" /\ phase' # "halted"
  <2>1. heater'.req = heater.req /\ heater'.phase = heater.phase /\ pin' = pin
    BY <1>6, <1>h DEF DriveDone, Heaters
  <2> QED BY <1>6, <2>1 DEF DriveDone, Gate
<1>7. ASSUME Pass PROVE UNCHANGED Gate /\ phase # "halted" /\ phase' # "halted"
  BY <1>7 DEF Pass, Gate, Idle
<1>8. ASSUME EmergencyOff PROVE Driver!Next
  <2>1. phase # "halted" /\ phase' = "halted"
    BY <1>8 DEF EmergencyOff
  <2>2. heater'.req = 0 /\ heater'.phase = heater.phase /\ pin' # "HIGH"
    <3>1. CASE gpio
      BY <1>8, <3>1 DEF EmergencyOff, HeaterOff, Claimed
    <3>2. CASE ~gpio
      BY <1>0, <1>8, <3>2 DEF EmergencyOff, Unclaimed, Claimed
    <3> QED BY <3>1, <3>2
  <2>3. Gate' = HeaterOff(Gate)
    BY <2>2 DEF Gate, HeaterOff
  <2> QED BY <2>1, <2>3, SameArithmetic DEF Driver!Next, Driver!Halt, Driver!Off
<1>9. ASSUME UNCHANGED vars PROVE UNCHANGED <<Gate, phase>>
  BY <1>9 DEF vars, Gate
<1> QED BY <1>s, <1>1, <1>2, <1>3, <1>4, <1>5, <1>6, <1>7, <1>8, <1>9 DEF Next, Driver!vars

\* The driver implements the contract its caller relies on.
THEOREM HeaterImplementsDriver == Spec => ImplementsDriver
<1>1. Init => Driver!Init
  BY SameArithmetic DEF Init, Driver!Init, Gate, HeaterReset
<1> QED BY <1>1, StepImplements, HeaterInvariant, PTL DEF Spec, Driver!Spec, ImplementsDriver
================================================================================
