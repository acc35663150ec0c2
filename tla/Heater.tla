--------------------------------- MODULE Heater ---------------------------------
(***************************************************************************)
(* The relay driver, src/core/heater.c, in time.  Module SlowPwm has the   *)
(* arithmetic of a request; here the pin is a variable of its own, written *)
(* by drive() one step before the driver's record of it, and requests grow *)
(* old.  The control thread calls the driver; a fatal error interrupts it  *)
(* anywhere, between the two writes of drive() included, takes no lock and *)
(* does not return.                                                        *)
(***************************************************************************)
EXTENDS Integers, FiniteSetsExt, SlowPwm

CONSTANTS
    StaleMs,       \* CONFIG_REFLOW_HEATER_STALE_MS
    MaxGap,        \* the longest time between two ticks
    Horizon,       \* bound: times since an event are counted up to here
    Requests       \* the duties reflow_heater_set_duty() is called with

ASSUME HeaterAssumption ==
    /\ StaleMs \in Nat
    /\ MaxGap \in Nat \ {0}
    /\ Horizon \in Nat /\ Horizon > StaleMs + MaxGap
    /\ Requests \subseteq Nat

VARIABLES
    phase,         \* "reset" until SYS_INIT has run, then "up", then "halted"
    gpio,          \* gpio_is_ready_dt(): the port exists
    pin,           \* the level of the gate
    driving,       \* inside drive(), between the pin and its record
    heater,        \* req_permille, phase_ms and output_on, see module SlowPwm
    age,           \* the time since last_update
    since_tick,    \* the time since the last tick: the dt_ms of the next one
    window         \* history: the energy of the current window, see WindowReset

vars == <<phase, gpio, pin, driving, heater, age, since_tick, window>>

Pins == {"FLOATING", "LOW", "HIGH"}

Older(t) == IF t < Horizon THEN t + 1 ELSE t

\* What the current window has delivered since it began or was last cut as stale, and
\* the extremes of the requests in force in it.
Windows == [high : Nat, most : Permille, least : Permille]

WindowReset(req) == [high |-> 0, most |-> req, least |-> req]

WindowCut == [window EXCEPT !.least = 0]

TypeOK ==
    /\ phase \in {"reset", "up", "halted"}
    /\ gpio \in BOOLEAN
    /\ pin \in Pins
    /\ driving \in BOOLEAN
    /\ heater \in Heaters /\ heater.phase < WindowMs
    /\ age \in 0 .. Horizon /\ since_tick \in 0 .. Horizon
    /\ window \in Windows

Init ==
    /\ phase = "reset"
    /\ gpio \in BOOLEAN
    /\ pin = "FLOATING"
    /\ driving = FALSE
    /\ heater = HeaterReset
    /\ age = 0 /\ since_tick = 0
    /\ window = WindowReset(0)

Level(on) == IF on THEN "HIGH" ELSE "LOW"

--------------------------------------------------------------------------------
(* The driver's calls, each begun with the previous one returned.             *)

Idle == phase = "up" /\ ~driving

\* ssr_safe_init(): an error of the configuration is logged and changes nothing.
SafeInit ==
    /\ phase = "reset"
    /\ phase' = "up"
    /\ pin' \in IF gpio THEN {"LOW", pin} ELSE {pin}
    /\ UNCHANGED <<gpio, driving, heater, age, since_tick, window>>

\* Planted bug: the driver is set up again without looking at what it drove.
HeaterInit_KeepsRecord ==
    /\ Idle /\ gpio
    /\ pin' = "LOW"
    /\ heater' = [heater EXCEPT !.req = 0, !.phase = 0]
    /\ age' = 0
    /\ window' = WindowReset(0)
    /\ UNCHANGED <<phase, gpio, driving, since_tick>>

\* reflow_heater_init() succeeded; a failed call changes nothing.
HeaterInit ==
    /\ Idle /\ gpio
    /\ pin' = "LOW"
    /\ heater' = HeaterReset
    /\ age' = 0
    /\ window' = WindowReset(0)
    /\ UNCHANGED <<phase, gpio, driving, since_tick>>

\* A caller that has had an answer from reflow_heater_init() has a claimed pin.
Claimed == pin # "FLOATING"

\* reflow_heater_set_duty(): the pin waits for the next tick.
SetDutyCall(d) ==
    /\ Idle /\ Claimed
    /\ heater' = SetDuty(heater, d)
    /\ age' = 0
    /\ UNCHANGED <<phase, gpio, pin, driving, since_tick, window>>

\* drive(on), entered with the fields of the driver set to next: nothing is written
\* when the record says the pin is there already.  The record follows in DriveDone.
Drive(next) ==
    /\ heater' = [next EXCEPT !.on = heater.on]
    /\ driving' = (next.on # heater.on)
    /\ pin' = IF next.on = heater.on THEN pin ELSE Level(next.on)

DriveDone ==
    /\ phase = "up" /\ driving
    /\ driving' = FALSE
    /\ heater' = [heater EXCEPT !.on = ~@]
    /\ UNCHANGED <<phase, gpio, pin, age, since_tick, window>>

\* reflow_heater_off()
OffCall ==
    /\ Idle
    /\ Drive(HeaterOff(heater))
    /\ age' = 0
    /\ window' = WindowCut
    /\ UNCHANGED <<phase, gpio, since_tick>>

\* reflow_heater_tick(dt): past STALE_MS the request is dropped and dt with it, so
\* the energy of a window is counted anew; before that the window moves on.
TickCall ==
    /\ Idle
    /\ since_tick > 0
    /\ since_tick' = 0
    /\ UNCHANGED <<phase, gpio, age>>
    /\ LET next == HeaterTick(heater, since_tick, age > StaleMs)
       IN  /\ Drive(next)
           /\ window' =
                IF age > StaleMs THEN WindowReset(0)
                ELSE IF next.phase < heater.phase THEN WindowReset(next.req)
                ELSE [window EXCEPT !.most = Max({@, next.req}), !.least = Min({@, next.req})]

\* One millisecond; the thread is back for the next tick within MaxGap.
Pass ==
    /\ Idle
    /\ since_tick < MaxGap
    /\ age' = Older(age)
    /\ since_tick' = Older(since_tick)
    /\ window' = [window EXCEPT !.high = IF pin = "HIGH" THEN @ + 1 ELSE @]
    /\ UNCHANGED <<phase, gpio, pin, driving, heater>>

\* Planted bug: the fatal path goes through drive() and believes its record.
EmergencyOff_ByRecord ==
    /\ phase # "halted"
    /\ phase' = "halted"
    /\ IF gpio
          THEN /\ pin' = IF Claimed /\ heater.on THEN "LOW" ELSE pin
               /\ heater' = HeaterOff(heater)
          ELSE UNCHANGED <<pin, heater>>
    /\ UNCHANGED <<gpio, driving, age, since_tick, window>>

\* reflow_heater_emergency_off() and the halt: the pin is set whatever the record
\* says.  A pin that was never configured stays what the reset left it.
EmergencyOff ==
    /\ phase # "halted"
    /\ phase' = "halted"
    /\ IF gpio
          THEN /\ pin' = IF Claimed THEN "LOW" ELSE pin
               /\ heater' = HeaterOff(heater)
          ELSE UNCHANGED <<pin, heater>>
    /\ UNCHANGED <<gpio, driving, age, since_tick, window>>

Next ==
    \/ SafeInit
    \/ HeaterInit
    \/ \E d \in Requests : SetDutyCall(d)
    \/ OffCall
    \/ TickCall
    \/ DriveDone
    \/ Pass
    \/ EmergencyOff

Spec == Init /\ [][Next]_vars

--------------------------------------------------------------------------------

\* Outside drive() the record and the pin agree: drive() skips the write when they
\* do, so a wrong record would leave the gate where it is for good.
RecordMatchesPin == Idle /\ Claimed => (heater.on <=> pin = "HIGH")

\* The gate is never high in the halted processor, not even when the error struck
\* between the pin and its record.
HaltedIsCold == phase = "halted" => pin # "HIGH"

\* With ticks at most MaxGap apart, a gate is never high for a request older than
\* STALE_MS and one gap: a control loop that ticks but decides nothing is cut.
StaleIsCut == pin = "HIGH" => age <= StaleMs + MaxGap

\* From the start of a window, or from a stale request, to its end the gate is high for
\* less than one gap more than the largest request in force asked for, and not at all
\* if none asked for a pulse the relay can honour.
EnergyBounded ==
    window.high <= IF OnMs(window.most) = 0 THEN 0 ELSE OnMs(window.most) - 1 + MaxGap

\* A window that was not cut has delivered its smallest request, less than a gap short
\* of it: the late tick that ends a window is taken off the next one only.
EnergyDelivered ==
    [][TickCall /\ window'.high = 0 /\ heater'.phase < heater.phase
         => window.high + MaxGap > OnMs(window.least)]_vars

--------------------------------------------------------------------------------
(* The contract this module implements.                                       *)

\* The driver as its caller sees it, with the gate where the pin is.
Gate == [req |-> heater.req, phase |-> heater.phase, on |-> pin = "HIGH"]

Driver == INSTANCE HeaterDriver
    WITH heater <- Gate, halted <- phase = "halted", Elapsed <- 0 .. MaxGap

\* Two writes of drive(), skipped when the record says so, requests that grow old, a
\* driver set up again and a fatal error between any two steps amount to the calls of
\* module HeaterDriver, each at one stroke: the caller never meets a gate that its
\* calls do not account for.
ImplementsDriver == Driver!Spec
================================================================================
