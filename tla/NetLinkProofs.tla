------------------------------ MODULE NetLinkProofs ------------------------------
(***************************************************************************)
(* For any waits, budgets and number of undelivered events of module       *)
(* NetLink: the semaphore of l4.c is given whenever the network is up,     *)
(* however the takes and gives of its two users fall between its events,   *)
(* and the link is back in time unless the semaphore lies.                 *)
(***************************************************************************)
EXTENDS NetLink, TLAPS

--------------------------------------------------------------------------------
(* The inductive invariant.                                                   *)

\* The types that the rest needs.
Typed ==
    /\ sem \in 0 .. 1
    /\ events \in Seq({"CONNECTED", "DISCONNECTED"})
    /\ "at" \in DOMAIN wifi
    /\ link \in BOOLEAN

\* The semaphore, or a thread that is about to give it back.
Given == sem = 1 \/ wifi.at = "giveback" \/ httpd = "giveback"

Newest == events[Len(events)]

\* The newest event tells how the link is; without one under way it was told.
LinkIsTold ==
    IF events = <<>> THEN link = TRUE => Given
                     ELSE link = TRUE <=> Newest = "CONNECTED"

\* Nobody waits for a semaphore that is given.
WaitsForCause == httpd = "wait" => sem = 0

IInv == Typed /\ LinkIsTold /\ WaitsForCause

--------------------------------------------------------------------------------
(* What an event or its delivery does to the newest one.                      *)

LEMMA InitHolds == Init => IInv
<1> SUFFICES ASSUME Init PROVE IInv
  OBVIOUS
<1>1. events = <<>> /\ events \in Seq({"CONNECTED", "DISCONNECTED"})
  BY DEF Init
<1>2. link = FALSE /\ sem = 0 /\ "at" \in DOMAIN wifi
  BY DEF Init
<1>3. Typed
  <2>1. sem \in 0 .. 1
    BY <1>2
  <2>2. link \in BOOLEAN
    BY <1>2
  <2> QED BY <1>1, <1>2, <2>1, <2>2, Zenon DEF Typed
<1>4. LinkIsTold
  BY <1>1, <1>2, Zenon DEF LinkIsTold
<1>5. WaitsForCause
  BY <1>2 DEF WaitsForCause
<1> QED BY <1>3, <1>4, <1>5 DEF IInv

LEMMA NewestAfterTail ==
    ASSUME Typed, events # <<>>, events' = Tail(events)
    PROVE  /\ events' \in Seq({"CONNECTED", "DISCONNECTED"})
           /\ Head(events) \in {"CONNECTED", "DISCONNECTED"}
           /\ events' # <<>> => Newest' = Newest
           /\ events' = <<>> => Head(events) = Newest
<1>1. Len(events) > 0 /\ Len(events) \in Nat /\ Len(events') = Len(events) - 1
  BY DEF Typed
<1>2. events' = <<>> => Len(events) = 1
  BY <1>1
<1>3. events' # <<>> => Newest' = Newest
  <2> SUFFICES ASSUME events' # <<>> PROVE Newest' = Newest
    OBVIOUS
  <2>1. Len(events') > 0
    BY DEF Typed
  <2>2. Newest' = events[Len(events') + 1]
    BY <1>1, <2>1 DEF Typed, Newest
  <2> QED BY <1>1, <2>2 DEF Newest
<1> QED BY <1>1, <1>2, <1>3 DEF Typed, Newest

LEMMA NewestAfterAppend ==
    ASSUME Typed, NEW event \in {"CONNECTED", "DISCONNECTED"}, events' = Append(events, event)
    PROVE  /\ events' \in Seq({"CONNECTED", "DISCONNECTED"})
           /\ events' # <<>> /\ Newest' = event
BY DEF Typed, Newest

--------------------------------------------------------------------------------
(* The steps.                                                                 *)

LEMMA DeliverKeeps == ASSUME IInv, Deliver PROVE IInv'
<1> USE DEF Deliver, worldVars
<1> DEFINE told == IF Head(events) = "CONNECTED" THEN GiveSem ELSE ResetSem
<1>1. /\ events' \in Seq({"CONNECTED", "DISCONNECTED"})
      /\ Head(events) \in {"CONNECTED", "DISCONNECTED"}
      /\ events' # <<>> => Newest' = Newest
      /\ events' = <<>> => Head(events) = Newest
  BY NewestAfterTail DEF IInv
<1>2. sem' \in 0 .. 1 /\ WaitsForCause'
  BY DEF IInv, Typed, WaitsForCause, GiveSem, ResetSem
<1>3. Typed'
  BY <1>1, <1>2 DEF IInv, Typed
<1>4. LinkIsTold'
  <2>1. CASE events' # <<>>
    BY <1>1, <2>1 DEF IInv, LinkIsTold
  <2>2. CASE events' = <<>> /\ Newest = "CONNECTED"
    <3>1. GiveSem
      BY <1>1, <2>2
    <3>2. sem' = 1 \/ httpd' = "giveback"
      BY <3>1 DEF GiveSem
    <3> QED BY <2>2, <3>2 DEF LinkIsTold, Given
  <2>3. CASE events' = <<>> /\ Newest # "CONNECTED"
    BY <2>3 DEF IInv, Typed, LinkIsTold
  <2> QED BY <2>1, <2>2, <2>3
<1> QED BY <1>2, <1>3, <1>4 DEF IInv

\* A step that leaves events and link alone and does not lose the semaphore.
LEMMA HandedOnKeeps ==
    ASSUME IInv, Typed', UNCHANGED <<events, link>>, Given => Given', WaitsForCause'
    PROVE  IInv'
BY DEF IInv, LinkIsTold, Newest

LEMMA WifiStepKeeps == ASSUME IInv, WifiStep PROVE IInv'
<1> USE DEF worldVars
<1>1. CASE Look
  <2>1. Typed' /\ (Given => Given') /\ WaitsForCause'
    BY <1>1 DEF Look, IInv, Typed, Given, WaitsForCause
  <2> QED BY <1>1, <2>1, HandedOnKeeps DEF Look
<1>2. CASE LookDone
  <2>1. Typed' /\ Given' /\ WaitsForCause'
    BY <1>2 DEF LookDone, GiveSem, IInv, Typed, Given, WaitsForCause
  <2> QED BY <1>2, <2>1, HandedOnKeeps DEF LookDone
<1>3. CASE Watch
  <2>1. Typed' /\ (Given => Given') /\ WaitsForCause'
    BY <1>3, NetLinkAssumption DEF Watch, IInv, Typed, Given, WaitsForCause
  <2> QED BY <1>3, <2>1, HandedOnKeeps DEF Watch
<1>4. CASE Connect
  <2>1. Typed' /\ (Given => Given') /\ WaitsForCause'
    BY <1>4 DEF Connect, IInv, Typed, Given, WaitsForCause
  <2> QED BY <1>4, <2>1, HandedOnKeeps DEF Connect
<1>5. CASE Awake
  <2>1. Typed' /\ (Given => Given') /\ WaitsForCause'
    BY <1>5 DEF Awake, IInv, Typed, Given, WaitsForCause
  <2> QED BY <1>5, <2>1, HandedOnKeeps DEF Awake
<1> QED BY <1>1, <1>2, <1>3, <1>4, <1>5 DEF WifiStep

LEMMA HttpdStepKeeps == ASSUME IInv, HttpdStep PROVE IInv'
<1> USE DEF worldVars
<1>1. UNCHANGED <<events, link>> /\ Typed' /\ (Given => Given') /\ WaitsForCause'
  BY DEF HttpdStep, AwaitLink, WaitOver, AwaitDone, Listen, IInv, Typed, Given, WaitsForCause
<1> QED BY <1>1, HandedOnKeeps

LEMMA AssociateKeeps == ASSUME IInv, Associate PROVE IInv'
<1> USE DEF Associate, Changed
<1>1. events' # <<>> /\ Newest' = "CONNECTED" /\ events' \in Seq({"CONNECTED", "DISCONNECTED"})
  BY NewestAfterAppend DEF IInv
<1> QED BY <1>1 DEF IInv, Typed, LinkIsTold, WaitsForCause

LEMMA DropKeeps == ASSUME IInv, Drop PROVE IInv'
<1> USE DEF Drop, Changed
<1>1. events' # <<>> /\ Newest' = "DISCONNECTED" /\ events' \in Seq({"CONNECTED", "DISCONNECTED"})
  BY NewestAfterAppend DEF IInv
<1> QED BY <1>1 DEF IInv, Typed, LinkIsTold, WaitsForCause

LEMMA WorldKeeps == ASSUME IInv, Lapse \/ MoveAp \/ Pass \/ UNCHANGED vars PROVE IInv'
<1>1. UNCHANGED <<events, link>> /\ Typed' /\ (Given => Given') /\ WaitsForCause'
  BY DEF Lapse, MoveAp, Pass, vars, IInv, Typed, Given, WaitsForCause
<1> QED BY <1>1, HandedOnKeeps

--------------------------------------------------------------------------------
(* How soon the link is back.                                                 *)

\* While the access point waits for its station: the attempt under way began no later than
\* the longest wait, and without one the thread wakes by then and decides by what it saw.
Answered ==
    IF Attempting THEN waited <= MaxWait + attempt
                  ELSE /\ 0 <= wifi.left /\ waited + wifi.left <= MaxWait
                       /\ ~(wifi.at = "decide" /\ wifi.ready = TRUE)

Stations == [at : {"look", "giveback", "decide", "sleep"}, ready : BOOLEAN, left : Int]

\* The types that the time needs.
ClockTyped ==
    /\ wifi \in Stations
    /\ policy \in [attempts : 0 .. MaxAttempts, was_up : BOOLEAN]
    /\ ap \in BOOLEAN /\ link \in BOOLEAN
    /\ attempt \in NoAttempt .. AssocMs
    /\ waited \in 0 .. Budget + 1

\* Time is counted only while the link is down and its fall is known, and then the
\* access point is about to be asked or has been.
BackInTime ==
    /\ ClockTyped
    /\ wifi.left <= MaxWait
    /\ waited > 0 => ap = TRUE /\ link = FALSE /\ events = <<>>
    /\ waited > 0 /\ ~Misled => Answered

LEMMA Waits ==
    /\ SuperviseMs \in Nat /\ MinWait \in Nat /\ MaxWait \in Nat /\ AssocMs \in Nat
    /\ Budget \in Nat /\ MaxAttempts \in Nat /\ EventDepth \in Nat
    /\ SuperviseMs <= MaxWait /\ MaxAttempts > 0
BY NetLinkAssumption

\* backoff_ms() never asks for more than the ceiling.
LEMMA BackoffBounded ==
    ASSUME NEW n \in Nat, n > 0 PROVE Backoff(n) \in Int /\ Backoff(n) <= MaxWait
<1> DEFINE twice == 2 ^ (n - 1)
           ms == MinWait * twice
<1>1. n - 1 \in Nat
  OBVIOUS
<1>2. twice \in Int
  BY <1>1
<1> HIDE DEF twice
<1>3. ms \in Int
  BY <1>2, Waits
<1>4. Backoff(n) = IF ms > MaxWait THEN MaxWait ELSE ms
  BY DEF Backoff, twice
<1> HIDE DEF ms
<1> QED BY <1>3, <1>4, Waits

LEMMA BackInit == Init => BackInTime
<1> SUFFICES ASSUME Init PROVE BackInTime
  OBVIOUS
<1>1. wifi \in Stations /\ policy \in [attempts : 0 .. MaxAttempts, was_up : BOOLEAN]
  BY Waits DEF Init, Stations
<1>2. attempt \in NoAttempt .. AssocMs /\ waited \in 0 .. Budget + 1
  BY Waits DEF Init, NoAttempt
<1>3. ClockTyped
  BY <1>1, <1>2 DEF Init, ClockTyped
<1>4. wifi.left = 0 /\ ~(waited > 0)
  BY DEF Init
<1> QED BY <1>3, <1>4, Waits DEF BackInTime

\* A step in which no time passes and the link and its events stay as they are.
LEMMA NoTimeKeeps ==
    ASSUME BackInTime, ClockTyped', UNCHANGED <<events, ap, link, waited>>, wifi'.left <= MaxWait,
           waited > 0 /\ ~Misled' => ~Misled /\ Answered'
    PROVE  BackInTime'
BY DEF BackInTime

LEMMA DeliverInTime == ASSUME BackInTime, Deliver PROVE BackInTime'
<1> USE DEF worldVars
<1>1. /\ events # <<>> /\ UNCHANGED <<wifi, policy, ap, link, attempt, waited>>
      /\ waited \in 0 .. Budget + 1
  BY DEF Deliver, BackInTime, ClockTyped
<1>2. ~(waited > 0) /\ ClockTyped'
  BY <1>1 DEF BackInTime, ClockTyped
<1> QED BY <1>1, <1>2 DEF BackInTime

LEMMA LookInTime == ASSUME BackInTime, Look PROVE BackInTime'
<1> USE DEF worldVars
<1>1. /\ wifi.at = "look" /\ sem' = 0
      /\ wifi' = [wifi EXCEPT !.at = IF sem = 1 THEN "giveback" ELSE "decide", !.ready = (sem = 1)]
      /\ UNCHANGED <<events, policy, httpd, ap, link, attempt, dhcp, waited>>
  BY DEF Look
<1>a. wifi \in Stations
  BY DEF BackInTime, ClockTyped
<1>2. CASE sem = 1
  <2>1. wifi' = [wifi EXCEPT !.at = "giveback", !.ready = TRUE]
    BY <1>1, <1>2
  <2>2. /\ wifi' \in Stations
        /\ wifi'.at = "giveback" /\ wifi'.left = wifi.left
    BY <2>1, <1>a DEF Stations
  <2>3. ClockTyped'
    BY <1>1, <2>2 DEF BackInTime, ClockTyped
  <2>4. waited > 0 => Misled'
    BY <1>1, <2>2 DEF BackInTime, Misled
  <2> QED BY <1>1, <2>2, <2>3, <2>4, NoTimeKeeps DEF BackInTime
<1>3. CASE sem # 1
  <2>1. wifi' = [wifi EXCEPT !.at = "decide", !.ready = FALSE]
    BY <1>1, <1>3
  <2>2. /\ wifi' \in Stations
        /\ wifi'.at = "decide" /\ wifi'.ready = FALSE /\ wifi'.left = wifi.left
    BY <2>1, <1>a DEF Stations
  <2>3. ClockTyped'
    BY <1>1, <2>2 DEF BackInTime, ClockTyped
  <2>4. ~Misled' => ~Misled
    BY <1>1, <1>3, <2>2 DEF Misled
  <2>5. Answered => Answered'
    BY <1>1, <2>2 DEF Answered, Attempting
  <2>6. waited > 0 /\ ~Misled => Answered
    BY DEF BackInTime
  <2> QED BY <1>1, <2>2, <2>3, <2>4, <2>5, <2>6, NoTimeKeeps DEF BackInTime
<1> QED BY <1>2, <1>3

LEMMA LookDoneInTime == ASSUME BackInTime, LookDone PROVE BackInTime'
<1> USE DEF worldVars
<1>1. /\ wifi.at = "giveback" /\ GiveSem /\ wifi' = [wifi EXCEPT !.at = "decide"]
      /\ UNCHANGED <<events, policy, ap, link, attempt, dhcp, waited>>
  BY DEF LookDone
<1>a. wifi \in Stations
  BY DEF BackInTime, ClockTyped
<1>2. /\ wifi' \in Stations
      /\ wifi'.left = wifi.left
  BY <1>1, <1>a DEF Stations
<1>3. ClockTyped'
  BY <1>1, <1>2 DEF BackInTime, ClockTyped
<1>4. waited > 0 => Misled'
  BY <1>1 DEF GiveSem, BackInTime, Misled
<1> QED BY <1>1, <1>2, <1>3, <1>4, NoTimeKeeps DEF BackInTime

LEMMA WatchInTime == ASSUME BackInTime, Watch PROVE BackInTime'
<1> USE DEF worldVars
<1>1. /\ wifi.at = "decide" /\ wifi.ready /\ policy' = [attempts |-> 0, was_up |-> TRUE]
      /\ wifi' = [wifi EXCEPT !.at = "sleep", !.left = SuperviseMs]
      /\ UNCHANGED <<sem, events, httpd, ap, link, attempt, dhcp, waited>>
  BY DEF Watch
<1>a. wifi \in Stations
  BY DEF BackInTime, ClockTyped
<1>b. SuperviseMs \in Int
  BY Waits
<1>2. /\ wifi' \in Stations
      /\ wifi'.left = SuperviseMs /\ wifi'.at = "sleep"
  BY <1>1, <1>a, <1>b DEF Stations
<1>3. ClockTyped'
  <2>1. policy' \in [attempts : 0 .. MaxAttempts, was_up : BOOLEAN]
    BY <1>1, Waits
  <2> QED BY <1>1, <1>2, <2>1 DEF BackInTime, ClockTyped
<1>4. Misled' <=> Misled
  BY <1>1, <1>2 DEF Misled
<1>5. waited > 0 /\ ~Misled => Attempting /\ Answered
  BY <1>1, <1>a DEF BackInTime, Answered
<1>6. Attempting /\ Answered => Answered'
  BY <1>1 DEF Attempting, Answered
<1> QED BY <1>1, <1>2, <1>3, <1>4, <1>5, <1>6, Waits, NoTimeKeeps DEF BackInTime

LEMMA ConnectInTime == ASSUME BackInTime, Connect PROVE BackInTime'
<1> DEFINE attempts == IF policy.attempts < MaxAttempts THEN policy.attempts + 1 ELSE policy.attempts
<1>1. /\ wifi.at = "decide" /\ policy' = [policy EXCEPT !.attempts = attempts]
      /\ wifi' = [wifi EXCEPT !.at = "sleep", !.left = Backoff(policy'.attempts)]
      /\ Request(policy.was_up)
      /\ UNCHANGED <<sem, events, httpd, ap, link, waited>>
  BY DEF Connect
<1>a. /\ wifi \in Stations
      /\ policy \in [attempts : 0 .. MaxAttempts, was_up : BOOLEAN]
  BY DEF BackInTime, ClockTyped
<1>2. attempts \in 0 .. MaxAttempts /\ attempts > 0
  BY <1>a, Waits
<1> HIDE DEF attempts
<1>3. policy' \in [attempts : 0 .. MaxAttempts, was_up : BOOLEAN] /\ policy'.attempts = attempts
  BY <1>1, <1>2, <1>a DEF Stations
<1> DEFINE left == Backoff(attempts)
<1>4. left \in Int /\ left <= MaxWait
  BY <1>2, BackoffBounded
<1>5. wifi' = [wifi EXCEPT !.at = "sleep", !.left = left]
  BY <1>1, <1>3
<1> HIDE DEF left
<1>6. /\ wifi' \in Stations
      /\ wifi'.left = left /\ wifi'.at = "sleep"
  BY <1>4, <1>5, <1>a DEF Stations
<1>7. attempt' \in NoAttempt .. AssocMs
  BY <1>1, Waits DEF Request, NoAttempt, BackInTime, ClockTyped
<1>8. ClockTyped'
  BY <1>1, <1>3, <1>6, <1>7 DEF BackInTime, ClockTyped
<1>9. Misled' <=> Misled
  BY <1>1, <1>6 DEF Misled
<1>10. ASSUME waited > 0, ~Misled PROVE Answered'
  <2>1. ap = TRUE /\ link = FALSE /\ Answered /\ waited \in Nat
    BY <1>10 DEF BackInTime, ClockTyped
  <2>2. CASE Attempting
    <3>1. attempt' = attempt
      BY <1>1, <2>2 DEF Request
    <3> QED BY <1>1, <2>1, <2>2, <3>1 DEF Answered, Attempting
  <2>3. CASE ~Attempting
    <3>1. attempt' = 0
      BY <1>1, <2>1, <2>3 DEF Request
    <3>2. wifi.left \in Int /\ 0 <= wifi.left /\ waited + wifi.left <= MaxWait
      BY <1>a, <2>1, <2>3 DEF Answered, Stations
    <3>3. waited <= MaxWait
      BY <2>1, <3>2, Waits
    <3> QED BY <1>1, <3>1, <3>3, Waits, <2>1 DEF Answered, Attempting, NoAttempt
  <2> QED BY <2>2, <2>3
<1> QED BY <1>1, <1>4, <1>6, <1>8, <1>9, <1>10, NoTimeKeeps

LEMMA AwakeInTime == ASSUME BackInTime, Awake PROVE BackInTime'
<1> USE DEF worldVars
<1>1. /\ wifi.at = "sleep" /\ wifi' = [wifi EXCEPT !.at = "look"]
      /\ UNCHANGED <<sem, events, policy, httpd, ap, link, attempt, dhcp, waited>>
  BY DEF Awake
<1>a. wifi \in Stations
  BY DEF BackInTime, ClockTyped
<1>2. /\ wifi' \in Stations
      /\ wifi'.left = wifi.left /\ wifi'.at = "look"
  BY <1>1, <1>a DEF Stations
<1>3. ClockTyped'
  BY <1>1, <1>2 DEF BackInTime, ClockTyped
<1>4. Misled' <=> Misled
  BY <1>1, <1>2 DEF Misled
<1>5. Answered => Answered'
  BY <1>1, <1>2 DEF Answered, Attempting
<1>6. waited > 0 /\ ~Misled => Answered
  BY DEF BackInTime
<1> QED BY <1>1, <1>2, <1>3, <1>4, <1>5, <1>6, NoTimeKeeps DEF BackInTime

LEMMA HttpdInTime == ASSUME BackInTime, HttpdStep PROVE BackInTime'
<1> USE DEF worldVars
<1>1. UNCHANGED <<events, wifi, policy, ap, link, attempt, dhcp, waited>>
  BY DEF HttpdStep, AwaitLink, WaitOver, AwaitDone, Listen
<1>2. ClockTyped'
  BY <1>1 DEF HttpdStep, AwaitLink, WaitOver, AwaitDone, Listen, BackInTime, ClockTyped
<1>3. ~Misled' => ~Misled
  BY <1>1 DEF HttpdStep, AwaitLink, WaitOver, AwaitDone, Listen, BackInTime, ClockTyped, Misled
<1>4. Answered => Answered'
  BY <1>1 DEF Answered, Attempting
<1>5. waited > 0 /\ ~Misled => Answered
  BY DEF BackInTime
<1> QED BY <1>1, <1>2, <1>3, <1>4, <1>5, NoTimeKeeps DEF BackInTime

\* A step that starts the wait anew.
LEMMA AnewKeeps ==
    ASSUME BackInTime, ClockTyped', waited' = 0, wifi' = wifi PROVE BackInTime'
BY DEF BackInTime

LEMMA WorldInTime == ASSUME BackInTime, Associate \/ Drop \/ Lapse \/ MoveAp PROVE BackInTime'
<1>1. CASE Associate \/ Drop
  <2>1. attempt' \in NoAttempt .. AssocMs /\ waited' \in 0 .. Budget + 1 /\ waited' = 0
    BY <1>1, Waits DEF Associate, Drop, Changed, BackInTime, ClockTyped, NoAttempt
  <2>2. ClockTyped'
    BY <1>1, <2>1 DEF Associate, Drop, Changed, BackInTime, ClockTyped
  <2> QED BY <1>1, <2>1, <2>2, AnewKeeps DEF Associate, Drop, Changed
<1>2. CASE Lapse
  <2>1. ap = FALSE /\ UNCHANGED <<sem, events, wifi, policy, httpd, ap, link, dhcp, waited>>
    BY <1>2 DEF Lapse, BackInTime, ClockTyped
  <2>2. waited = 0
    BY <2>1, Waits DEF BackInTime, ClockTyped
  <2>3. attempt' \in NoAttempt .. AssocMs
    BY <1>2, Waits DEF Lapse, NoAttempt
  <2>4. ClockTyped'
    BY <2>1, <2>3 DEF BackInTime, ClockTyped
  <2> QED BY <2>1, <2>2, <2>4, AnewKeeps
<1>3. CASE MoveAp
  <2>1. attempt' \in NoAttempt .. AssocMs /\ waited' \in 0 .. Budget + 1 /\ ap' \in BOOLEAN
    BY <1>3, Waits DEF MoveAp, BackInTime, ClockTyped, NoAttempt
  <2>2. ClockTyped'
    BY <1>3, <2>1 DEF MoveAp, BackInTime, ClockTyped
  <2> QED BY <1>3, <2>2, AnewKeeps DEF MoveAp
<1> QED BY <1>1, <1>2, <1>3

\* Time: the wait grows by what the sleep loses or the attempt gains.
LEMMA PassInTime == ASSUME BackInTime, Pass PROVE BackInTime'
<1> DEFINE left == wifi.left - 1
<1>1. /\ wifi.at = "sleep" /\ wifi.left > 0 /\ events = <<>>
      /\ wifi' = [wifi EXCEPT !.left = left]
      /\ attempt' = IF Attempting /\ ap THEN attempt + 1 ELSE attempt
      /\ waited' = IF ap /\ ~link /\ waited <= Budget THEN waited + 1 ELSE waited
      /\ UNCHANGED <<sem, events, policy, httpd, ap, link, dhcp>>
      /\ ap => attempt < AssocMs
  BY DEF Pass, Resting
<1>a. /\ wifi \in Stations
      /\ attempt \in NoAttempt .. AssocMs /\ waited \in 0 .. Budget + 1
      /\ ap \in BOOLEAN /\ link \in BOOLEAN
  BY DEF BackInTime, ClockTyped
<1>2. left \in Nat /\ left + 1 = wifi.left
  BY <1>1, <1>a DEF Stations
<1> HIDE DEF left
<1>3. /\ wifi' \in Stations
      /\ wifi'.left = left /\ wifi'.at = "sleep"
  BY <1>1, <1>2, <1>a DEF Stations
<1>4. attempt' \in NoAttempt .. AssocMs /\ waited' \in 0 .. Budget + 1
  BY <1>1, <1>a, Waits DEF NoAttempt
<1>5. ClockTyped'
  BY <1>1, <1>3, <1>4 DEF BackInTime, ClockTyped
<1>6. Misled' <=> Misled
  BY <1>1, <1>3 DEF Misled
<1>7. left <= MaxWait
  BY <1>2, Waits DEF BackInTime
<1>8. waited' > 0 => ap' = TRUE /\ link' = FALSE /\ events' = <<>>
  BY <1>1, <1>a, Waits DEF BackInTime
<1>9. ASSUME waited' > 0, ~Misled' PROVE Answered'
  <2>1. ap = TRUE /\ link = FALSE
    BY <1>1, <1>8, <1>9
  <2>2. waited > 0 => Answered
    BY <1>6, <1>9 DEF BackInTime
  <2>3. waited' <= waited + 1 /\ waited \in Nat
    BY <1>1, <1>a, Waits DEF Stations
  <2>4. CASE Attempting
    <3>1. attempt' = attempt + 1 /\ attempt \in Int /\ attempt >= 0
      BY <1>1, <1>a, <2>1, <2>4, Waits DEF Attempting, NoAttempt
    <3>2. waited <= MaxWait + attempt
      BY <2>2, <2>3, <2>4, <3>1, Waits DEF Answered
    <3>3. waited' <= MaxWait + attempt'
      BY <1>4, <2>3, <3>1, <3>2, Waits
    <3>4. Attempting'
      BY <3>1 DEF Attempting, NoAttempt
    <3> QED BY <3>3, <3>4 DEF Answered
  <2>5. CASE ~Attempting
    <3>1. attempt' = attempt /\ ~Attempting'
      BY <1>1, <2>5 DEF Attempting
    <3>2. waited + left + 1 <= MaxWait
      <4>1. CASE waited > 0
        <5>1. waited + wifi.left <= MaxWait
          BY <2>2, <2>5, <4>1 DEF Answered
        <5> QED BY <1>2, <2>3, <5>1, Waits
      <4>2. CASE ~(waited > 0)
        <5>1. waited = 0 /\ left + 1 <= MaxWait
          BY <1>2, <2>3, <4>2 DEF BackInTime
        <5> QED BY <1>2, <5>1, Waits
      <4> QED BY <4>1, <4>2
    <3>3. waited' + wifi'.left <= MaxWait
      <4>1. waited' \in Nat /\ waited \in Nat /\ left \in Nat /\ waited' <= waited + 1
        BY <1>2, <1>4, <2>3, Waits
      <4>2. waited' + left <= MaxWait
        <5> DEFINE now == waited'
        <5> HIDE DEF now, left
        <5>1. now \in Nat /\ waited \in Nat /\ left \in Nat /\ now <= waited + 1
          BY <4>1 DEF now
        <5>2. now + left <= MaxWait
          BY <3>2, <5>1, Waits
        <5> QED BY <5>2 DEF now
      <4> QED BY <1>3, <4>2
    <3>4. 0 <= wifi'.left
      BY <1>2, <1>3
    <3> QED BY <1>3, <3>1, <3>3, <3>4 DEF Answered
  <2> QED BY <2>4, <2>5
<1> QED BY <1>3, <1>5, <1>7, <1>8, <1>9 DEF BackInTime

--------------------------------------------------------------------------------
(* The lease.                                                                 *)

\* What a look has seen the policy remembers, or is about to be told; a request that
\* follows a lease that was seen asks for a new one.
Remembered ==
    /\ link \in BOOLEAN /\ seen \in BOOLEAN
    /\ "was_up" \in DOMAIN policy /\ {"at", "ready"} \subseteq DOMAIN wifi
    /\ link => ~Attempting
    /\ seen => policy.was_up = TRUE \/ (wifi.at \in {"giveback", "decide"} /\ wifi.ready = TRUE)
    /\ seen /\ Attempting => dhcp = "asking"

LEMMA NothingSeenYet == Init => Remembered
BY DEF Init, Remembered, Attempting, NoAttempt

LEMMA LookRemembers == ASSUME Remembered, Look PROVE Remembered'
<1>1. /\ wifi.at = "look" /\ seen' = (seen \/ (sem = 1 /\ link))
      /\ wifi' = [wifi EXCEPT !.at = IF sem = 1 THEN "giveback" ELSE "decide", !.ready = (sem = 1)]
      /\ UNCHANGED <<policy, link, attempt, dhcp>>
  BY DEF Look
<1>2. CASE seen
  <2>1. policy.was_up = TRUE
    BY <1>1, <1>2 DEF Remembered
  <2>2. {"at", "ready"} \subseteq DOMAIN wifi'
    BY <1>1 DEF Remembered
  <2> QED BY <1>1, <1>2, <2>1, <2>2 DEF Remembered, Attempting
<1>3. CASE ~seen /\ sem = 1
  <2>1. /\ wifi'.at = "giveback" /\ wifi'.ready = TRUE
        /\ {"at", "ready"} \subseteq DOMAIN wifi'
    BY <1>1, <1>3 DEF Remembered
  <2> QED BY <1>1, <1>3, <2>1 DEF Remembered, Attempting
<1>4. CASE ~seen /\ sem # 1
  <2>1. {"at", "ready"} \subseteq DOMAIN wifi'
    BY <1>1 DEF Remembered
  <2> QED BY <1>1, <1>4, <2>1 DEF Remembered, Attempting
<1> QED BY <1>2, <1>3, <1>4 DEF Remembered

LEMMA LookDoneRemembers == ASSUME Remembered, LookDone PROVE Remembered'
<1>1. wifi.at = "giveback" /\ wifi' = [wifi EXCEPT !.at = "decide"]
  BY DEF LookDone
<1>2. UNCHANGED <<policy, link, seen, attempt, dhcp>>
  BY DEF LookDone, worldVars
<1>3. /\ wifi'.at = "decide" /\ wifi'.ready = wifi.ready
      /\ {"at", "ready"} \subseteq DOMAIN wifi'
  BY <1>1 DEF Remembered
<1> QED BY <1>1, <1>2, <1>3 DEF Remembered, Attempting

LEMMA WatchRemembers == ASSUME Remembered, Watch PROVE Remembered'
<1>1. /\ policy' = [attempts |-> 0, was_up |-> TRUE]
      /\ wifi' = [wifi EXCEPT !.at = "sleep", !.left = SuperviseMs]
      /\ UNCHANGED <<link, seen, attempt, dhcp>>
  BY DEF Watch, worldVars
<1>2. {"at", "ready"} \subseteq DOMAIN wifi' /\ "was_up" \in DOMAIN policy' /\ policy'.was_up = TRUE
  BY <1>1 DEF Remembered
<1> QED BY <1>1, <1>2 DEF Remembered, Attempting

\* The only request there is: the policy has remembered a link that was seen.
LEMMA ConnectRemembers == ASSUME Remembered, Connect PROVE Remembered'
<1>1. /\ wifi.at = "decide" /\ ~wifi.ready /\ Request(policy.was_up) /\ UNCHANGED <<link, seen>>
      /\ policy' = [policy EXCEPT !.attempts = IF @ < MaxAttempts THEN @ + 1 ELSE @]
      /\ wifi' = [wifi EXCEPT !.at = "sleep", !.left = Backoff(policy'.attempts)]
  BY DEF Connect
<1>2. /\ {"at", "ready"} \subseteq DOMAIN wifi'
      /\ "was_up" \in DOMAIN policy' /\ policy'.was_up = policy.was_up
  BY <1>1 DEF Remembered
<1>3. seen => policy.was_up = TRUE
  BY <1>1 DEF Remembered
<1>4. link => attempt' = attempt
  BY <1>1 DEF Request, Remembered
<1>5. seen /\ Attempting' => dhcp' = "asking"
  <2>1. CASE ~link /\ ~Attempting /\ dhcp' = IF dhcp = "off" \/ policy.was_up THEN "asking" ELSE dhcp
    BY <1>3, <2>1
  <2>2. CASE UNCHANGED <<attempt, dhcp>>
    BY <2>2 DEF Remembered, Attempting
  <2> QED BY <1>1, <2>1, <2>2 DEF Request
<1> QED BY <1>1, <1>2, <1>3, <1>4, <1>5 DEF Remembered, Attempting

LEMMA OthersRemember ==
    ASSUME Remembered, Deliver \/ Awake \/ HttpdStep \/ Lapse \/ MoveAp \/ Pass \/ UNCHANGED vars
    PROVE  Remembered'
<1>1. UNCHANGED <<policy, link, seen, dhcp>>
  BY DEF Deliver, Awake, HttpdStep, AwaitLink, WaitOver, AwaitDone, Listen, Lapse, MoveAp, Pass, vars,
     worldVars
<1>2. CASE Awake
  <2>1. wifi.at = "sleep" /\ wifi' = [wifi EXCEPT !.at = "look"] /\ UNCHANGED attempt
    BY <1>2 DEF Awake, worldVars
  <2>2. {"at", "ready"} \subseteq DOMAIN wifi'
    BY <2>1 DEF Remembered
  <2> QED BY <1>1, <2>1, <2>2 DEF Remembered, Attempting
<1>3. CASE Pass
  <2>1. wifi.at = "sleep" /\ wifi' = [wifi EXCEPT !.left = wifi.left - 1]
    BY <1>3 DEF Pass, Resting
  <2>2. {"at", "ready"} \subseteq DOMAIN wifi'
    BY <2>1 DEF Remembered
  <2>3. ~Attempting => ~Attempting'
    BY <1>3 DEF Pass, Attempting
  <2> QED BY <1>1, <2>1, <2>2, <2>3 DEF Remembered
<1>4. CASE MoveAp \/ Lapse
  <2>1. UNCHANGED wifi /\ (~Attempting => ~Attempting')
    BY <1>4 DEF MoveAp, Lapse, Attempting
  <2> QED BY <1>1, <2>1 DEF Remembered
<1>5. CASE Deliver \/ HttpdStep \/ UNCHANGED vars
  <2>1. UNCHANGED <<wifi, attempt>>
    BY <1>5 DEF Deliver, HttpdStep, AwaitLink, WaitOver, AwaitDone, Listen, vars, worldVars
  <2> QED BY <1>1, <2>1 DEF Remembered, Attempting
<1> QED BY <1>2, <1>3, <1>4, <1>5

LEMMA LinkRemembers == ASSUME Remembered, Associate \/ Drop PROVE Remembered'
<1>1. UNCHANGED <<wifi, policy>> /\ link' \in BOOLEAN
  BY DEF Associate, Drop, Changed
<1>2. CASE Associate
  <2>1. seen' = FALSE /\ ~Attempting'
    BY <1>2 DEF Associate, Attempting
  <2> QED BY <1>1, <2>1 DEF Remembered
<1>3. CASE Drop
  <2>1. link = TRUE /\ link' = FALSE /\ UNCHANGED <<attempt, dhcp, seen>>
    BY <1>3 DEF Drop, Remembered
  <2> QED BY <1>1, <2>1 DEF Remembered, Attempting
<1> QED BY <1>2, <1>3

--------------------------------------------------------------------------------
(* The theorems.                                                              *)

\* In every reachable state the newest event tells how the link is, and a link that was
\* told is signalled or about to be.
THEOREM LinkInvariant == Spec => []IInv
<1>1. IInv /\ [Next]_vars => IInv'
  BY DeliverKeeps, WifiStepKeeps, HttpdStepKeeps, AssociateKeeps, DropKeeps, WorldKeeps DEF Next
<1> QED BY InitHolds, <1>1, PTL DEF Spec

\* A network that is up is never reported down for good: reflow_net_wait_ready() of l4.c,
\* in two threads, against mgmt_handler().
THEOREM NetworkIsSignalled == Spec => []UpIsSignalled
<1>1. IInv => UpIsSignalled
  BY DEF IInv, LinkIsTold, Given, Quiet, UpIsSignalled
<1> QED BY LinkInvariant, <1>1, PTL

\* In every reachable state of the station thread of wifi.c, an access point that has waited
\* is about to be asked, no later than the longest wait, or is being asked since no later.
THEOREM BackInTimeAlways == Spec => []BackInTime
<1>1. BackInTime /\ [Next]_vars => BackInTime'
  <2>1. ASSUME BackInTime, UNCHANGED vars PROVE BackInTime'
    BY <2>1 DEF vars, BackInTime, ClockTyped, Misled, Answered, Attempting
  <2> QED BY <2>1, DeliverInTime, LookInTime, LookDoneInTime, WatchInTime, ConnectInTime, AwakeInTime,
             HttpdInTime, WorldInTime, PassInTime DEF Next, WifiStep
<1> QED BY BackInit, <1>1, PTL DEF Spec

\* With a budget of the longest wait of wifipolicy.c and one association, which is how its
\* comment derives the ceiling, the link is back within the budget of the return of the
\* access point, however it went, unless the semaphore lies.
THEOREM BackWithinBudget ==
    ASSUME MaxWait + AssocMs <= Budget PROVE Spec => []BackUnlessMisled
<1>1. BackInTime => BackUnlessMisled
  <2> SUFFICES ASSUME BackInTime, waited > Budget, ~Misled PROVE FALSE
    BY DEF BackUnlessMisled
  <2>1. waited \in Nat /\ attempt \in Int /\ attempt <= AssocMs /\ wifi.left \in Int
    BY Waits DEF BackInTime, ClockTyped, NoAttempt, Stations
  <2>2. waited > 0 /\ Answered
    BY <2>1, Waits DEF BackInTime
  <2>3. waited <= MaxWait + AssocMs
    BY <2>1, <2>2, Waits DEF Answered
  <2> QED BY <2>1, <2>3, Waits
<1> QED BY BackInTimeAlways, <1>1, PTL

\* wifipolicy.c remembers that the link was up through any number of failed attempts: the
\* lease of an association that a look has found up is never carried into the next one.
THEOREM LeasesAreRenewed == Spec => LeaseIsRenewed
<1>1. Remembered /\ [Next]_vars => Remembered'
  BY LookRemembers, LookDoneRemembers, WatchRemembers, ConnectRemembers, LinkRemembers, OthersRemember
     DEF Next, WifiStep
<1>2. Remembered /\ [Next]_vars => [~link /\ link' /\ seen => dhcp = "asking"]_vars
  <2> SUFFICES ASSUME Remembered, [Next]_vars, ~link, link', seen PROVE dhcp = "asking"
    OBVIOUS
  <2>1. UNCHANGED link \/ Associate \/ Drop
    BY DEF Next, Deliver, WifiStep, Look, LookDone, Watch, Connect, Awake, HttpdStep, AwaitLink, WaitOver,
       AwaitDone, Listen, Lapse, MoveAp, Pass, worldVars, vars
  <2>2. Associate
    BY <2>1 DEF Drop
  <2> QED BY <2>2 DEF Associate, Remembered
<1> QED BY NothingSeenYet, <1>1, <1>2, PTL DEF Spec, LeaseIsRenewed
================================================================================
