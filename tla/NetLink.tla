--------------------------------- MODULE NetLink ---------------------------------
(***************************************************************************)
(* Whether the network can be used: the binary semaphore of src/net/l4.c,  *)
(* the Wi-Fi station thread of wifi.c with its policy wifipolicy.c, and    *)
(* the HTTP server's wait for a link at the start of httpd.c.              *)
(*                                                                         *)
(* reflow_net_wait_ready() takes the semaphore and gives it back, two      *)
(* steps between which the thread that delivers network events may run.    *)
(* The access point and the driver are external: a request that was        *)
(* accepted associates within AssocMs while the access point is there, and *)
(* a request is refused only if it is absent or the driver is busy.        *)
(***************************************************************************)
EXTENDS Integers, Sequences

CONSTANTS
    SuperviseMs,   \* REFLOW_WIFI_SUPERVISE_MS, _RETRY_MIN_MS and _RETRY_MAX_MS
    MinWait,
    MaxWait,
    AssocMs,       \* the longest association, address included
    Budget,        \* how soon the link is promised to be back
    MaxAttempts,   \* bound: attempts are counted up to here
    EventDepth     \* bound: events of the link not yet delivered

ASSUME NetLinkAssumption ==
    /\ SuperviseMs \in Nat \ {0} /\ MinWait \in Nat \ {0} /\ MaxWait \in Nat
    /\ MaxWait >= MinWait /\ MaxWait >= SuperviseMs
    /\ AssocMs \in Nat /\ Budget \in Nat
    /\ MaxAttempts \in Nat \ {0} /\ EventDepth \in Nat \ {0}
    /\ MinWait * 2 ^ (MaxAttempts - 1) >= MaxWait

VARIABLES
    sem,           \* the count of l4_ready, at most 1
    events,        \* changes of the link that mgmt_handler() has not seen
    wifi,          \* the station thread: where it is, what it saw, how long it sleeps on
    policy,        \* struct reflow_wifi_policy
    httpd,         \* the server thread up to its listening socket
    ap,            \* the access point is there
    link,          \* associated and with an address
    attempt,       \* the driver is associating: for how long with the access point there
    dhcp,          \* the DHCP client, with the lease it holds
    seen,          \* history: a look has found up the association of the lease
    waited         \* history: how long the access point has been there without a link

vars == <<sem, events, wifi, policy, httpd, ap, link, attempt, dhcp, seen, waited>>
worldVars == <<ap, link, attempt, dhcp, seen, waited>>

NoAttempt == -1

Attempting == attempt # NoAttempt

TypeOK ==
    /\ sem \in 0 .. 1
    /\ events \in Seq({"CONNECTED", "DISCONNECTED"}) /\ Len(events) <= EventDepth
    /\ wifi \in [at : {"look", "giveback", "decide", "sleep"}, ready : BOOLEAN, left : Nat]
    /\ policy \in [attempts : 0 .. MaxAttempts, was_up : BOOLEAN]
    /\ httpd \in {"start", "wait", "giveback", "listen", "serving", "gone"}
    /\ ap \in BOOLEAN /\ link \in BOOLEAN
    /\ attempt \in NoAttempt .. AssocMs
    /\ dhcp \in {"off", "asking", "bound"} /\ seen \in BOOLEAN
    /\ waited \in 0 .. Budget + 1

Init ==
    /\ sem = 0
    /\ events = <<>>
    /\ wifi = [at |-> "look", ready |-> FALSE, left |-> 0]
    /\ policy = [attempts |-> 0, was_up |-> FALSE]
    /\ httpd = "start"
    /\ ap \in BOOLEAN /\ link = FALSE
    /\ attempt = NoAttempt
    /\ dhcp = "off" /\ seen = FALSE
    /\ waited = 0

--------------------------------------------------------------------------------
(* l4.c                                                                       *)

\* Planted bug: a semaphore without a limit.
GiveSem_Unlimited ==
    IF httpd = "wait" THEN httpd' = "giveback" /\ UNCHANGED sem
                      ELSE sem' = sem + 1 /\ UNCHANGED httpd

\* k_sem_give() hands the semaphore to the server if it waits; its limit is 1.
GiveSem ==
    IF httpd = "wait" THEN httpd' = "giveback" /\ UNCHANGED sem
                      ELSE sem' = 1 /\ UNCHANGED httpd

\* k_sem_reset(): whoever waits returns empty-handed, and waits again.
ResetSem ==
    /\ sem' = 0
    /\ httpd' = IF httpd = "wait" THEN "start" ELSE httpd

\* mgmt_handler(), in the thread of the network events.
Deliver ==
    /\ events # <<>>
    /\ events' = Tail(events)
    /\ IF Head(events) = "CONNECTED" THEN GiveSem ELSE ResetSem
    /\ UNCHANGED <<wifi, policy, worldVars>>

--------------------------------------------------------------------------------
(* wifi.c: one turn of the loop, reflow_net_wait_ready(K_NO_WAIT) in two      *)
(* steps.                                                                     *)

Look ==
    /\ wifi.at = "look"
    /\ sem' = 0
    /\ wifi' = [wifi EXCEPT !.at = IF sem = 1 THEN "giveback" ELSE "decide", !.ready = (sem = 1)]
    /\ seen' = (seen \/ (sem = 1 /\ link))
    /\ UNCHANGED <<events, policy, httpd, ap, link, attempt, dhcp, waited>>

\* Planted bug: what was taken is kept.
LookDone_Keeps ==
    /\ wifi.at = "giveback"
    /\ wifi' = [wifi EXCEPT !.at = "decide"]
    /\ UNCHANGED <<sem, httpd, events, policy, worldVars>>

\* "Leave it signalled: several modules may wait on it."
LookDone ==
    /\ wifi.at = "giveback"
    /\ GiveSem
    /\ wifi' = [wifi EXCEPT !.at = "decide"]
    /\ UNCHANGED <<events, policy, worldVars>>

\* Planted bug: no ceiling.
Backoff_Unclamped(attempts) == MinWait * 2 ^ (attempts - 1)

\* backoff_ms(): doubled from the floor, clamped at the ceiling.
Backoff(attempts) ==
    LET ms == MinWait * 2 ^ (attempts - 1)
    IN  IF ms > MaxWait THEN MaxWait ELSE ms

\* reflow_wifi_policy_step() with the link up.
Watch ==
    /\ wifi.at = "decide" /\ wifi.ready
    /\ policy' = [attempts |-> 0, was_up |-> TRUE]
    /\ wifi' = [wifi EXCEPT !.at = "sleep", !.left = SuperviseMs]
    /\ UNCHANGED <<sem, events, httpd, worldVars>>

\* NET_REQUEST_WIFI_CONNECT, and after it the DHCP client: a client that is running
\* is started anew only if it is stopped first.
Request(stale_lease) ==
    \/ /\ ~link /\ ~Attempting
       /\ attempt' = 0
       /\ dhcp' = IF dhcp = "off" \/ stale_lease THEN "asking" ELSE dhcp
    \/ /\ ~ap \/ link \/ Attempting
       /\ UNCHANGED <<attempt, dhcp>>

\* Planted bug: whether the link was up is asked of the last turn only, as by the flag of
\* wifi.c that words its messages.
Connect_Forgets ==
    /\ wifi.at = "decide" /\ ~wifi.ready
    /\ policy' = [attempts |-> IF policy.attempts < MaxAttempts THEN policy.attempts + 1
                                                            ELSE policy.attempts,
                  was_up |-> FALSE]
    /\ wifi' = [wifi EXCEPT !.at = "sleep", !.left = Backoff(policy'.attempts)]
    /\ Request(policy.was_up)
    /\ UNCHANGED <<sem, events, httpd, ap, link, seen, waited>>

\* reflow_wifi_policy_step() with the link down, and the request it asks for.
Connect ==
    /\ wifi.at = "decide" /\ ~wifi.ready
    /\ policy' = [policy EXCEPT !.attempts = IF @ < MaxAttempts THEN @ + 1 ELSE @]
    /\ wifi' = [wifi EXCEPT !.at = "sleep", !.left = Backoff(policy'.attempts)]
    /\ Request(policy.was_up)
    /\ UNCHANGED <<sem, events, httpd, ap, link, seen, waited>>

Awake ==
    /\ wifi.at = "sleep" /\ wifi.left = 0
    /\ wifi' = [wifi EXCEPT !.at = "look"]
    /\ UNCHANGED <<sem, events, policy, httpd, worldVars>>

WifiStep == Look \/ LookDone \/ Watch \/ Connect \/ Awake

--------------------------------------------------------------------------------
(* httpd.c: the wait for the link.                                            *)

\* k_sem_take(), which waits if there is nothing to take.
AwaitLink ==
    /\ httpd = "start"
    /\ httpd' = IF sem = 1 THEN "giveback" ELSE "wait"
    /\ sem' = 0
    /\ UNCHANGED <<events, wifi, policy, worldVars>>

\* Planted bug: the server's wait is over when the time is.
WaitOver_GivesUp ==
    /\ httpd = "wait"
    /\ httpd' = "gone"
    /\ UNCHANGED <<sem, events, wifi, policy, worldVars>>

\* LINK_WAIT has passed: the thread says so and waits again.
WaitOver ==
    /\ httpd = "wait"
    /\ httpd' = "start"
    /\ UNCHANGED <<sem, events, wifi, policy, worldVars>>

AwaitDone ==
    /\ httpd = "giveback"
    /\ httpd' = "listen"
    /\ sem' = 1
    /\ UNCHANGED <<events, wifi, policy, worldVars>>

\* listen_socket(): the thread returns if it fails.
Listen ==
    /\ httpd = "listen"
    /\ httpd' \in {"serving", "gone"}
    /\ UNCHANGED <<sem, events, wifi, policy, worldVars>>

HttpdStep == AwaitLink \/ WaitOver \/ AwaitDone \/ Listen

--------------------------------------------------------------------------------
(* The access point, the driver and time.                                     *)

Changed(event) ==
    /\ Len(events) < EventDepth
    /\ events' = Append(events, event)
    /\ waited' = 0
    /\ UNCHANGED <<sem, wifi, policy, httpd>>

Associate ==
    /\ Attempting /\ ap /\ ~link
    /\ link' = TRUE
    /\ attempt' = NoAttempt
    /\ dhcp' = "bound" /\ seen' = FALSE
    /\ Changed("CONNECTED")
    /\ UNCHANGED ap

\* With the access point gone, or by its will.
Drop ==
    /\ link
    /\ link' = FALSE
    /\ Changed("DISCONNECTED")
    /\ UNCHANGED <<ap, attempt, dhcp, seen>>

\* An attempt without an access point comes to nothing sooner or later.
Lapse ==
    /\ Attempting /\ ~ap
    /\ attempt' = NoAttempt
    /\ UNCHANGED <<sem, events, wifi, policy, httpd, ap, link, dhcp, seen, waited>>

\* The access point leaves, when it has dropped the link, or comes back.
MoveAp ==
    /\ ~link
    /\ ap' = ~ap
    /\ attempt' = IF Attempting THEN 0 ELSE attempt
    /\ waited' = 0
    /\ UNCHANGED <<sem, events, wifi, policy, httpd, link, dhcp, seen>>

\* Steps of threads take no time next to the waits.
Resting == wifi.at = "sleep" /\ wifi.left > 0 /\ events = <<>>
               /\ httpd \notin {"start", "giveback"}

Pass ==
    /\ Resting
    /\ ap => attempt < AssocMs
    /\ wifi' = [wifi EXCEPT !.left = @ - 1]
    /\ attempt' = IF Attempting /\ ap THEN attempt + 1 ELSE attempt
    /\ waited' = IF ap /\ ~link /\ waited <= Budget THEN waited + 1 ELSE waited
    /\ UNCHANGED <<sem, events, policy, httpd, ap, link, dhcp, seen>>

Next == Deliver \/ WifiStep \/ HttpdStep \/ Associate \/ Drop \/ Lapse \/ MoveAp \/ Pass

Spec == Init /\ [][Next]_vars

\* Events are delivered, time passes and both threads run on.
Fairness ==
    /\ WF_vars(Deliver) /\ WF_vars(Pass)
    /\ WF_vars(WifiStep) /\ WF_vars(AwaitLink) /\ WF_vars(AwaitDone)

LiveSpec == Spec /\ Fairness

--------------------------------------------------------------------------------

\* No event is under way and no thread is between its take and its give.
Quiet == events = <<>> /\ wifi.at # "giveback" /\ httpd # "giveback"

\* A network that is up is never reported down for good: takes, gives and events in
\* any order leave the semaphore given.
UpIsSignalled == Quiet /\ link => sem = 1

\* The semaphore is given, or about to be given back, and the network is down: a reset
\* came between a take and its give.
Misled ==
    /\ events = <<>> /\ ~link
    /\ sem = 1 \/ wifi.at = "giveback" \/ httpd = "giveback"

\* The link is back within its budget from the return of the access point, however it
\* went and whatever the thread was waiting for, unless the semaphore lies.
BackUnlessMisled == waited > Budget => Misled

\* wifipolicy.c restarts the DHCP client on a reassociation: the lease of an association
\* that a look has found up is not carried into the next one, whatever was refused, lapsed
\* or answered late in between.  One that came and went between two looks is carried on.
LeaseIsRenewed == [][~link /\ link' /\ seen => dhcp = "asking"]_vars

\* A server that waits for a network that stays up gets as far as its socket.
ServerReached == <>[]link => <>(httpd = "listen")

\* wifipolicy.c: "the original acceptance criterion is that the web UI is back within
\* 60 s of the access point returning."
BackInBudget == waited <= Budget
================================================================================
