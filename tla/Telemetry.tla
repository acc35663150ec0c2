-------------------------------- MODULE Telemetry --------------------------------
(***************************************************************************)
(* A frame on its way from publish() in controller.c to the display of     *)
(* display_ui.c and to the snapshot of httpd.c, over the zbus channel.     *)
(*                                                                         *)
(* zbus is external: zbus_chan_pub() holds the channel for the whole       *)
(* delivery and its timeout is one deadline for the lock and the queues of *)
(* the subscribers.  It notifies the observers by priority, the display    *)
(* before the listeners, and a full queue costs it the rest of its time.   *)
(*                                                                         *)
(* A frame has several fields and a copy takes a step for each, so that    *)
(* it could come out of two frames.  A tick is TickMs; a thread may be     *)
(* kept from running for any time, except the control thread, which        *)
(* outranks the others and waits for nothing but them.                     *)
(***************************************************************************)
EXTENDS Integers

CONSTANTS
    Frames,        \* what there may be to tell
    Fields,        \* of a frame
    SubQueue,      \* the slots of ZBUS_SUBSCRIBER_DEFINE
    PubTimeout,    \* of zbus_chan_pub(), 20 ms
    ReadTimeout,   \* of zbus_chan_read(), 20 ms
    LockTimeout    \* of the listener's k_mutex_lock(), 5 ms

ASSUME TelemetryAssumption ==
    /\ Frames # {} /\ Fields # {}
    /\ {SubQueue, PubTimeout, ReadTimeout, LockTimeout} \subseteq Nat \ {0}
    /\ LockTimeout < ReadTimeout

VARIABLES
    pub,           \* publish(): where it is, what it tells, what is left of its deadline
    chan,          \* the message of the channel, field by field
    holder,        \* who has the channel: "none", "pub" or "display"
    queued,        \* signals in the display's queue
    enabled,       \* the display observes the channel
    display,       \* its thread
    shown,         \* what it has drawn
    lock,          \* who has snap_lock: "none", "pub" or "server"
    snapshot,
    server,        \* build_state_json(): its copy of the snapshot
    sent           \* what it made into JSON

vars == <<pub, chan, holder, queued, enabled, display, shown, lock, snapshot, server, sent>>
pubVars == <<pub, chan, snapshot>>
displayVars == <<queued, enabled, display, shown>>
serverVars == <<server, sent>>

\* A message with every field of one frame.
Whole(f) == [x \in Fields |-> f]
Blank == CHOOSE f \in Frames : TRUE

\* A thread that copies a message: the fields it has yet to copy, and those it has.
Copying(at, left) == [at |-> at, left |-> left, todo |-> Fields, copy |-> Whole(Blank)]

Init ==
    /\ pub = [at |-> "idle", frame |-> Blank, left |-> 0, todo |-> {}, spent |-> 0, free |-> FALSE]
    /\ chan = Whole(Blank) /\ holder = "none"
    /\ queued = 0 /\ enabled = TRUE
    /\ display = Copying("start", 0) /\ shown = Whole(Blank)
    /\ lock = "none" /\ snapshot = Whole(Blank)
    /\ server = Copying("idle", 0) /\ sent = Whole(Blank)

--------------------------------------------------------------------------------
(* The control thread in publish().                                           *)

\* "free": the display had given up when this publication began.
Publish ==
    /\ pub.at = "idle"
    /\ \E f \in Frames :
          pub' = [at |-> "lock", frame |-> f, left |-> PubTimeout, todo |-> Fields, spent |-> 0,
                  free |-> display.at = "gone"]
    /\ UNCHANGED <<chan, holder, displayVars, lock, snapshot, serverVars>>

\* The channel is taken, or not in time, and the frame is lost.
TakeChannel ==
    /\ pub.at = "lock"
    /\ \/ /\ holder = "none"
          /\ holder' = "pub"
          /\ pub' = [pub EXCEPT !.at = "write"]
       \/ /\ holder # "none" /\ pub.left = 0
          /\ pub' = [pub EXCEPT !.at = "idle"]
          /\ UNCHANGED holder
    /\ UNCHANGED <<chan, displayVars, lock, snapshot, serverVars>>

Write ==
    /\ pub.at = "write"
    /\ IF pub.todo = {}
          THEN pub' = [pub EXCEPT !.at = "notify"] /\ UNCHANGED chan
          ELSE \E x \in pub.todo :
                  /\ chan' = [chan EXCEPT ![x] = pub.frame]
                  /\ pub' = [pub EXCEPT !.todo = @ \ {x}]
    /\ UNCHANGED <<holder, displayVars, lock, snapshot, serverVars>>

\* An observer that is disabled is passed over.
Notify ==
    /\ pub.at = "notify"
    /\ pub' = IF enabled THEN [pub EXCEPT !.at = "signal"]
                         ELSE [pub EXCEPT !.at = "listener", !.left = LockTimeout]
    /\ UNCHANGED <<chan, holder, displayVars, lock, snapshot, serverVars>>

\* A signal to the subscriber; there are no details in it.  What waits for its queue
\* does so to the end, if the subscriber leaves meanwhile.
Signal ==
    /\ pub.at = "signal"
    /\ \/ queued < SubQueue /\ queued' = queued + 1
       \/ queued = SubQueue /\ pub.left = 0 /\ UNCHANGED queued
    /\ pub' = [pub EXCEPT !.at = "listener", !.left = LockTimeout]
    /\ UNCHANGED <<chan, holder, enabled, display, shown, lock, snapshot, serverVars>>

\* Planted bug: the listener waits for the lock for ever.
LockGivenUp_Never == FALSE

\* k_mutex_lock() with its timeout.
LockGivenUp == lock # "none" /\ pub.left = 0

\* telemetry_cb(): it takes the snapshot, or leaves the old one.
Listener ==
    /\ pub.at = "listener"
    /\ \/ /\ lock = "none"
          /\ lock' = "pub"
          /\ pub' = [pub EXCEPT !.at = "copy", !.todo = Fields]
       \/ /\ LockGivenUp
          /\ pub' = [pub EXCEPT !.at = "done"]
          /\ UNCHANGED lock
    /\ UNCHANGED <<chan, holder, displayVars, snapshot, serverVars>>

TakeSnapshot ==
    /\ pub.at = "copy"
    /\ IF pub.todo = {}
          THEN pub' = [pub EXCEPT !.at = "done"] /\ lock' = "none" /\ UNCHANGED snapshot
          ELSE \E x \in pub.todo :
                  /\ snapshot' = [snapshot EXCEPT ![x] = chan[x]]
                  /\ pub' = [pub EXCEPT !.todo = @ \ {x}]
                  /\ UNCHANGED lock
    /\ UNCHANGED <<chan, holder, displayVars, serverVars>>

Published ==
    /\ pub.at = "done"
    /\ holder' = "none"
    /\ pub' = [pub EXCEPT !.at = "idle"]
    /\ UNCHANGED <<chan, displayVars, lock, snapshot, serverVars>>

Publishing == TakeChannel \/ Write \/ Notify \/ Signal \/ Listener \/ TakeSnapshot \/ Published

--------------------------------------------------------------------------------
(* display_thread()                                                           *)

\* Planted bug: it returns and stays an observer.
EnabledWithoutPanel_Still == TRUE

\* zbus_obs_set_enable()
EnabledWithoutPanel == FALSE

DisplayStart ==
    /\ display.at = "start"
    /\ \/ display' = Copying("wait", 0) /\ UNCHANGED enabled
       \/ display' = Copying("gone", 0) /\ enabled' = EnabledWithoutPanel
    /\ UNCHANGED <<pubVars, holder, queued, shown, lock, serverVars>>

\* zbus_sub_wait(); without a signal the loop goes round.
SubWait ==
    /\ display.at = "wait" /\ queued > 0
    /\ queued' = queued - 1
    /\ display' = Copying("read", ReadTimeout)
    /\ UNCHANGED <<pubVars, holder, enabled, shown, lock, serverVars>>

\* Planted bug: the channel is read only if it is free.
ReadGivenUp_AtOnce == holder = "pub"

\* The timeout of zbus_chan_read().
ReadGivenUp == holder = "pub" /\ display.left = 0

\* zbus_chan_read(): the channel, or the signal was for nothing.
ReadBegin ==
    /\ display.at = "read"
    /\ \/ /\ holder = "none"
          /\ holder' = "display"
          /\ display' = [display EXCEPT !.at = "copy"]
       \/ /\ ReadGivenUp
          /\ display' = Copying("wait", 0)
          /\ UNCHANGED holder
    /\ UNCHANGED <<pubVars, queued, enabled, shown, lock, serverVars>>

Copied(thread, message, x) ==
    [thread EXCEPT !.todo = @ \ {x}, !.copy = [@ EXCEPT ![x] = message[x]]]

\* The copy, and ui_update() with it.
ReadAndDraw ==
    /\ display.at = "copy"
    /\ IF display.todo = {}
          THEN /\ holder' = "none"
               /\ shown' = display.copy
               /\ display' = Copying("wait", 0)
          ELSE /\ \E x \in display.todo : display' = Copied(display, chan, x)
               /\ UNCHANGED <<holder, shown>>
    /\ UNCHANGED <<pubVars, queued, enabled, lock, serverVars>>

Display == DisplayStart \/ SubWait \/ ReadBegin \/ ReadAndDraw

--------------------------------------------------------------------------------
(* The server thread in build_state_json(), which waits for the lock as long  *)
(* as it takes.                                                               *)

\* Planted bug: the copy is made outside the lock.
ServerTakes_Nothing == UNCHANGED lock
ServerTakes == lock = "none" /\ lock' = "server"

AskSnapshot ==
    /\ server.at = "idle"
    /\ ServerTakes
    /\ server' = Copying("copy", 0)
    /\ UNCHANGED <<pubVars, holder, displayVars, sent>>

CopySnapshot ==
    /\ server.at = "copy"
    /\ IF server.todo = {}
          THEN /\ lock' = IF lock = "server" THEN "none" ELSE lock
               /\ sent' = server.copy
               /\ server' = Copying("idle", 0)
          ELSE /\ \E x \in server.todo : server' = Copied(server, snapshot, x)
               /\ UNCHANGED <<lock, sent>>
    /\ UNCHANGED <<pubVars, holder, displayVars>>

--------------------------------------------------------------------------------
(* Time.  The control thread does not dawdle, and who waits for a lock that   *)
(* is free has it.                                                            *)

Blocked ==
    \/ pub.at = "idle"
    \/ pub.at = "lock" /\ holder # "none" /\ pub.left > 0
    \/ pub.at = "signal" /\ queued = SubQueue /\ pub.left > 0
    \/ pub.at = "listener" /\ lock # "none" /\ ~LockGivenUp

Less(n) == IF n > 0 THEN n - 1 ELSE 0

SpentBound == PubTimeout + LockTimeout + 1

Tick ==
    /\ Blocked
    /\ display.at = "read" => holder = "pub" /\ display.left > 0
    /\ pub' = IF pub.at = "idle" THEN pub
              ELSE [pub EXCEPT !.left = Less(@), !.spent = IF @ < SpentBound THEN @ + 1 ELSE @]
    /\ display' = [display EXCEPT !.left = Less(@)]
    /\ UNCHANGED <<chan, holder, queued, enabled, shown, lock, snapshot, serverVars>>

Next == Publish \/ Publishing \/ Display \/ AskSnapshot \/ CopySnapshot \/ Tick

\* The threads are scheduled, and time passes.
Spec ==
    /\ Init /\ [][Next]_vars
    /\ WF_vars(Publishing) /\ WF_vars(Display) /\ WF_vars(CopySnapshot) /\ WF_vars(Tick)

--------------------------------------------------------------------------------

TypeOK ==
    /\ pub \in [at : {"idle", "lock", "write", "notify", "signal", "listener", "copy", "done"},
                frame : Frames, left : Nat, todo : SUBSET Fields, spent : 0 .. SpentBound,
                free : BOOLEAN]
    /\ {chan, shown, snapshot, sent} \subseteq [Fields -> Frames]
    /\ holder \in {"none", "pub", "display"} /\ lock \in {"none", "pub", "server"}
    /\ queued \in 0 .. SubQueue /\ enabled \in BOOLEAN
    /\ \A thread \in {display, server} :
          thread \in [at : {"start", "wait", "read", "copy", "gone", "idle"}, left : Nat,
                      todo : SUBSET Fields, copy : [Fields -> Frames]]

\* What is drawn and what is sent is a frame as it was published, never the fields of two.
WholeFrames == \A message \in {shown, sent} : \E f \in Frames : message = Whole(f)

\* A publication costs the control loop its timeout and the listener's lock, no more, and
\* once the panel was found missing no more than the wait for the snapshot's lock.
PublishIsBounded ==
    /\ pub.spent <= PubTimeout + LockTimeout
    /\ pub.free => pub.spent <= LockTimeout

\* The display ends up with the last frame on the channel even if no other follows,
\* although its queue drops signals and its reads give up.
DisplayCatchesUp ==
    \A f \in Frames :
        <>[](chan = Whole(f) /\ pub.at = "idle") => <>(shown = Whole(f) \/ display.at = "gone")
================================================================================
