----------------------------- MODULE TelemetryProofs -----------------------------
(***************************************************************************)
(* For any frames, fields, queue and timeouts of module Telemetry: nothing *)
(* is ever drawn or sent that was not published, and what a publication    *)
(* costs the control thread.                                               *)
(***************************************************************************)
EXTENDS Telemetry, TLAPS

Messages == [Fields -> Frames]

--------------------------------------------------------------------------------
(* The inductive invariant.                                                   *)

\* Who has the channel, and who has snap_lock.
ChannelHeld ==
    /\ holder = "pub" <=> pub.at \in {"write", "notify", "signal", "listener", "copy", "done"}
    /\ holder = "display" <=> display.at = "copy"

LockHeld ==
    /\ lock = "pub" <=> pub.at = "copy"
    /\ lock = "server" <=> server.at = "copy"

IsWhole(message) == \E f \in Frames : message = Whole(f)

\* The channel and the snapshot are whole except while they are written, and what has
\* been written of them is right.
ChannelWhole ==
    IF pub.at = "write" THEN \A x \in Fields \ pub.todo : chan[x] = pub.frame
                        ELSE IsWhole(chan)

SnapshotWhole ==
    IF pub.at = "copy" THEN \A x \in Fields \ pub.todo : snapshot[x] = chan[x]
                       ELSE IsWhole(snapshot)

\* Who waits for the channel has copied nothing, and a copy under way agrees with what it
\* is a copy of.
CopiesAgree ==
    /\ pub.at = "lock" => pub.todo = Fields
    /\ display.at = "read" => display.todo = Fields
    /\ display.at = "copy" => \A x \in Fields \ display.todo : display.copy[x] = chan[x]
    /\ server.at = "copy" => \A x \in Fields \ server.todo : server.copy[x] = snapshot[x]

\* What a publication has waited and may still wait is what its timeouts add up to.
CostBounded ==
    /\ pub.at \in {"lock", "write", "notify", "signal"} => pub.spent + pub.left <= PubTimeout
    /\ pub.at \in {"listener", "copy", "done"} => pub.spent + pub.left <= PubTimeout + LockTimeout
    /\ pub.at = "idle" => pub.spent <= PubTimeout + LockTimeout

\* The same without a display to wait for: nothing is put into its queue.
FreeOfDisplay ==
    /\ display.at = "gone" => enabled = FALSE
    /\ pub.free = TRUE =>
          /\ display.at = "gone" /\ pub.at # "signal"
          /\ pub.at \in {"lock", "write", "notify"} => pub.spent = 0
          /\ pub.at \in {"listener", "copy", "done"} => pub.spent + pub.left <= LockTimeout
          /\ pub.at = "idle" => pub.spent <= LockTimeout

PubAts == {"idle", "lock", "write", "notify", "signal", "listener", "copy", "done"}

\* The thread of the display and that of the server.
Threads(ats) == [at : ats, left : Nat, todo : SUBSET Fields, copy : Messages]

\* The types that the rest needs.
Typed ==
    /\ pub \in [at : PubAts, frame : Frames, left : Nat, todo : SUBSET Fields, spent : Nat,
                free : BOOLEAN]
    /\ chan \in Messages /\ snapshot \in Messages
    /\ display \in Threads({"start", "wait", "read", "copy", "gone"})
    /\ server \in Threads({"idle", "copy"})
    /\ holder \in {"none", "pub", "display"} /\ lock \in {"none", "pub", "server"}

Wholeness == ChannelWhole /\ SnapshotWhole /\ CopiesAgree /\ IsWhole(shown) /\ IsWhole(sent)

Cost == CostBounded /\ FreeOfDisplay

IInv ==
    /\ Typed
    /\ ChannelHeld /\ LockHeld
    /\ Wholeness
    /\ Cost

--------------------------------------------------------------------------------
(* Lemmas about messages.                                                     *)

LEMMA Bounds ==
    /\ SubQueue \in Nat /\ PubTimeout \in Nat /\ ReadTimeout \in Nat /\ LockTimeout \in Nat
BY TelemetryAssumption

LEMMA BlankType == Blank \in Frames
BY TelemetryAssumption DEF Blank

LEMMA WholeType == ASSUME NEW f \in Frames PROVE Whole(f) \in Messages /\ IsWhole(Whole(f))
BY DEF Whole, Messages, IsWhole

\* Two messages that agree in every field are one.
LEMMA SameMessage ==
    ASSUME NEW m \in Messages, NEW n \in Messages, \A x \in Fields : m[x] = n[x]
    PROVE  m = n
BY DEF Messages

\* A message of which every field is out of one frame is whole.
LEMMA FilledMessage ==
    ASSUME NEW m \in Messages, NEW f \in Frames, \A x \in Fields : m[x] = f
    PROVE  IsWhole(m)
<1>1. m = Whole(f)
  BY WholeType, SameMessage DEF Whole
<1> QED BY <1>1 DEF IsWhole

LEMMA CopyingType ==
    ASSUME NEW ats, NEW at \in ats, NEW left \in Nat
    PROVE  /\ Copying(at, left) \in Threads(ats)
           /\ Copying(at, left).at = at
           /\ Copying(at, left).todo = Fields
BY BlankType DEF Copying, Threads, Whole, Messages

\* A copy grows by one field that agrees.
LEMMA CopiedGrows ==
    ASSUME NEW ats, NEW thread \in Threads(ats), NEW message \in Messages,
           NEW x \in thread.todo,
           \A y \in Fields \ thread.todo : thread.copy[y] = message[y]
    PROVE  /\ Copied(thread, message, x) \in Threads(ats)
           /\ Copied(thread, message, x).at = thread.at
           /\ \A y \in Fields \ Copied(thread, message, x).todo :
                 Copied(thread, message, x).copy[y] = message[y]
<1> DEFINE t == Copied(thread, message, x)
           c == [thread.copy EXCEPT ![x] = message[x]]
<1>1. x \in Fields /\ message[x] \in Frames /\ thread.copy \in Messages
  BY DEF Messages, Threads
<1>2. c \in Messages
  BY <1>1 DEF Messages
<1>3. t = [thread EXCEPT !.todo = thread.todo \ {x}, !.copy = c]
  BY Zenon DEF Copied
<1>4. \A y \in Fields \ (thread.todo \ {x}) : c[y] = message[y]
  BY <1>1 DEF Messages
<1> HIDE DEF t, c
<1>5. t \in Threads(ats) /\ t.at = thread.at /\ t.todo = thread.todo \ {x} /\ t.copy = c
  BY <1>2, <1>3 DEF Threads
<1> QED BY <1>4, <1>5 DEF t

--------------------------------------------------------------------------------
(* The initial state.                                                         *)

LEMMA InitHolds == Init => IInv
<1> SUFFICES ASSUME Init PROVE IInv
  OBVIOUS
<1>1. display \in Threads({"start", "wait", "read", "copy", "gone"}) /\ display.at = "start"
  BY CopyingType DEF Init
<1>2. server \in Threads({"idle", "copy"}) /\ server.at = "idle"
  BY CopyingType DEF Init
<1>3. Whole(Blank) \in Messages /\ IsWhole(Whole(Blank))
  BY BlankType, WholeType
<1>4. Typed
  BY <1>1, <1>2, <1>3, BlankType DEF Init, Typed, PubAts
<1>5. ChannelHeld /\ LockHeld
  BY <1>1, <1>2 DEF Init, ChannelHeld, LockHeld
<1>6. Wholeness
  BY <1>1, <1>2, <1>3 DEF Init, Wholeness, ChannelWhole, SnapshotWhole, CopiesAgree
<1>7. Cost
  BY <1>1, Bounds DEF Init, Cost, CostBounded, FreeOfDisplay
<1> QED BY <1>4, <1>5, <1>6, <1>7 DEF IInv

--------------------------------------------------------------------------------
(* The control thread.                                                        *)

LEMMA PublishKeeps == ASSUME IInv, Publish PROVE IInv'
<1> PICK f \in Frames :
       pub' = [at |-> "lock", frame |-> f, left |-> PubTimeout, todo |-> Fields, spent |-> 0,
               free |-> display.at = "gone"]
  BY Zenon DEF Publish
<1> USE DEF Publish, displayVars, serverVars
<1>1. Typed'
  BY Bounds DEF IInv, Typed, PubAts
<1>2. ChannelHeld' /\ LockHeld'
  BY DEF IInv, ChannelHeld, LockHeld
<1>3. Wholeness'
  BY DEF IInv, Wholeness, ChannelWhole, SnapshotWhole, CopiesAgree, IsWhole
<1>4. CostBounded'
  BY Bounds DEF CostBounded
<1>5. /\ pub'.free = (display.at = "gone")
      /\ pub'.at = "lock" /\ pub'.spent = 0
  BY Zenon
<1>6. FreeOfDisplay'
  BY <1>5 DEF IInv, Cost, FreeOfDisplay
<1> QED BY <1>1, <1>2, <1>3, <1>4, <1>6 DEF IInv, Cost

LEMMA TakeChannelKeeps == ASSUME IInv, TakeChannel PROVE IInv'
<1> USE DEF TakeChannel, displayVars, serverVars
<1>1. Typed'
  BY DEF IInv, Typed, PubAts
<1>2. ChannelHeld' /\ LockHeld'
  BY DEF IInv, Typed, ChannelHeld, LockHeld
<1>3. Wholeness'
  <2>1. pub'.at \in {"idle", "write"} /\ pub'.todo = pub.todo /\ pub'.frame = pub.frame
    BY DEF IInv, Typed
  <2> QED BY <2>1 DEF IInv, Typed, Wholeness, ChannelWhole, SnapshotWhole, CopiesAgree
<1>4. Cost'
  BY Bounds DEF IInv, Typed, Cost, CostBounded, FreeOfDisplay
<1> QED BY <1>1, <1>2, <1>3, <1>4 DEF IInv

LEMMA WriteKeeps == ASSUME IInv, Write PROVE IInv'
<1> USE DEF Write, displayVars, serverVars
<1> DEFINE Held == ChannelHeld' /\ LockHeld'
<1>1. CASE pub.todo = {}
  <2>1. pub' = [pub EXCEPT !.at = "notify"] /\ chan' = chan
    BY <1>1
  <2>2. Typed'
    BY <2>1 DEF IInv, Typed, PubAts
  <2>3. Held
    BY <2>1 DEF IInv, Typed, ChannelHeld, LockHeld
  <2>4. IsWhole(chan)
    BY <1>1, FilledMessage DEF IInv, Typed, Wholeness, ChannelWhole
  <2>5. Wholeness'
    BY <2>1, <2>4 DEF IInv, Typed, Wholeness, ChannelWhole, SnapshotWhole, CopiesAgree
  <2>6. Cost'
    BY <2>1, Bounds DEF IInv, Typed, Cost, CostBounded, FreeOfDisplay
  <2> QED BY <2>2, <2>3, <2>5, <2>6 DEF IInv
<1>2. CASE pub.todo # {}
  <2>1. PICK x \in pub.todo :
           chan' = [chan EXCEPT ![x] = pub.frame] /\ pub' = [pub EXCEPT !.todo = @ \ {x}]
    BY <1>2, Zenon
  <2>2. Typed'
    BY <2>1 DEF IInv, Typed, PubAts, Messages
  <2>3. Held
    BY <2>1 DEF IInv, Typed, ChannelHeld, LockHeld
  <2>4. pub.at = "write" /\ pub'.at = "write" /\ display.at # "copy"
    BY <2>1 DEF IInv, Typed, ChannelHeld
  <2>5. \A y \in Fields \ pub'.todo : chan'[y] = pub'.frame
    BY <2>1, <2>4 DEF IInv, Typed, Messages, Wholeness, ChannelWhole
  <2>6. Wholeness'
    BY <2>4, <2>5 DEF IInv, Wholeness, ChannelWhole, SnapshotWhole, CopiesAgree
  <2>7. Cost'
    BY <2>1, Bounds DEF IInv, Typed, Cost, CostBounded, FreeOfDisplay
  <2> QED BY <2>2, <2>3, <2>6, <2>7 DEF IInv
<1> QED BY <1>1, <1>2

LEMMA NotifyKeeps == ASSUME IInv, Notify PROVE IInv'
<1> USE DEF Notify, displayVars, serverVars
<1>1. Typed'
  BY Bounds DEF IInv, Typed, PubAts
<1>2. ChannelHeld' /\ LockHeld'
  BY DEF IInv, Typed, ChannelHeld, LockHeld
<1>3. Wholeness'
  BY DEF IInv, Typed, Wholeness, ChannelWhole, SnapshotWhole, CopiesAgree
<1>4. Cost'
  BY Bounds DEF IInv, Typed, Cost, CostBounded, FreeOfDisplay
<1> QED BY <1>1, <1>2, <1>3, <1>4 DEF IInv

LEMMA SignalKeeps == ASSUME IInv, Signal PROVE IInv'
<1> USE DEF Signal, displayVars, serverVars
<1>1. Typed'
  BY Bounds DEF IInv, Typed, PubAts
<1>2. ChannelHeld' /\ LockHeld'
  BY DEF IInv, Typed, ChannelHeld, LockHeld
<1>3. Wholeness'
  BY DEF IInv, Typed, Wholeness, ChannelWhole, SnapshotWhole, CopiesAgree
<1>4. Cost'
  BY Bounds DEF IInv, Typed, Cost, CostBounded, FreeOfDisplay
<1> QED BY <1>1, <1>2, <1>3, <1>4 DEF IInv

LEMMA ListenerKeeps == ASSUME IInv, Listener PROVE IInv'
<1> USE DEF Listener, displayVars, serverVars
<1>1. Typed'
  BY DEF IInv, Typed, PubAts
<1>2. ChannelHeld' /\ LockHeld'
  BY DEF IInv, Typed, ChannelHeld, LockHeld
<1>3. Wholeness'
  BY DEF IInv, Typed, Wholeness, ChannelWhole, SnapshotWhole, CopiesAgree
<1>4. Cost'
  BY Bounds DEF IInv, Typed, Cost, CostBounded, FreeOfDisplay
<1> QED BY <1>1, <1>2, <1>3, <1>4 DEF IInv

LEMMA TakeSnapshotKeeps == ASSUME IInv, TakeSnapshot PROVE IInv'
<1> USE DEF TakeSnapshot, displayVars, serverVars
<1> DEFINE Held == ChannelHeld' /\ LockHeld'
<1>1. CASE pub.todo = {}
  <2>1. pub' = [pub EXCEPT !.at = "done"] /\ lock' = "none" /\ snapshot' = snapshot
    BY <1>1
  <2>2. Typed'
    BY <2>1 DEF IInv, Typed, PubAts
  <2>3. Held
    BY <2>1 DEF IInv, Typed, ChannelHeld, LockHeld
  <2>4. IsWhole(snapshot)
    <3>1. snapshot = chan
      BY <1>1, SameMessage DEF IInv, Typed, Wholeness, SnapshotWhole
    <3> QED BY <3>1 DEF IInv, Wholeness, ChannelWhole
  <2>5. Wholeness'
    BY <2>1, <2>4 DEF IInv, Typed, Wholeness, ChannelWhole, SnapshotWhole, CopiesAgree
  <2>6. Cost'
    BY <2>1, Bounds DEF IInv, Typed, Cost, CostBounded, FreeOfDisplay
  <2> QED BY <2>2, <2>3, <2>5, <2>6 DEF IInv
<1>2. CASE pub.todo # {}
  <2>1. PICK x \in pub.todo :
           /\ snapshot' = [snapshot EXCEPT ![x] = chan[x]]
           /\ pub' = [pub EXCEPT !.todo = @ \ {x}]
           /\ lock' = lock
    BY <1>2, Zenon
  <2>2. Typed'
    BY <2>1 DEF IInv, Typed, PubAts, Messages
  <2>3. Held
    BY <2>1 DEF IInv, Typed, ChannelHeld, LockHeld
  <2>4. pub.at = "copy" /\ pub'.at = "copy" /\ server.at # "copy"
    BY <2>1 DEF IInv, Typed, LockHeld
  <2>5. \A y \in Fields \ pub'.todo : snapshot'[y] = chan[y]
    BY <2>1, <2>4 DEF IInv, Typed, Messages, Wholeness, SnapshotWhole
  <2>6. Wholeness'
    BY <2>4, <2>5 DEF IInv, Wholeness, ChannelWhole, SnapshotWhole, CopiesAgree
  <2>7. Cost'
    BY <2>1, Bounds DEF IInv, Typed, Cost, CostBounded, FreeOfDisplay
  <2> QED BY <2>2, <2>3, <2>6, <2>7 DEF IInv
<1> QED BY <1>1, <1>2

LEMMA PublishedKeeps == ASSUME IInv, Published PROVE IInv'
<1> USE DEF Published, displayVars, serverVars
<1>1. Typed'
  BY DEF IInv, Typed, PubAts
<1>2. ChannelHeld' /\ LockHeld'
  BY DEF IInv, Typed, ChannelHeld, LockHeld
<1>3. Wholeness'
  BY DEF IInv, Typed, Wholeness, ChannelWhole, SnapshotWhole, CopiesAgree
<1>4. Cost'
  BY Bounds DEF IInv, Typed, Cost, CostBounded, FreeOfDisplay
<1> QED BY <1>1, <1>2, <1>3, <1>4 DEF IInv

--------------------------------------------------------------------------------
(* The display.                                                               *)

\* What no step of the display or of the server can disturb.
LEMMA OthersKeepCost ==
    ASSUME IInv, UNCHANGED pub, enabled' = enabled \/ enabled' = FALSE,
           display.at = "gone" => display'.at = "gone",
           display'.at = "gone" => enabled' = FALSE
    PROVE  Cost'
BY DEF IInv, Typed, Cost, CostBounded, FreeOfDisplay

LEMMA DisplayStartKeeps == ASSUME IInv, DisplayStart PROVE IInv'
<1> USE DEF DisplayStart, EnabledWithoutPanel, pubVars, serverVars
<1> PICK at \in {"wait", "gone"} :
       /\ display' = Copying(at, 0)
       /\ at = "gone" => enabled' = FALSE
       /\ enabled' = enabled \/ enabled' = FALSE
  BY Zenon
<1>1. display'.at = at /\ display' \in Threads({"start", "wait", "read", "copy", "gone"})
  BY CopyingType
<1>2. Typed'
  BY <1>1 DEF IInv, Typed
<1>3. ChannelHeld' /\ LockHeld'
  BY <1>1 DEF IInv, ChannelHeld, LockHeld
<1>4. Wholeness'
  BY <1>1 DEF IInv, Wholeness, ChannelWhole, SnapshotWhole, CopiesAgree
<1>5. Cost'
  BY <1>1, OthersKeepCost
<1> QED BY <1>2, <1>3, <1>4, <1>5 DEF IInv

LEMMA SubWaitKeeps == ASSUME IInv, SubWait PROVE IInv'
<1> USE DEF SubWait, pubVars, serverVars
<1>1. /\ display'.at = "read" /\ display'.todo = Fields
      /\ display' \in Threads({"start", "wait", "read", "copy", "gone"})
  BY CopyingType, Bounds
<1>2. Typed'
  BY <1>1 DEF IInv, Typed
<1>3. ChannelHeld' /\ LockHeld'
  BY <1>1 DEF IInv, ChannelHeld, LockHeld
<1>4. Wholeness'
  BY <1>1 DEF IInv, Wholeness, ChannelWhole, SnapshotWhole, CopiesAgree
<1>5. Cost'
  BY <1>1, OthersKeepCost
<1> QED BY <1>2, <1>3, <1>4, <1>5 DEF IInv

LEMMA ReadBeginKeeps == ASSUME IInv, ReadBegin PROVE IInv'
<1> USE DEF ReadBegin, pubVars, serverVars
<1>1. CASE holder = "none" /\ holder' = "display" /\ display' = [display EXCEPT !.at = "copy"]
  <2>1. /\ display'.at = "copy" /\ display'.todo = Fields
        /\ display' \in Threads({"start", "wait", "read", "copy", "gone"})
    BY <1>1 DEF IInv, Typed, Wholeness, CopiesAgree, Threads
  <2>2. Typed'
    BY <1>1, <2>1 DEF IInv, Typed
  <2>3. ChannelHeld' /\ LockHeld'
    BY <1>1, <2>1 DEF IInv, Typed, ChannelHeld, LockHeld
  <2>4. Wholeness'
    BY <2>1 DEF IInv, Wholeness, ChannelWhole, SnapshotWhole, CopiesAgree
  <2>5. Cost'
    BY <2>1, OthersKeepCost
  <2> QED BY <2>2, <2>3, <2>4, <2>5 DEF IInv
<1>2. CASE display' = Copying("wait", 0) /\ holder' = holder
  <2>1. /\ display'.at = "wait"
        /\ display' \in Threads({"start", "wait", "read", "copy", "gone"})
    BY <1>2, CopyingType
  <2>2. Typed'
    BY <1>2, <2>1 DEF IInv, Typed
  <2>3. ChannelHeld' /\ LockHeld'
    BY <1>2, <2>1 DEF IInv, ChannelHeld, LockHeld
  <2>4. Wholeness'
    BY <2>1 DEF IInv, Wholeness, ChannelWhole, SnapshotWhole, CopiesAgree
  <2>5. Cost'
    BY <2>1, OthersKeepCost
  <2> QED BY <2>2, <2>3, <2>4, <2>5 DEF IInv
<1> QED BY <1>1, <1>2

LEMMA ReadAndDrawKeeps == ASSUME IInv, ReadAndDraw PROVE IInv'
<1> USE DEF ReadAndDraw, pubVars, serverVars
<1>1. CASE display.todo = {}
  <2>1. holder' = "none" /\ shown' = display.copy /\ display' = Copying("wait", 0)
    BY <1>1
  <2>2. /\ display'.at = "wait"
        /\ display' \in Threads({"start", "wait", "read", "copy", "gone"})
    BY <2>1, CopyingType
  <2>3. Typed'
    BY <2>1, <2>2 DEF IInv, Typed
  <2>4. ChannelHeld' /\ LockHeld'
    BY <2>1, <2>2 DEF IInv, Typed, ChannelHeld, LockHeld
  <2>5. display.copy = chan /\ IsWhole(chan)
    <3>1. display.copy \in Messages /\ chan \in Messages
      BY DEF IInv, Typed, Threads
    <3>2. \A x \in Fields : display.copy[x] = chan[x]
      BY <1>1 DEF IInv, Wholeness, CopiesAgree
    <3>3. pub.at # "write"
      BY DEF IInv, ChannelHeld
    <3> QED BY <3>1, <3>2, <3>3, SameMessage DEF IInv, Wholeness, ChannelWhole
  <2>6. Wholeness'
    BY <2>1, <2>2, <2>5 DEF IInv, Wholeness, ChannelWhole, SnapshotWhole, CopiesAgree
  <2>7. Cost'
    BY <2>2, OthersKeepCost
  <2> QED BY <2>3, <2>4, <2>6, <2>7 DEF IInv
<1>2. CASE display.todo # {}
  <2>1. PICK x \in display.todo : display' = Copied(display, chan, x)
    BY <1>2, Zenon
  <2>2. holder' = holder /\ shown' = shown
    BY <1>2
  <2>3. \A y \in Fields \ display.todo : display.copy[y] = chan[y]
    BY DEF IInv, Wholeness, CopiesAgree
  <2>4. /\ display' \in Threads({"start", "wait", "read", "copy", "gone"})
        /\ display'.at = "copy"
        /\ \A y \in Fields \ display'.todo : display'.copy[y] = chan[y]
    BY <2>1, <2>3, CopiedGrows DEF IInv, Typed
  <2>5. Typed'
    BY <2>2, <2>4 DEF IInv, Typed
  <2>6. ChannelHeld' /\ LockHeld'
    BY <2>2, <2>4 DEF IInv, ChannelHeld, LockHeld
  <2>7. Wholeness'
    BY <2>2, <2>4 DEF IInv, Wholeness, ChannelWhole, SnapshotWhole, CopiesAgree
  <2>8. Cost'
    BY <2>4, OthersKeepCost
  <2> QED BY <2>5, <2>6, <2>7, <2>8 DEF IInv
<1> QED BY <1>1, <1>2

--------------------------------------------------------------------------------
(* The server and the clock.                                                  *)

LEMMA AskSnapshotKeeps == ASSUME IInv, AskSnapshot PROVE IInv'
<1> USE DEF AskSnapshot, ServerTakes, pubVars, displayVars
<1>1. server'.at = "copy" /\ server'.todo = Fields /\ server' \in Threads({"idle", "copy"})
  BY CopyingType
<1>2. Typed'
  BY <1>1 DEF IInv, Typed
<1>3. ChannelHeld' /\ LockHeld'
  BY <1>1 DEF IInv, ChannelHeld, LockHeld
<1>4. Wholeness'
  BY <1>1 DEF IInv, Wholeness, ChannelWhole, SnapshotWhole, CopiesAgree
<1>5. Cost'
  BY OthersKeepCost DEF IInv, Cost, FreeOfDisplay
<1> QED BY <1>2, <1>3, <1>4, <1>5 DEF IInv

LEMMA CopySnapshotKeeps == ASSUME IInv, CopySnapshot PROVE IInv'
<1> USE DEF CopySnapshot, pubVars, displayVars
<1>a. Cost'
  BY OthersKeepCost DEF IInv, Cost, FreeOfDisplay
<1>1. CASE server.todo = {}
  <2>1. lock' = "none" /\ sent' = server.copy /\ server' = Copying("idle", 0)
    BY <1>1 DEF IInv, LockHeld
  <2>2. server'.at = "idle" /\ server' \in Threads({"idle", "copy"})
    BY <2>1, CopyingType
  <2>3. Typed'
    BY <2>1, <2>2 DEF IInv, Typed
  <2>4. ChannelHeld' /\ LockHeld'
    BY <2>1, <2>2 DEF IInv, ChannelHeld, LockHeld
  <2>5. server.copy = snapshot /\ IsWhole(snapshot)
    <3>1. server.copy \in Messages /\ snapshot \in Messages
      BY DEF IInv, Typed, Threads
    <3>2. \A x \in Fields : server.copy[x] = snapshot[x]
      BY <1>1 DEF IInv, Wholeness, CopiesAgree
    <3>3. pub.at # "copy"
      BY DEF IInv, LockHeld
    <3> QED BY <3>1, <3>2, <3>3, SameMessage DEF IInv, Wholeness, SnapshotWhole
  <2>6. Wholeness'
    BY <2>1, <2>2, <2>5 DEF IInv, Wholeness, ChannelWhole, SnapshotWhole, CopiesAgree
  <2> QED BY <1>a, <2>3, <2>4, <2>6 DEF IInv
<1>2. CASE server.todo # {}
  <2>1. PICK x \in server.todo : server' = Copied(server, snapshot, x)
    BY <1>2, Zenon
  <2>2. lock' = lock /\ sent' = sent
    BY <1>2
  <2>3. \A y \in Fields \ server.todo : server.copy[y] = snapshot[y]
    BY DEF IInv, Wholeness, CopiesAgree
  <2>4. /\ server' \in Threads({"idle", "copy"}) /\ server'.at = "copy"
        /\ \A y \in Fields \ server'.todo : server'.copy[y] = snapshot[y]
    BY <2>1, <2>3, CopiedGrows DEF IInv, Typed
  <2>5. Typed'
    BY <2>2, <2>4 DEF IInv, Typed
  <2>6. ChannelHeld' /\ LockHeld'
    BY <2>2, <2>4 DEF IInv, ChannelHeld, LockHeld
  <2>7. Wholeness'
    BY <2>2, <2>4 DEF IInv, Wholeness, ChannelWhole, SnapshotWhole, CopiesAgree
  <2> QED BY <1>a, <2>5, <2>6, <2>7 DEF IInv
<1> QED BY <1>1, <1>2

LEMMA LessType ==
    ASSUME NEW n \in Nat PROVE Less(n) \in Nat /\ (n > 0 => Less(n) = n - 1)
BY DEF Less

\* Time passes only while the control thread waits, so that its deadline is spent as the
\* cost grows; without a display nobody keeps the channel from it.
LEMMA TickKeeps == ASSUME IInv, Tick PROVE IInv'
<1> DEFINE spent == IF pub.spent < SpentBound THEN pub.spent + 1 ELSE pub.spent
<1> USE DEF Tick, serverVars
<1>1. pub.left \in Nat /\ pub.spent \in Nat /\ spent \in Nat /\ spent <= pub.spent + 1
  BY Bounds DEF IInv, Typed, SpentBound
<1>2. /\ pub'.at = pub.at /\ pub'.frame = pub.frame /\ pub'.todo = pub.todo /\ pub'.free = pub.free
      /\ pub.at = "idle" => pub' = pub
      /\ pub.at # "idle" => pub'.left = Less(pub.left) /\ pub'.spent = spent
      /\ pub' = IF pub.at = "idle" THEN pub
                ELSE [pub EXCEPT !.left = Less(pub.left), !.spent = spent]
  BY DEF IInv, Typed
<1>3. display.left \in Nat /\ display' = [display EXCEPT !.left = Less(display.left)]
  BY DEF IInv, Typed, Threads
<1>4. /\ display' \in Threads({"start", "wait", "read", "copy", "gone"})
      /\ display'.at = display.at /\ display'.todo = display.todo /\ display'.copy = display.copy
  BY <1>3, LessType DEF IInv, Typed, Threads
<1>5. Typed'
  <2>1. pub' \in [at : PubAts, frame : Frames, left : Nat, todo : SUBSET Fields, spent : Nat,
                  free : BOOLEAN]
    BY <1>1, <1>2, LessType DEF IInv, Typed
  <2> QED BY <1>4, <2>1 DEF IInv, Typed
<1>6. ChannelHeld' /\ LockHeld'
  BY <1>2, <1>4 DEF IInv, ChannelHeld, LockHeld
<1>7. Wholeness'
  BY <1>2, <1>4 DEF IInv, Wholeness, ChannelWhole, SnapshotWhole, CopiesAgree
<1>8. pub.at # "idle" => pub.left > 0 /\ pub'.left = pub.left - 1
  BY <1>1, <1>2, LessType DEF Blocked, LockGivenUp
<1>9. CostBounded'
  BY <1>1, <1>2, <1>8, Bounds DEF IInv, Cost, CostBounded
<1>10. FreeOfDisplay'
  <2>1. pub.free = TRUE => pub.at \notin {"lock", "write", "notify", "signal"}
    BY DEF IInv, Typed, Cost, FreeOfDisplay, ChannelHeld, Blocked
  <2> QED BY <1>1, <1>2, <1>4, <1>8, <2>1, Bounds DEF IInv, Cost, FreeOfDisplay
<1> QED BY <1>5, <1>6, <1>7, <1>9, <1>10 DEF IInv, Cost

--------------------------------------------------------------------------------
(* The theorems.                                                              *)

LEMMA StutterKeeps == ASSUME IInv, UNCHANGED vars PROVE IInv'
BY DEF vars, IInv, Typed, ChannelHeld, LockHeld, Wholeness, ChannelWhole, SnapshotWhole,
       CopiesAgree, Cost, CostBounded, FreeOfDisplay

\* In every reachable state: who has the channel and the lock, what is whole in them, and
\* what the publication under way may still cost.
THEOREM TelemetryInvariant == Spec => []IInv
<1>1. IInv /\ [Next]_vars => IInv'
  <2> SUFFICES ASSUME IInv, [Next]_vars PROVE IInv'
    OBVIOUS
  <2>1. CASE Publish
    BY <2>1, PublishKeeps
  <2>2. CASE Publishing
    BY <2>2, TakeChannelKeeps, WriteKeeps, NotifyKeeps, SignalKeeps, ListenerKeeps,
       TakeSnapshotKeeps, PublishedKeeps DEF Publishing
  <2>3. CASE Display
    BY <2>3, DisplayStartKeeps, SubWaitKeeps, ReadBeginKeeps, ReadAndDrawKeeps DEF Display
  <2>4. CASE AskSnapshot
    BY <2>4, AskSnapshotKeeps
  <2>5. CASE CopySnapshot
    BY <2>5, CopySnapshotKeeps
  <2>6. CASE Tick
    BY <2>6, TickKeeps
  <2>7. CASE UNCHANGED vars
    BY <2>7, StutterKeeps
  <2> QED BY <2>1, <2>2, <2>3, <2>4, <2>5, <2>6, <2>7 DEF Next
<1> QED BY InitHolds, <1>1, PTL DEF Spec

\* The display and the page never show the fields of two frames together: display_thread()
\* of display_ui.c and build_state_json() of httpd.c.
THEOREM FramesAreWhole == Spec => []WholeFrames
<1>1. IInv => WholeFrames
  BY DEF IInv, Wholeness, IsWhole, WholeFrames
<1> QED BY TelemetryInvariant, <1>1, PTL

\* publish() of controller.c never keeps the control loop for longer than the timeout of the
\* channel and that of the listener's lock, and without a panel for no longer than the latter.
THEOREM PublicationIsBounded == Spec => []PublishIsBounded
<1>1. IInv => PublishIsBounded
  <2> SUFFICES ASSUME IInv PROVE PublishIsBounded
    OBVIOUS
  <2>1. pub.at \in PubAts /\ pub.spent \in Nat /\ pub.left \in Nat /\ pub.free \in BOOLEAN
    BY DEF IInv, Typed
  <2>2. pub.spent <= PubTimeout + LockTimeout
    BY <2>1, Bounds DEF IInv, Cost, CostBounded, PubAts
  <2>3. pub.free = TRUE => pub.spent <= LockTimeout
    BY <2>1, Bounds DEF IInv, Cost, FreeOfDisplay, PubAts
  <2>4. pub.free => pub.free = TRUE
    BY <2>1, Zenon
  <2> QED BY <2>2, <2>3, <2>4, Zenon DEF PublishIsBounded
<1> QED BY TelemetryInvariant, <1>1, PTL
================================================================================
