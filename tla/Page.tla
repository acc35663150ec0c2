---------------------------------- MODULE Page -----------------------------------
(***************************************************************************)
(* The page of src/net/index.html over HTTP, between its operator and the  *)
(* oven: the list of profiles and the selector, the event stream, the      *)
(* commands and the two messages.  Each fetch has a connection of its own, *)
(* so requests arrive and answers return in any order, or not at all.      *)
(*                                                                         *)
(* Of the oven there is what the page can tell: the profile and whether it *)
(* runs, the command queue, and the snapshot that the listener of httpd.c  *)
(* takes of each frame.  A miss of the listener's 5 ms lock is a snapshot  *)
(* not taken yet.  Why a command is refused is HttpCommand's business, how *)
(* a connection is lost Httpd's.                                           *)
(***************************************************************************)
EXTENDS Integers, Sequences, SequencesExt

CONSTANTS
    NProfiles,     \* reflow_profile_count()
    QueueLen,      \* the slots of cmd_q
    MaxFetches,    \* commands whose answer is outstanding (bound)
    MaxFrames      \* frames on their way (bound)

ASSUME PageAssumption ==
    /\ {NProfiles, QueueLen, MaxFetches, MaxFrames} \subseteq Nat \ {0}

Profiles == 0 .. NProfiles - 1

Oven == [profile : Profiles, running : BOOLEAN]

\* What the selector shows: the list has not come, or an option.
NoOption == -1

\* No frame yet: lastProf is -1.
NoFrame == [profile |-> -1, running |-> FALSE]

Commands == [id : {"start", "stop"}, arg : {0}] \cup [id : {"profile"}, arg : Profiles]

NoCommand == [id |-> "none", arg |-> 0]

\* A fetch on its way to the oven, or its answer on the way back.
Fetch == [is : {"request"}, cmd : Commands] \cup [is : {"accepted", "refused"}, cmd : {NoCommand}]

VARIABLES
    oven,          \* what it does
    queue,         \* cmd_q
    snapshot,      \* of the last frame, in httpd.c
    stream,        \* "up" or "down"
    frames,        \* on their way to the page
    list,          \* /api/profiles: "asked", "shown", "failed"
    sel,           \* the selector
    shown,         \* the last frame seen; its profile is lastProf
    msg,           \* #msg, by say()
    link,          \* #link, by link()
    fetches,       \* the commands without an answer, oldest first
    touched        \* history: the operator has picked since lastProf changed

vars == <<oven, queue, snapshot, stream, frames, list, sel, shown, msg, link, fetches, touched>>

ovenVars == <<oven, queue, snapshot>>
channel == <<stream, frames, list>>
screen == <<sel, shown, link, touched>>

Init ==
    /\ oven \in Oven
    /\ queue = <<>>
    /\ snapshot = oven
    /\ stream = "down"
    /\ frames = <<>>
    /\ list = "asked"
    /\ sel = NoOption
    /\ shown = NoFrame
    /\ msg = "blank"
    /\ link = "blank"
    /\ fetches = <<>>
    /\ touched = FALSE

--------------------------------------------------------------------------------
(* The oven.                                                                  *)

\* A command's effects: a start is refused in a fault and without a valid reading, a
\* selection in a run is ignored.
Obeyed(c) ==
    CASE c.id = "start" -> {oven, [oven EXCEPT !.running = TRUE]}
      [] c.id = "stop" -> {[oven EXCEPT !.running = FALSE]}
      [] c.id = "profile" -> {IF oven.running THEN oven ELSE [oven EXCEPT !.profile = c.arg]}

HandleCmd ==
    /\ queue # <<>>
    /\ oven' \in Obeyed(Head(queue))
    /\ queue' = Tail(queue)
    /\ UNCHANGED <<snapshot, channel, screen, msg, fetches>>

\* The panel, the shell, the end of a run.
Other ==
    /\ \E c \in Commands : oven' \in Obeyed(c)
    /\ UNCHANGED <<queue, snapshot, channel, screen, msg, fetches>>

\* telemetry_cb()
Publish ==
    /\ snapshot' = oven
    /\ UNCHANGED <<oven, queue, channel, screen, msg, fetches>>

\* push_event()
PushEvent ==
    /\ stream = "up" /\ Len(frames) < MaxFrames
    /\ frames' = Append(frames, snapshot)
    /\ UNCHANGED <<ovenVars, stream, list, screen, msg, fetches>>

--------------------------------------------------------------------------------
(* The page's channel: startHttp().                                           *)

\* The browser connects, again after each error; serve() sends a frame at once.
Connect ==
    /\ stream = "down"
    /\ stream' = "up"
    /\ frames' = <<snapshot>>
    /\ UNCHANGED <<ovenVars, list, screen, msg, fetches>>

\* es.onerror.  A connection that could not be made is an error, too.
StreamError ==
    /\ stream' = "down"
    /\ frames' = <<>>
    /\ link' = "lost"
    /\ UNCHANGED <<ovenVars, list, sel, shown, touched, msg, fetches>>

\* A <select> without the option takes no value.
Selected(i) == IF list = "shown" THEN i ELSE sel

\* Planted bug: the frame takes the line of messages back.
MsgAfterFrame_Cleared == "blank"

\* Planted bug: the warning waits for the operator, as a refusal does.
LinkAfterFrame_Stands == link

\* What update() leaves of the two messages.
MsgAfterFrame == msg
LinkAfterFrame == "blank"

\* es.onmessage, update()
Update ==
    /\ frames # <<>>
    /\ shown' = Head(frames)
    /\ frames' = Tail(frames)
    /\ IF shown'.profile # shown.profile
          THEN sel' = Selected(shown'.profile) /\ touched' = FALSE
          ELSE UNCHANGED <<sel, touched>>
    /\ link' = LinkAfterFrame
    /\ msg' = MsgAfterFrame
    /\ UNCHANGED <<ovenVars, stream, list, fetches>>

\* Planted bug: the list is built and nothing selected again.
Restored_First == 0

\* The option addProfiles() ends on: that of lastProf, else the first.
Restored == IF shown # NoFrame THEN shown.profile ELSE 0

\* addProfiles(), or the one fetch of the list fails and is not tried again.
ListArrives ==
    /\ list = "asked"
    /\ \/ list' = "shown" /\ sel' = Restored
       \/ list' = "failed" /\ UNCHANGED sel
    /\ UNCHANGED <<ovenVars, stream, frames, shown, link, touched, msg, fetches>>

--------------------------------------------------------------------------------
(* Commands.                                                                  *)

\* cmd(): the message goes, the request leaves.
Command(c) ==
    /\ Len(fetches) < MaxFetches
    /\ msg' = "blank"
    /\ fetches' = Append(fetches, [is |-> "request", cmd |-> c])
    /\ UNCHANGED <<ovenVars, channel, shown, link>>

Click ==
    /\ \E id \in {"start", "stop"} : Command([id |-> id, arg |-> 0])
    /\ UNCHANGED <<sel, touched>>

\* The selector's onchange: the choice is its new value.
Pick ==
    /\ list = "shown"
    /\ \E i \in Profiles \ {sel} :
          /\ sel' = i
          /\ touched' = TRUE
          /\ Command([id |-> "profile", arg |-> i])

\* A request reaches the oven: it is posted, if the queue has room, or refused.
Arrive ==
    /\ \E i \in DOMAIN fetches :
          /\ fetches[i].is = "request"
          /\ \/ /\ Len(queue) < QueueLen
                /\ queue' = Append(queue, fetches[i].cmd)
                /\ fetches' = [fetches EXCEPT ![i] = [is |-> "accepted", cmd |-> NoCommand]]
             \/ /\ UNCHANGED queue
                /\ fetches' = [fetches EXCEPT ![i] = [is |-> "refused", cmd |-> NoCommand]]
    /\ UNCHANGED <<oven, snapshot, channel, screen, msg>>

\* What then() and catch() do with an answer: a command that was accepted says nothing.
Answer ==
    /\ \E i \in DOMAIN fetches :
          /\ fetches' = RemoveAt(fetches, i)
          /\ msg' \in CASE fetches[i].is = "accepted" -> {msg, "unanswered"}
                        [] fetches[i].is = "refused" -> {"refused", "unanswered"}
                        [] OTHER -> {"unanswered"}
    /\ UNCHANGED <<ovenVars, channel, screen>>

Next ==
    \/ HandleCmd \/ Other \/ Publish \/ PushEvent
    \/ Connect \/ StreamError \/ Update \/ ListArrives
    \/ Click \/ Pick \/ Arrive \/ Answer

\* The control thread publishes, the server pushes, the network delivers.
Fairness == WF_vars(Publish) /\ WF_vars(PushEvent) /\ WF_vars(Update)

Spec == Init /\ [][Next]_vars /\ Fairness

--------------------------------------------------------------------------------
(* Properties.                                                                *)

TypeOK ==
    /\ oven \in Oven /\ snapshot \in Oven
    /\ queue \in Seq(Commands) /\ Len(queue) <= QueueLen
    /\ stream \in {"up", "down"}
    /\ frames \in Seq(Oven) /\ Len(frames) <= MaxFrames
    /\ list \in {"asked", "shown", "failed"}
    /\ sel \in Profiles \cup {NoOption}
    /\ shown \in Oven \cup {NoFrame}
    /\ msg \in {"blank", "unanswered", "refused"}
    /\ link \in {"blank", "lost"}
    /\ fetches \in Seq(Fetch) /\ Len(fetches) <= MaxFetches

\* Until the operator picks, the selector shows the profile of the last frame, whichever
\* of the list and the first frame comes first and however often the profile changes.
UntouchedFollows ==
    list = "shown" /\ shown # NoFrame /\ ~touched => sel = shown.profile

\* A refusal stays before the operator's eyes until the operator acts again or another
\* command fails, which is then said in its place: no frame, no reconnection and no command
\* accepted meanwhile takes it away.
RefusalStands ==
    [][msg # "blank" /\ msg' # msg =>
           \/ msg' = "blank" /\ Len(fetches') > Len(fetches)
           \/ msg' # "blank" /\ Len(fetches') < Len(fetches)]_vars

\* Once the stream holds and the oven keeps doing one thing, the page comes to show just
\* that, and no warning about the link.
PageCatchesUp ==
    \A o \in Oven :
        <>[](stream = "up" /\ oven = o) => <>[](shown = o /\ link = "blank")
================================================================================
