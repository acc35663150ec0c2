------------------------------ MODULE ClientProofs ------------------------------
(***************************************************************************)
(* The two clients that show the oven's profile, for any number of         *)
(* profiles and any queue.  What the selector of module Page shows until   *)
(* it is touched, and how long a refusal stands; what the knob of module   *)
(* Panel shows, with any encoder, any other clients and any frames missed. *)
(***************************************************************************)
EXTENDS Page, Panel, SequenceTheorems, TLAPS

LEMMA Bounds ==
    /\ NProfiles \in Nat /\ NProfiles > 0
    /\ QueueLen \in Nat /\ QueueLen > 0
    /\ MaxFetches \in Nat /\ MaxFetches > 0
    /\ MaxFrames \in Nat /\ MaxFrames > 0
BY PageAssumption

--------------------------------------------------------------------------------
(* Types.                                                                     *)

\* Whatever the oven is told, it does something an oven does.
LEMMA ObeyedType ==
    ASSUME oven \in Oven, NEW c \in Commands
    PROVE  Obeyed(c) \subseteq Oven
BY DEF Obeyed, Oven, Commands

\* An answer taken from anywhere in the list leaves a list of fetches.
LEMMA RemoveAtType ==
    ASSUME NEW s \in Seq(Fetch), NEW i \in DOMAIN s
    PROVE  /\ RemoveAt(s, i) \in Seq(Fetch)
           /\ Len(RemoveAt(s, i)) = Len(s) - 1
<1>1. i \in 1 .. Len(s) /\ Len(s) \in Nat
  OBVIOUS
<1> DEFINE before == SubSeq(s, 1, i - 1)
           after == SubSeq(s, i + 1, Len(s))
<1>2. before \in Seq(Fetch) /\ Len(before) = i - 1
  BY <1>1
<1>3. after \in Seq(Fetch) /\ Len(after) = Len(s) - i
  BY <1>1
<1>4. RemoveAt(s, i) = before \o after
  BY DEF RemoveAt
<1> HIDE DEF before, after
<1>5. before \o after \in Seq(Fetch) /\ Len(before \o after) = Len(before) + Len(after)
  BY <1>2, <1>3, ConcatProperties
<1> QED BY <1>1, <1>2, <1>3, <1>4, <1>5

\* So does an answer put in the place of its request.
LEMMA ReplaceType ==
    ASSUME NEW s \in Seq(Fetch), NEW i \in DOMAIN s, NEW f \in Fetch
    PROVE  [s EXCEPT ![i] = f] \in Seq(Fetch) /\ Len([s EXCEPT ![i] = f]) = Len(s)
OBVIOUS

LEMMA InitTypes == Init => TypeOK
BY Bounds DEF Init, TypeOK, Oven, NoFrame, NoOption, Profiles

LEMMA OvenTypes ==
    ASSUME TypeOK, HandleCmd \/ Other \/ Publish \/ PushEvent
    PROVE  TypeOK'
<1>1. CASE HandleCmd
  <2>1. Head(queue) \in Commands /\ Tail(queue) \in Seq(Commands) /\ Len(Tail(queue)) <= QueueLen
    BY <1>1, Bounds DEF TypeOK, HandleCmd
  <2> QED BY <1>1, <2>1, ObeyedType DEF TypeOK, HandleCmd, channel, screen
<1>2. CASE Other
  BY <1>2, ObeyedType DEF TypeOK, Other, channel, screen
<1>3. CASE Publish
  BY <1>3 DEF TypeOK, Publish, channel, screen
<1>4. CASE PushEvent
  <2>1. frames' \in Seq(Oven) /\ Len(frames') <= MaxFrames
    BY <1>4, Bounds DEF TypeOK, PushEvent
  <2> QED BY <1>4, <2>1 DEF TypeOK, PushEvent, ovenVars, screen
<1> QED BY <1>1, <1>2, <1>3, <1>4

LEMMA ChannelTypes ==
    ASSUME TypeOK, Connect \/ StreamError \/ Update \/ ListArrives
    PROVE  TypeOK'
<1>1. CASE Connect
  BY <1>1, Bounds DEF TypeOK, Connect, ovenVars, screen
<1>2. CASE StreamError
  BY <1>2, Bounds DEF TypeOK, StreamError, ovenVars
<1>3. CASE Update
  <2>1. shown' \in Oven /\ frames' \in Seq(Oven) /\ Len(frames') <= MaxFrames
    BY <1>3, Bounds DEF TypeOK, Update
  <2>2. sel' \in Profiles \cup {NoOption}
    BY <1>3, <2>1 DEF TypeOK, Update, Selected, Oven
  <2> QED BY <1>3, <2>1, <2>2 DEF TypeOK, Update, ovenVars, LinkAfterFrame, MsgAfterFrame
<1>4. CASE ListArrives
  <2>1. Restored \in Profiles
    BY Bounds DEF Restored, TypeOK, Oven, Profiles, NoFrame
  <2> QED BY <1>4, <2>1 DEF TypeOK, ListArrives, ovenVars
<1> QED BY <1>1, <1>2, <1>3, <1>4

\* A command of the page is one more fetch.
LEMMA CommandTypes ==
    ASSUME TypeOK, NEW c \in Commands, Command(c), sel' \in Profiles \cup {NoOption}
    PROVE  TypeOK' /\ Len(fetches') = Len(fetches) + 1
<1>1. [is |-> "request", cmd |-> c] \in Fetch
  BY DEF Fetch
<1>2. fetches' \in Seq(Fetch) /\ Len(fetches') = Len(fetches) + 1 /\ Len(fetches') <= MaxFetches
  BY <1>1, Bounds DEF TypeOK, Command
<1> QED BY <1>2 DEF TypeOK, Command, ovenVars, channel

LEMMA ClickTypes == ASSUME TypeOK, Click PROVE TypeOK' /\ Len(fetches') = Len(fetches) + 1
<1>1. PICK id \in {"start", "stop"} : Command([id |-> id, arg |-> 0])
  BY DEF Click
<1>2. [id |-> id, arg |-> 0] \in Commands
  BY DEF Commands
<1> QED BY <1>1, <1>2, CommandTypes DEF Click, TypeOK

LEMMA PickTypes == ASSUME TypeOK, Pick PROVE TypeOK' /\ Len(fetches') = Len(fetches) + 1
<1>1. PICK i \in Profiles : sel' = i /\ touched' = TRUE /\ Command([id |-> "profile", arg |-> i])
  BY DEF Pick
<1>2. [id |-> "profile", arg |-> i] \in Commands
  BY DEF Commands
<1> QED BY <1>1, <1>2, CommandTypes

LEMMA ArriveTypes == ASSUME TypeOK, Arrive PROVE TypeOK' /\ Len(fetches') = Len(fetches)
<1>1. PICK i \in DOMAIN fetches :
          \/ /\ fetches[i].is = "request"
             /\ Len(queue) < QueueLen
             /\ queue' = Append(queue, fetches[i].cmd)
             /\ fetches' = [fetches EXCEPT ![i] = [is |-> "accepted", cmd |-> NoCommand]]
          \/ /\ UNCHANGED queue
             /\ fetches' = [fetches EXCEPT ![i] = [is |-> "refused", cmd |-> NoCommand]]
  BY DEF Arrive
<1>2. fetches' \in Seq(Fetch) /\ Len(fetches') = Len(fetches)
  <2>1. /\ [is |-> "accepted", cmd |-> NoCommand] \in Fetch
        /\ [is |-> "refused", cmd |-> NoCommand] \in Fetch
    BY DEF Fetch
  <2>2. PICK f \in Fetch : fetches' = [fetches EXCEPT ![i] = f]
    BY <1>1, <2>1, Zenon
  <2>3. fetches \in Seq(Fetch)
    BY DEF TypeOK
  <2> QED BY <2>2, <2>3, ReplaceType
<1>3. queue' \in Seq(Commands) /\ Len(queue') <= QueueLen
  <2>1. fetches[i] \in Fetch
    BY DEF TypeOK
  <2>2. fetches[i].is = "request" => fetches[i].cmd \in Commands
    BY <2>1 DEF Fetch
  <2>3. queue \in Seq(Commands) /\ Len(queue) <= QueueLen
    BY DEF TypeOK
  <2>4. CASE UNCHANGED queue
    BY <2>3, <2>4
  <2>5. CASE /\ fetches[i].is = "request" /\ Len(queue) < QueueLen
             /\ queue' = Append(queue, fetches[i].cmd)
    <3>1. fetches[i].cmd \in Commands
      BY <2>2, <2>5
    <3> QED BY <2>3, <2>5, <3>1, Bounds
  <2> QED BY <1>1, <2>4, <2>5
<1> QED BY <1>2, <1>3 DEF Arrive, TypeOK, channel, screen

LEMMA AnswerTypes == ASSUME TypeOK, Answer PROVE TypeOK' /\ (msg # "blank" => msg' # "blank")
<1>1. PICK i \in DOMAIN fetches :
          /\ fetches' = RemoveAt(fetches, i)
          /\ msg' \in {msg, "unanswered", "refused"}
  BY DEF Answer
<1>2. fetches' \in Seq(Fetch) /\ Len(fetches') <= MaxFetches
  BY <1>1, RemoveAtType, Bounds DEF TypeOK
<1> QED BY <1>1, <1>2 DEF Answer, TypeOK, ovenVars, channel, screen

LEMMA StutterTypes == ASSUME TypeOK, UNCHANGED vars PROVE TypeOK'
BY DEF TypeOK, vars

\* Every variable of the page and its surroundings keeps its type.
THEOREM PageTypeCorrect == Spec => []TypeOK
<1>1. TypeOK /\ [Next]_vars => TypeOK'
  BY OvenTypes, ChannelTypes, ClickTypes, PickTypes, ArriveTypes, AnswerTypes, StutterTypes DEF Next
<1> QED BY InitTypes, <1>1, PTL DEF Spec

--------------------------------------------------------------------------------
(* The selector.                                                              *)

\* The first frame always differs from no frame, so whoever comes second, the list or
\* the frame, selects.
LEMMA UpdateFollows == ASSUME TypeOK, UntouchedFollows, Update PROVE UntouchedFollows'
<1>1. shown' \in Oven
  BY DEF Update, TypeOK
<1>2. CASE shown'.profile # shown.profile
  BY <1>2 DEF Update, UntouchedFollows, Selected
<1>3. CASE shown'.profile = shown.profile
  <2>1. shown # NoFrame
    BY <1>1, <1>3 DEF NoFrame, Oven, Profiles
  <2> QED BY <1>3, <2>1 DEF Update, UntouchedFollows
<1> QED BY <1>2, <1>3

\* Until the operator picks, the selector shows the profile of the last frame.
THEOREM SelectorFollows == Spec => []UntouchedFollows
<1>1. Init => UntouchedFollows
  BY DEF Init, UntouchedFollows
<1>2. ASSUME TypeOK, UntouchedFollows, [Next]_vars PROVE UntouchedFollows'
  <2>1. CASE HandleCmd \/ Other \/ Publish \/ PushEvent \/ Connect \/ Arrive \/ Answer
    BY <1>2, <2>1 DEF HandleCmd, Other, Publish, PushEvent, Connect, Arrive, Answer, channel, screen,
       UntouchedFollows
  <2>2. CASE StreamError
    BY <1>2, <2>2 DEF StreamError, UntouchedFollows
  <2>3. CASE Update
    BY <1>2, <2>3, UpdateFollows
  <2>4. CASE ListArrives
    BY <1>2, <2>4 DEF ListArrives, Restored, UntouchedFollows
  <2>5. CASE Click
    BY <1>2, <2>5 DEF Click, Command, channel, UntouchedFollows
  <2>6. CASE Pick
    BY <2>6 DEF Pick, UntouchedFollows
  <2>7. CASE UNCHANGED vars
    BY <1>2, <2>7 DEF vars, UntouchedFollows
  <2> QED BY <1>2, <2>1, <2>2, <2>3, <2>4, <2>5, <2>6, <2>7 DEF Next
<1> QED BY <1>1, <1>2, PageTypeCorrect, PTL DEF Spec

--------------------------------------------------------------------------------
(* The messages.                                                              *)

\* A message on the page, a refusal above all, is blanked by the operator's next command
\* only, and replaced by an answer that came in only.
THEOREM RefusalsStand == Spec => RefusalStands
<1> DEFINE Stands ==
       msg # "blank" /\ msg' # msg
           => \/ msg' = "blank" /\ Len(fetches') > Len(fetches)
              \/ msg' # "blank" /\ Len(fetches') < Len(fetches)
<1>1. ASSUME TypeOK, [Next]_vars, msg # "blank", msg' # msg PROVE Stands
  <2>1. Len(fetches) \in Nat
    BY <1>1 DEF TypeOK
  <2>2. CASE Click \/ Pick
    <3>1. Len(fetches') = Len(fetches) + 1
      BY <1>1, <2>2, ClickTypes, PickTypes
    <3>2. msg' = "blank"
      BY <2>2 DEF Click, Pick, Command
    <3> QED BY <2>1, <3>1, <3>2
  <2>3. CASE Answer
    <3>1. msg' # "blank"
      BY <1>1, <2>3, AnswerTypes
    <3>2. PICK i \in DOMAIN fetches : fetches' = RemoveAt(fetches, i)
      BY <2>3 DEF Answer
    <3>3. Len(fetches') = Len(fetches) - 1
      BY <1>1, <3>2, RemoveAtType DEF TypeOK
    <3> QED BY <2>1, <3>1, <3>3
  <2>4. CASE HandleCmd \/ Other \/ Publish \/ PushEvent \/ Connect \/ StreamError \/ ListArrives \/ Arrive
    BY <1>1, <2>4 DEF HandleCmd, Other, Publish, PushEvent, Connect, StreamError, ListArrives, Arrive,
       screen
  <2>5. CASE Update \/ UNCHANGED vars
    BY <1>1, <2>5 DEF Update, MsgAfterFrame, vars
  <2> QED BY <1>1, <2>2, <2>3, <2>4, <2>5 DEF Next
<1>2. TypeOK /\ [Next]_vars => [Stands]_vars
  BY <1>1
<1> QED BY <1>2, PageTypeCorrect, PTL DEF Spec, RefusalStands

--------------------------------------------------------------------------------
(* The knob: types.                                                           *)

KnobTypes == [index : ProfileIdx, want : ProfileIdx, pending : BOOLEAN, stale : 0 .. StaleFrames - 1]

\* C's remainder of any turn of the encoder is the index of a profile.
LEMMA SelNextType ==
    ASSUME NEW steps \in Detents, knob \in KnobTypes
    PROVE  SelNext(steps) \in ProfileIdx
<1>1. ProfileCount \in Nat /\ ProfileCount > 0 /\ steps \in Int /\ knob.index \in Int
  BY PanelAssumption DEF KnobTypes, ProfileIdx
<1>2. knob.index + steps \in Int
  BY <1>1
<1> DEFINE turned == knob.index + steps
<1>3. turned \in Int
  BY <1>2
<1> HIDE DEF turned
<1>4. turned % ProfileCount \in 0 .. ProfileCount - 1
  BY <1>1, <1>3
<1> QED BY <1>4 DEF SelNext, ProfileIdx, turned

\* A frame leaves a selection, and one that has something in flight or shows the profile
\* of the frame.
LEMMA FrameShows ==
    ASSUME NEW s \in KnobTypes, NEW idx \in ProfileIdx
    PROVE  /\ SelTelemetry(s, idx) \in KnobTypes
           /\ ~SelTelemetry(s, idx).pending => SelTelemetry(s, idx).index = idx
<1>1. s.stale \in 0 .. 1 /\ s.pending \in BOOLEAN
  BY DEF KnobTypes, StaleFrames
<1>2. CASE ~s.pending
  <2>1. SelTelemetry(s, idx) = [s EXCEPT !.index = idx]
    BY <1>2 DEF SelTelemetry
  <2> QED BY <2>1 DEF KnobTypes
<1>3. CASE s.pending /\ (idx = s.want \/ s.stale + 1 >= StaleFrames)
  <2>1. SelTelemetry(s, idx) = SelBelieve(idx)
    BY <1>3 DEF SelTelemetry
  <2> QED BY <2>1 DEF KnobTypes, SelBelieve, StaleFrames
<1>4. CASE s.pending /\ ~(idx = s.want \/ s.stale + 1 >= StaleFrames)
  <2>1. SelTelemetry(s, idx) = [s EXCEPT !.stale = @ + 1]
    BY <1>4 DEF SelTelemetry
  <2>2. s.stale + 1 \in 0 .. StaleFrames - 1
    BY <1>1, <1>4 DEF StaleFrames
  <2>3. SelTelemetry(s, idx) \in KnobTypes /\ SelTelemetry(s, idx).pending = s.pending
    BY <2>1, <2>2 DEF KnobTypes
  <2> QED BY <1>4, <2>3
<1> QED BY <1>1, <1>2, <1>3, <1>4

Ovens == [state : Control!States, profile : ProfileIdx]

LEMMA FirstIndex == 0 \in ProfileIdx
BY PanelAssumption DEF ProfileIdx

\* Whatever a command makes of the oven is an oven.
LEMMA OutcomesType ==
    ASSUME ctx \in Ovens, NEW cmd, NEW o \in Control!Outcomes(cmd)
    PROVE  o \in Ovens
<1>1. CASE Control!Selects(cmd)
  <2>1. o = [ctx EXCEPT !.profile = cmd.arg % 256] /\ cmd.arg % 256 \in ProfileIdx
    BY <1>1 DEF Control!Outcomes, Control!Selects
  <2> QED BY <2>1 DEF Ovens
<1>2. CASE ~Control!Selects(cmd)
  <2>1. o = ctx \/ o = [ctx EXCEPT !.state = "RUNNING"] \/ o = [ctx EXCEPT !.state = "IDLE"]
    BY <1>2 DEF Control!Outcomes
  <2> QED BY <2>1 DEF Ovens, Control!States
<1> QED BY <1>1, <1>2

ControlTypes ==
    /\ thread \in {"work", "settled", "sleep"}
    /\ ctx \in Ovens
    /\ cmd_q \in Seq(Control!Commands) /\ Len(cmd_q) <= QueueDepth

LEMMA PostType ==
    ASSUME ControlTypes, NEW cmd \in Control!Commands, Control!Post(cmd)
    PROVE  ControlTypes'
<1>1. QueueDepth \in Nat
  BY PanelAssumption
<1>2. /\ Append(cmd_q, cmd) \in Seq(Control!Commands)
      /\ Len(Append(cmd_q, cmd)) = Len(cmd_q) + 1 /\ Len(cmd_q) \in Nat
  BY DEF ControlTypes
<1>3. Len(Append(cmd_q, cmd)) <= QueueDepth
  BY <1>1, <1>2 DEF Control!Post
<1> QED BY <1>2, <1>3 DEF ControlTypes, Control!Post

LEMMA ServeType ==
    ASSUME ControlTypes, Control!Serve
    PROVE  ControlTypes'
<1>1. Tail(cmd_q) \in Seq(Control!Commands) /\ Len(Tail(cmd_q)) <= QueueDepth
  <2>1. cmd_q # <<>> /\ Len(cmd_q) \in Nat /\ QueueDepth \in Nat
    BY PanelAssumption DEF Control!Serve, ControlTypes
  <2>2. Tail(cmd_q) \in Seq(Control!Commands) /\ Len(Tail(cmd_q)) = Len(cmd_q) - 1
    BY <2>1 DEF ControlTypes
  <2> QED BY <2>1, <2>2 DEF ControlTypes
<1>2. ctx' \in Ovens
  BY OutcomesType DEF ControlTypes, Control!Serve
<1> QED BY <1>1, <1>2 DEF ControlTypes, Control!Serve

LEMMA WorkType ==
    ASSUME ControlTypes, Control!Wake \/ Control!Move \/ Control!Sleep
    PROVE  ControlTypes'
<1>1. CASE Control!Wake \/ Control!Sleep
  BY <1>1 DEF ControlTypes, Control!Wake, Control!Sleep
<1>2. CASE Control!Move
  <2>1. ctx' \in Ovens
    BY <1>2 DEF ControlTypes, Control!Move, Ovens, Control!States
  <2> QED BY <1>2, <2>1 DEF ControlTypes, Control!Move
<1> QED BY <1>1, <1>2

FrontTypes ==
    /\ knob \in KnobTypes
    /\ last_state \in Control!States \cup {"UNKNOWN"}
    /\ missed \in BOOLEAN

UiTypes ==
    /\ ui \in [at : {"idle", "post", "commit"}, cmd : Control!Commands,
               seen : Control!States \cup {"UNKNOWN"}]
    /\ ui.at = "commit" => ui.cmd.id = "SELECT_PROFILE"

LEMMA ByParts ==
       PanelTypeOK <=> FrontTypes /\ UiTypes /\ inputs \in 0 .. MaxInputs /\ ControlTypes
BY DEF PanelTypeOK, FrontTypes, UiTypes, ControlTypes, KnobTypes, Ovens

LEMMA IdleType == ASSUME ui' = Idle PROVE UiTypes'
BY DEF UiTypes, Idle, PanelCmd, Control!Commands

LEMMA FrameType ==
    ASSUME FrontTypes, ctx' \in Ovens, Frame
    PROVE  FrontTypes'
<1>1. ctx'.profile \in ProfileIdx /\ ctx'.state \in Control!States
  BY DEF Ovens
<1>2. CASE FrameHeard
  <2>1. knob' \in KnobTypes
    BY <1>1, <1>2, FrameShows DEF FrameHeard, FrontTypes
  <2> QED BY <1>1, <1>2, <2>1 DEF FrontTypes, FrameHeard
<1>3. CASE FrameMissed
  BY <1>3 DEF FrontTypes, FrameMissed
<1> QED BY <1>2, <1>3 DEF Frame

LEMMA InputType ==
    ASSUME inputs \in 0 .. MaxInputs, Input
    PROVE  inputs' \in 0 .. MaxInputs
BY PanelAssumption DEF Input

\* The commands the panel itself posts.
LEMMA PressType ==
    ASSUME NEW st, NEW long \in BOOLEAN
    PROVE  PanelCmd(ButtonDecide(st, long), 0) \in Control!Commands
<1>1. ButtonDecide(st, long) \in {"START", "STOP", "CLEAR_FAULT"}
  BY DEF ButtonDecide
<1> QED BY <1>1 DEF PanelCmd, Control!Commands

LEMMA TurnType ==
    ASSUME NEW steps \in Detents, knob \in KnobTypes
    PROVE  Select(SelNext(steps)) \in Control!Commands
BY SelNextType DEF Select, PanelCmd, Control!Commands

LEMMA PanelInitTypes == PanelInit => PanelTypeOK
<1> SUFFICES ASSUME PanelInit PROVE FrontTypes /\ UiTypes /\ inputs \in 0 .. MaxInputs /\ ControlTypes
  BY ByParts
<1>1. FrontTypes
  <2>1. knob \in KnobTypes
    BY FirstIndex DEF PanelInit, KnobTypes, StaleFrames
  <2> QED BY <2>1 DEF PanelInit, FrontTypes
<1>2. UiTypes
  BY DEF PanelInit, UiTypes, Idle, PanelCmd, Control!Commands
<1>3. inputs \in 0 .. MaxInputs
  BY PanelAssumption DEF PanelInit
<1>4. ControlTypes
  BY FirstIndex, PanelAssumption DEF PanelInit, Control!Init, ControlTypes, Ovens, Control!States
<1> QED BY <1>1, <1>2, <1>3, <1>4

LEMMA PanelNextTypes == PanelTypeOK /\ [PanelNext]_knobVars => PanelTypeOK'
<1> SUFFICES ASSUME PanelTypeOK, [PanelNext]_knobVars PROVE PanelTypeOK'
  OBVIOUS
<1> DEFINE Goal == FrontTypes' /\ UiTypes' /\ inputs' \in 0 .. MaxInputs /\ ControlTypes'
<1>0. FrontTypes /\ UiTypes /\ inputs \in 0 .. MaxInputs /\ ControlTypes
  BY ByParts
<1>g. Goal => PanelTypeOK'
  BY DEF PanelTypeOK, FrontTypes, UiTypes, ControlTypes, KnobTypes, Ovens
<1>f. UNCHANGED <<knob, last_state, missed>> => FrontTypes'
  BY <1>0 DEF FrontTypes
<1>u. UNCHANGED ui => UiTypes'
  BY <1>0 DEF UiTypes
<1>i. UNCHANGED inputs => inputs' \in 0 .. MaxInputs
  BY <1>0
<1>c. UNCHANGED controlVars => ControlTypes'
  BY <1>0 DEF ControlTypes, controlVars
<1>1. ASSUME Rotate PROVE Goal
  <2>1. PICK steps \in Detents :
             ui' = [at |-> "post", cmd |-> Select(SelNext(steps)), seen |-> last_state]
    BY <1>0, <1>1 DEF Rotate
  <2>2. Select(SelNext(steps)) \in Control!Commands
    BY <1>0, TurnType DEF FrontTypes
  <2>3. UiTypes'
    BY <1>0, <2>1, <2>2 DEF UiTypes, FrontTypes
  <2> QED BY <1>0, <1>1, <1>f, <1>c, <2>3, InputType DEF Rotate
<1>2. ASSUME Release PROVE Goal
  <2>1. PICK long \in BOOLEAN :
             ui' = [at |-> "post", cmd |-> PanelCmd(ButtonDecide(last_state, long), 0), seen |-> last_state]
    BY <1>0, <1>2 DEF Release
  <2>2. PanelCmd(ButtonDecide(last_state, long), 0) \in Control!Commands
    BY PressType
  <2>3. UiTypes'
    BY <1>0, <2>1, <2>2 DEF UiTypes, FrontTypes
  <2> QED BY <1>0, <1>2, <1>f, <1>c, <2>3, InputType DEF Release
<1>3. ASSUME PostStep PROVE Goal
  <2>1. UNCHANGED <<knob, last_state, missed, inputs>> /\ ui.cmd \in Control!Commands
    BY <1>0, <1>3 DEF PostStep, UiTypes
  <2>2. CASE Control!Post(ui.cmd) /\ ui.cmd.id = "SELECT_PROFILE" /\ ui' = [ui EXCEPT !.at = "commit"]
    BY <1>0, <1>f, <1>i, <2>1, <2>2, PostType DEF UiTypes
  <2>3. CASE Control!Post(ui.cmd) /\ ui' = Idle
    BY <1>0, <1>f, <1>i, <2>1, <2>3, PostType, IdleType
  <2>4. CASE UNCHANGED controlVars /\ ui' = Idle
    BY <1>0, <1>f, <1>i, <1>c, <2>1, <2>4, IdleType
  <2> QED BY <1>0, <1>3, <2>2, <2>3, <2>4 DEF PostStep
<1>4. ASSUME CommitStep PROVE Goal
  <2>1. ui.cmd.arg \in ProfileIdx
    BY <1>0, <1>4 DEF CommitStep, UiTypes, Control!Commands
  <2>2. FrontTypes'
    BY <1>0, <1>4, <2>1 DEF CommitStep, FrontTypes, KnobTypes, SelCommit, StaleFrames
  <2> QED BY <1>0, <1>4, <1>i, <1>c, <2>2, IdleType DEF CommitStep
<1>5. ASSUME Handle PROVE Goal
  <2>1. ControlTypes' /\ UNCHANGED <<ui, inputs>>
    BY <1>0, <1>5, ServeType DEF Handle
  <2>2. FrontTypes'
    BY <1>0, <1>5, <1>f, <2>1, FrameType DEF Handle, ControlTypes
  <2> QED BY <1>0, <1>u, <1>i, <2>1, <2>2
<1>6. ASSUME WakeStep \/ NotDue PROVE Goal
  BY <1>0, <1>6, <1>f, <1>u, <1>i, WorkType DEF WakeStep, NotDue, panelVars
<1>7. ASSUME OvenMoves \/ Periodic PROVE Goal
  <2>1. ControlTypes' /\ UNCHANGED <<ui, inputs>> /\ Frame
    BY <1>0, <1>7, WorkType DEF OvenMoves, Periodic
  <2>2. FrontTypes'
    BY <1>0, <2>1, FrameType DEF ControlTypes
  <2> QED BY <1>0, <1>u, <1>i, <2>1, <2>2
<1>8. ASSUME Remote PROVE Goal
  BY <1>0, <1>8, <1>f, <1>u, PostType, InputType DEF Remote
<1>9. ASSUME UNCHANGED knobVars PROVE Goal
  BY <1>0, <1>9, <1>f, <1>u, <1>i, <1>c DEF knobVars, panelVars
<1> QED BY <1>g, <1>1, <1>2, <1>3, <1>4, <1>5, <1>6, <1>7, <1>8, <1>9 DEF PanelNext

\* Every index the knob computes is that of a profile, and the frames it waits for are
\* counted within their bound, for any encoder, number of profiles and length of queue.
THEOREM PanelTypeCorrect == PanelSpec => []PanelTypeOK
BY PanelInitTypes, PanelNextTypes, PTL DEF PanelSpec

--------------------------------------------------------------------------------
(* The knob: what it shows.                                                   *)

\* With nothing in flight and the last frame heard the knob shows the profile a START
\* would run, whatever was missed before, for any number of profiles, detents, commands in
\* the queue and other clients.
THEOREM KnobShowsTheOven == PanelSpec => []ShowsTheOven
<1>1. PanelInit => ShowsTheOven
  BY DEF PanelInit, Control!Init, ShowsTheOven
<1>2. ASSUME PanelTypeOK, PanelTypeOK', ShowsTheOven, [PanelNext]_knobVars PROVE ShowsTheOven'
  <2>1. CASE UNCHANGED <<knob, ctx, missed>>
    BY <1>2, <2>1 DEF ShowsTheOven
  <2>2. CASE CommitStep
    BY <2>2 DEF CommitStep, SelCommit, ShowsTheOven
  <2>3. CASE Frame
    <3>1. CASE FrameHeard
      <4>1. knob \in KnobTypes /\ ctx'.profile \in ProfileIdx
        BY <1>2 DEF PanelTypeOK, KnobTypes
      <4>2. knob' = SelTelemetry(knob, ctx'.profile)
        BY <3>1 DEF FrameHeard
      <4>3. ~knob'.pending => knob'.index = ctx'.profile
        BY <4>1, <4>2, FrameShows
      <4> QED BY <4>3 DEF ShowsTheOven
    <3>2. CASE FrameMissed
      BY <3>2 DEF FrameMissed, ShowsTheOven
    <3> QED BY <2>3, <3>1, <3>2 DEF Frame
  <2>4. CASE Rotate \/ Release \/ WakeStep \/ NotDue \/ Remote \/ UNCHANGED knobVars
    BY <2>1, <2>4 DEF Rotate, Release, WakeStep, NotDue, Remote, knobVars, panelVars, controlVars,
       Control!Wake, Control!Sleep, Control!Post
  <2>5. CASE PostStep
    BY <2>1, <2>5 DEF PostStep, controlVars, Control!Post
  <2>6. CASE Handle
    BY <2>1, <2>3, <2>6 DEF Handle, Control!Accepted
  <2>7. CASE OvenMoves \/ Periodic
    BY <2>3, <2>7 DEF OvenMoves, Periodic
  <2> QED BY <1>2, <2>2, <2>4, <2>5, <2>6, <2>7 DEF PanelNext
<1> QED BY <1>1, <1>2, PanelTypeCorrect, PTL DEF PanelSpec
================================================================================
