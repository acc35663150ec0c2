--------------------------------- MODULE Panel ---------------------------------
(***************************************************************************)
(* The knob of the oven: src/ui/input_ui.c with the two decision tables it *)
(* calls, selmap.c and buttonmap.c, between the command queue it posts to  *)
(* and the frames it listens to.                                           *)
(*                                                                         *)
(* The callbacks of the input thread are steps, for the control thread has *)
(* the higher priority and may run between any two of them: it may take a  *)
(* command and publish before the callback that posted it has committed.   *)
(* The control thread is that of module CommandedOven.  The listener runs  *)
(* inside publish(), so a frame and its effect on the panel are one step.  *)
(***************************************************************************)
EXTENDS Integers, Sequences

CONSTANTS
    ProfileCount,  \* reflow_profile_count(), a uint8_t
    Detents,       \* the steps an encoder event reports
    QueueDepth,    \* the length of cmd_q
    MaxInputs      \* bound: inputs of the operator and of other clients together

ASSUME PanelAssumption ==
    /\ ProfileCount \in 1 .. 255
    /\ Detents \subseteq Int
    /\ QueueDepth \in Nat \ {0}
    /\ MaxInputs \in Nat

ProfileIdx == 0 .. ProfileCount - 1

StaleFrames == 2   \* REFLOW_SEL_STALE_FRAMES

VARIABLES
    knob,          \* struct reflow_sel
    last_state,    \* the state of the last frame, or "UNKNOWN"
    ui,            \* the callback in progress: where it is, its command, what it read
    inputs,
    missed,                \* history: the last frame published did not arrive
    thread, ctx, cmd_q     \* the control thread, the oven and the queue

panelVars == <<knob, last_state, ui, inputs, missed>>
controlVars == <<thread, ctx, cmd_q>>
knobVars == <<panelVars, controlVars>>

Control == INSTANCE CommandedOven
    WITH Indices <- ProfileIdx, Arguments <- ProfileIdx, Depth <- QueueDepth,
         oven <- ctx, q <- cmd_q

PanelCmd(id, arg) == [id |-> id, arg |-> arg]
Select(idx) == PanelCmd("SELECT_PROFILE", idx)

Idle == [at |-> "idle", cmd |-> PanelCmd("STOP", 0), seen |-> "UNKNOWN"]

PanelTypeOK ==
    /\ knob \in [index : ProfileIdx, want : ProfileIdx, pending : BOOLEAN,
                 stale : 0 .. StaleFrames - 1]
    /\ last_state \in Control!States \cup {"UNKNOWN"}
    /\ ui \in [at : {"idle", "post", "commit"}, cmd : Control!Commands,
               seen : Control!States \cup {"UNKNOWN"}]
    /\ ui.at = "commit" => ui.cmd.id = "SELECT_PROFILE"
    /\ inputs \in 0 .. MaxInputs
    /\ missed \in BOOLEAN
    /\ thread \in {"work", "settled", "sleep"}
    /\ ctx \in [state : Control!States, profile : ProfileIdx]
    /\ cmd_q \in Seq(Control!Commands) /\ Len(cmd_q) <= QueueDepth

PanelInit ==
    /\ knob = [index |-> 0, want |-> 0, pending |-> FALSE, stale |-> 0]
    /\ last_state = "UNKNOWN"
    /\ ui = Idle
    /\ inputs = 0
    /\ missed = FALSE
    /\ Control!Init

--------------------------------------------------------------------------------
(* The decision tables.                                                       *)

\* reflow_sel_next(): C's remainder, made non-negative, is the modulus.
SelNext(steps) == (knob.index + steps) % ProfileCount

\* reflow_sel_commit()
SelCommit(idx) == [index |-> idx, want |-> idx, pending |-> TRUE, stale |-> 0]

SelBelieve(idx) == [index |-> idx, want |-> idx, pending |-> FALSE, stale |-> 0]

\* Planted bugs: a refused command is waited for; a selection made elsewhere is not
\* taken over.
SelTelemetry_Patient(s, idx) ==
    IF ~s.pending THEN [s EXCEPT !.index = idx]
    ELSE IF idx = s.want THEN SelBelieve(idx)
    ELSE s
SelTelemetry_OwnOnly(s, idx) ==
    IF ~s.pending THEN s
    ELSE IF idx = s.want \/ s.stale + 1 >= StaleFrames THEN SelBelieve(idx)
    ELSE [s EXCEPT !.stale = @ + 1]
SelTelemetry_OneMore(s, idx) ==
    IF ~s.pending THEN [s EXCEPT !.index = idx]
    ELSE IF idx = s.want \/ s.stale + 1 > StaleFrames THEN SelBelieve(idx)
    ELSE [s EXCEPT !.stale = @ + 1]

\* reflow_sel_telemetry()
SelTelemetry(s, idx) ==
    IF ~s.pending THEN [s EXCEPT !.index = idx]
    ELSE IF idx = s.want \/ s.stale + 1 >= StaleFrames THEN SelBelieve(idx)
    ELSE [s EXCEPT !.stale = @ + 1]


\* reflow_button_decide()
ButtonDecide(state, long) ==
    CASE state = "FAULT" /\ long -> "CLEAR_FAULT"
      [] state = "FAULT" /\ ~long -> "START"
      [] state \in {"IDLE", "DONE"} -> "START"
      [] OTHER -> "STOP"

--------------------------------------------------------------------------------
(* The input thread.                                                          *)

Input == inputs < MaxInputs /\ inputs' = inputs + 1

\* on_rotate(), up to the post.
Rotate ==
    /\ ui.at = "idle" /\ Input
    /\ last_state # "RUNNING"
    /\ \E steps \in Detents :
           ui' = [at |-> "post", cmd |-> Select(SelNext(steps)), seen |-> last_state]
    /\ UNCHANGED <<knob, last_state, missed, controlVars>>

\* on_button() at the release, up to the post.
Release ==
    /\ ui.at = "idle" /\ Input
    /\ \E long \in BOOLEAN :
           ui' = [at |-> "post", cmd |-> PanelCmd(ButtonDecide(last_state, long), 0),
                  seen |-> last_state]
    /\ UNCHANGED <<knob, last_state, missed, controlVars>>

\* reflow_cmd_post() without waiting: a full queue drops the input.  Only a selection
\* that was taken is committed.
PostStep ==
    /\ ui.at = "post"
    /\ IF Len(cmd_q) < QueueDepth
          THEN /\ Control!Post(ui.cmd)
               /\ ui' = IF ui.cmd.id = "SELECT_PROFILE" THEN [ui EXCEPT !.at = "commit"] ELSE Idle
          ELSE UNCHANGED controlVars /\ ui' = Idle
    /\ UNCHANGED <<knob, last_state, inputs, missed>>

CommitStep ==
    /\ ui.at = "commit"
    /\ knob' = SelCommit(ui.cmd.arg)
    /\ ui' = Idle
    /\ UNCHANGED <<last_state, inputs, missed, controlVars>>

--------------------------------------------------------------------------------
(* The control thread, and the other clients of its queue.                    *)

\* publish(), and telemetry_cb() inside it.
FrameHeard ==
    /\ last_state' = ctx'.state
    /\ knob' = SelTelemetry(knob, ctx'.profile)
    /\ missed' = FALSE

\* The channel was not free in time: publish() does not look at the result.
FrameMissed ==
    /\ missed' = TRUE
    /\ UNCHANGED <<knob, last_state>>

Frame == FrameHeard \/ FrameMissed

\* A command that is refused makes no frame.
Handle ==
    /\ Control!Serve
    /\ IF Control!Accepted(Head(cmd_q)) THEN Frame ELSE UNCHANGED <<knob, last_state, missed>>
    /\ UNCHANGED <<ui, inputs>>

WakeStep ==
    /\ Control!Wake
    /\ UNCHANGED panelVars

\* A run is completed or a fault latched, and a frame says so.  The work may block (on
\* the converter, on the channel), and the input thread then runs.
OvenMoves ==
    /\ inputs < MaxInputs
    /\ Control!Move
    /\ Frame
    /\ UNCHANGED <<ui, inputs>>

\* Planted bug: outside of a run there is no periodic frame, for nothing changes.
Periodic_InRunOnly ==
    /\ Control!Sleep
    /\ IF ctx.state = "RUNNING" THEN Frame ELSE UNCHANGED <<knob, last_state, missed>>
    /\ UNCHANGED <<ui, inputs>>

\* The work ends, with the periodic frame if it is time for one.
Periodic ==
    /\ Control!Sleep
    /\ Frame
    /\ UNCHANGED <<ui, inputs>>

NotDue ==
    /\ Control!Sleep
    /\ UNCHANGED panelVars

\* The page or the shell posts a command.
Remote ==
    /\ Input
    /\ \E cmd \in Control!Commands : Control!Post(cmd)
    /\ UNCHANGED <<knob, last_state, ui, missed>>

PanelNext ==
    \/ Rotate \/ Release \/ PostStep \/ CommitStep
    \/ Handle \/ WakeStep \/ OvenMoves \/ Periodic \/ NotDue
    \/ Remote

PanelSpec == PanelInit /\ [][PanelNext]_knobVars

\* The control thread goes round for ever; iterations are far shorter than their period,
\* so that a queued command is not passed over for ever; now and then it is time for a
\* frame, and of these not all are missed for ever, for who holds the channel copies one
\* frame and lets go; a callback begun is finished.  Nobody has to turn the knob.
PanelFairness ==
    /\ SF_knobVars(Handle) /\ WF_knobVars(WakeStep) /\ SF_knobVars(Periodic /\ FrameHeard)
    /\ WF_knobVars(PostStep) /\ WF_knobVars(CommitStep)

PanelLiveSpec == PanelSpec /\ PanelFairness

--------------------------------------------------------------------------------

\* With nothing in flight the panel shows the profile a START would run, whoever chose
\* it and whatever was refused, confirmed, given up or missed before: one frame that
\* arrives makes up for any number that did not.
ShowsTheOven == ~missed /\ ~knob.pending => knob.index = ctx.profile

\* Once the operator and the clients leave the oven alone the panel comes to agree with
\* it for good, on the profile it shows and on the state its button decides by: no
\* refusal, drop, early frame or missed frame leaves it disagreeing.
PanelSettles == <>[](knob.index = ctx.profile /\ ~knob.pending /\ last_state = ctx.state)

================================================================================
