----------------------------- MODULE CommandedOven -----------------------------
(***************************************************************************)
(* What the control thread is to whoever posts it commands: a queue served *)
(* in order while the thread sleeps, and an oven (its state and profile)   *)
(* that changes by a command it accepts, or at most once in the work of an *)
(* iteration, when a run is completed or a fault latched.                  *)
(* Module Controller implements it; module Panel is a client composed with *)
(* it.                                                                     *)
(***************************************************************************)
EXTENDS Integers, Sequences

CONSTANTS
    Indices,       \* the indices of the profile table
    Arguments,     \* the arguments SELECT_PROFILE is posted with
    Depth          \* the length of cmd_q

States == {"IDLE", "RUNNING", "DONE", "FAULT"}

Commands == [id : {"START", "STOP", "CLEAR_FAULT"}, arg : {0}]
                \cup [id : {"SELECT_PROFILE"}, arg : Arguments]

VARIABLES
    thread,        \* at work, at work with nothing left to change, asleep, halted
    oven,          \* ctx.state and ctx.profile_idx
    q              \* cmd_q

vars == <<thread, oven, q>>

Init ==
    /\ thread = "work"
    /\ oven = [state |-> "IDLE", profile |-> 0]
    /\ q = <<>>

\* The argument is an int32_t; the index it is looked up by is a uint8_t.
Selects(cmd) ==
    /\ cmd.id = "SELECT_PROFILE"
    /\ oven.state # "RUNNING"
    /\ cmd.arg % 256 \in Indices

\* What handle_cmd() makes of a command: the oven it leaves, the same one if it refuses.
\* A START needs a valid reading, which may be missing.
Outcomes(cmd) ==
    CASE cmd.id = "START" /\ oven.state \in {"IDLE", "DONE"} ->
             {oven, [oven EXCEPT !.state = "RUNNING"]}
      [] cmd.id = "STOP" /\ oven.state = "RUNNING" -> {[oven EXCEPT !.state = "IDLE"]}
      [] cmd.id = "CLEAR_FAULT" /\ oven.state = "FAULT" -> {[oven EXCEPT !.state = "IDLE"]}
      [] Selects(cmd) -> {[oven EXCEPT !.profile = cmd.arg % 256]}
      [] OTHER -> {oven}

\* A command that is not refused is answered by a frame.
Accepted(cmd) == oven' # oven \/ Selects(cmd)

--------------------------------------------------------------------------------

\* reflow_cmd_post(), from any thread; it fails if the queue is full.
Post(cmd) ==
    /\ thread # "halted"
    /\ Len(q) < Depth
    /\ q' = Append(q, cmd)
    /\ UNCHANGED <<thread, oven>>

Serve ==
    /\ thread = "sleep"
    /\ q # <<>>
    /\ q' = Tail(q)
    /\ oven' \in Outcomes(Head(q))
    /\ UNCHANGED thread

\* The deadline passes, with commands left in the queue if an iteration was long.
Wake ==
    /\ thread = "sleep"
    /\ thread' \in {"work", "settled"}
    /\ UNCHANGED <<oven, q>>

\* The work of an iteration completes a run or latches a fault.
Move ==
    /\ thread = "work"
    /\ thread' = "settled"
    /\ \E next \in {"DONE", "FAULT"} :
           /\ oven.state = "RUNNING" \/ (next = "FAULT" /\ oven.state # "FAULT")
           /\ oven' = [oven EXCEPT !.state = next]
    /\ UNCHANGED q

Settle ==
    /\ thread = "work"
    /\ thread' = "settled"
    /\ UNCHANGED <<oven, q>>

Sleep ==
    /\ thread \in {"work", "settled"}
    /\ thread' = "sleep"
    /\ UNCHANGED <<oven, q>>

\* k_sys_fatal_error_handler()
Halt ==
    /\ thread # "halted"
    /\ thread' = "halted"
    /\ UNCHANGED <<oven, q>>

Next ==
    \/ \E cmd \in Commands : Post(cmd)
    \/ Serve \/ Wake \/ Move \/ Settle \/ Sleep
    \/ Halt

Spec == Init /\ [][Next]_vars
================================================================================
