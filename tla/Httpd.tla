---------------------------------- MODULE Httpd ----------------------------------
(***************************************************************************)
(* The server thread of src/net/httpd.c and the two deadlines of           *)
(* sendbudget.c: one loop over the client slots, that polls, accepts one   *)
(* connection, serves what poll found readable, reclaims the slots of      *)
(* silent connections and pushes a frame to every event stream.            *)
(*                                                                         *)
(* Time is counted in slices of SEND_SLICE_MS and passes where the thread  *)
(* waits: in zsock_poll(), in a zsock_send() whose peer does not read, and *)
(* in the 100 ms of reflow_cmd_post().  The peer at the other end of a     *)
(* connection may speak, read, hang up or die, in its own time.  What a    *)
(* request says is HttpCommand's business.                                 *)
(***************************************************************************)
EXTENDS Integers, FiniteSets, FiniteSetsExt

CONSTANTS
    MaxClients,    \* CONFIG_REFLOW_NET_MAX_CLIENTS
    IdleBudget,    \* CONFIG_REFLOW_NET_IDLE_BUDGET_MS, in slices
    SendBudget,    \* CONFIG_REFLOW_NET_SEND_BUDGET_MS, in slices
    PushPeriod,    \* CONFIG_REFLOW_NET_PUSH_PERIOD_MS, in slices
    PageChunks,    \* the pieces in which a page goes out
    Backlog,       \* the connections the listening socket keeps waiting
    Window         \* the pieces a socket takes before its peer reads one

ASSUME HttpdAssumption ==
    /\ {MaxClients, IdleBudget, SendBudget, PageChunks, Backlog, Window} \subseteq Nat \ {0}
    /\ PushPeriod \in Nat /\ PushPeriod >= 2

Slots == 1 .. MaxClients

\* fds[0]
Listening == 0

\* What a peer can ask for: an answer in one go, a command, or the event stream.
Kinds == {"page", "command", "stream"}

\* The pieces serve() sends for each.
Chunks(kind) == CASE kind = "page" -> PageChunks [] kind = "command" -> 1 [] kind = "stream" -> 2

VARIABLES
    pc,
    waiting,       \* connections in the backlog of the listening socket
    slot,          \* clients[], each with its connection and the peer of that
    ready,         \* of fds[], those with revents still to look at; then the streams to push to
    polled,        \* the slices this poll has waited
    sincePush,     \* k_uptime_get() - last_push, up to PushPeriod
    send,          \* the locals of send_all()
    held           \* history: the thread has waited since poll returned

vars == <<pc, waiting, slot, ready, polled, sincePush, send, held>>

\* A slot with its fd, and what the idle budget has of it: armed, and its age.  Of the
\* peer, peer: whether it "hung" up or is "dead", so that nothing more comes from it;
\* said: its request, until serve() reads it; late: it spoke past the idle budget;
\* unread: what it has not read; full: the slices for which its window has been full.
Free == [open |-> FALSE, sse |-> FALSE, armed |-> FALSE, age |-> 0,
         peer |-> "live", said |-> "nothing", late |-> FALSE, unread |-> 0, full |-> 0]

Fresh == [Free EXCEPT !.open = TRUE, !.armed = TRUE]

NoSend == [slot |-> 0, left |-> 0, quiet |-> 0, what |-> "none"]

Init ==
    /\ pc = "start"
    /\ waiting = 0
    /\ slot = [s \in Slots |-> Free]
    /\ ready = {}
    /\ polled = 0
    /\ sincePush = 0
    /\ send = NoSend
    /\ held = FALSE

--------------------------------------------------------------------------------
(* Shared by the actions: a slice passes, client_close().                     *)

UpTo(bound, n) == IF n < bound THEN n ELSE bound

\* Planted bug: the budget is armed when the connection first speaks.
Watched_Spoken(c) == c.armed /\ c.said # "nothing"

\* reflow_idle_budget_start() at accept, until _disarm().
Watched(c) == c.armed

\* A slice in the life of a connection.
Older(c) ==
    [c EXCEPT !.age = IF Watched(c) THEN UpTo(IdleBudget + 1, @ + 1) ELSE @,
              !.full = IF c.unread = Window THEN UpTo(SendBudget + 1, @ + 1) ELSE @]

Aged == [s \in Slots |-> Older(slot[s])]

PushNearer == sincePush' = UpTo(PushPeriod, sincePush + 1)

\* client_close(), in a state where the slots would otherwise become "sl".
Closed(sl, S) == [s \in Slots |-> IF s \in S THEN Free ELSE sl[s]]

--------------------------------------------------------------------------------
(* The thread.                                                                *)

\* listen_socket(): without one the thread returns.
Listen ==
    /\ pc = "start"
    /\ pc' \in {"poll", "gone"}
    /\ UNCHANGED <<waiting, slot, ready, polled, sincePush, send, held>>

Readable(c) == c.open /\ (c.said \in Kinds \cup {"more"} \/ c.peer = "hung")

\* Planted bug: a pass that accepts looks at nothing else.
Polled_AcceptFirst ==
    IF waiting > 0 THEN {Listening} ELSE {s \in Slots : Readable(slot[s])}

\* What poll finds.
Polled ==
    {s \in Slots : Readable(slot[s])} \cup (IF waiting > 0 THEN {Listening} ELSE {})

\* zsock_poll() waits up to PUSH_MS / 2, and the thread may be scheduled late.
PollWait ==
    /\ pc = "poll" /\ polled < PushPeriod \div 2
    /\ polled' = polled + 1
    /\ slot' = Aged /\ PushNearer
    /\ UNCHANGED <<pc, waiting, ready, send, held>>

PollReturn ==
    /\ pc = "poll" /\ (Polled # {} \/ polled = PushPeriod \div 2)
    /\ ready' = Polled
    /\ held' = FALSE
    /\ pc' = "accept"
    /\ UNCHANGED <<waiting, slot, polled, sincePush, send>>

\* An error is slept on for 100 ms, a slice.
PollFails ==
    /\ pc = "poll" /\ polled = 0
    /\ slot' = Aged /\ PushNearer
    /\ UNCHANGED <<pc, waiting, ready, polled, send, held>>

FreeSlots == {s \in Slots : ~slot[s].open}

\* One connection a pass.  With no slot free it is closed where it stands, and accept()
\* may fail.
Accept ==
    /\ pc = "accept"
    /\ pc' = "serve"
    /\ ready' = ready \ {Listening}
    /\ IF Listening \in ready
          THEN /\ waiting' = waiting - 1
               /\ \/ UNCHANGED slot
                  \/ FreeSlots # {} /\ slot' = [slot EXCEPT ![Min(FreeSlots)] = Fresh]
          ELSE UNCHANGED <<waiting, slot>>
    /\ UNCHANGED <<polled, sincePush, send, held>>

Send(s, n, what) == send' = [slot |-> s, left |-> n, quiet |-> 0, what |-> what]

\* The first slot left in "ready".  Anything on a stream ends it, and so does a hang-up.
Serve ==
    /\ pc = "serve" /\ ready # {}
    /\ LET s == Min(ready)
           said == slot[s].said
       IN  /\ ready' = ready \ {s}
           /\ IF slot[s].sse \/ said = "nothing"
                 THEN slot' = Closed(slot, {s}) /\ UNCHANGED <<pc, send>>
                 ELSE /\ slot' = [slot EXCEPT ![s].said = "read", ![s].late = FALSE]
                      /\ Send(s, Chunks(said), said)
                      /\ pc' = IF said = "command" THEN "post" ELSE "send"
    /\ UNCHANGED <<waiting, polled, sincePush, held>>

\* handle_cmd(): a full command queue is waited for, and answered either way.
Post ==
    /\ pc = "post"
    /\ pc' = "send"
    /\ \/ UNCHANGED <<slot, sincePush, held>>
       \/ slot' = Aged /\ PushNearer /\ held' = TRUE
    /\ UNCHANGED <<waiting, ready, polled, send>>

\* Slots whose idle deadline has passed.
Expired == {s \in Slots : slot[s].armed /\ slot[s].age > IdleBudget}

Reclaim ==
    /\ pc = "serve" /\ ready = {}
    /\ slot' = Closed(slot, Expired)
    /\ pc' = "push"
    /\ UNCHANGED <<waiting, ready, polled, sincePush, send, held>>

Streams == {s \in Slots : slot[s].sse}

\* The end of a pass.
Push ==
    /\ pc = "push"
    /\ IF sincePush >= PushPeriod
          THEN ready' = Streams /\ sincePush' = 0 /\ pc' = "pushing" /\ UNCHANGED polled
          ELSE pc' = "poll" /\ polled' = 0 /\ UNCHANGED <<ready, sincePush>>
    /\ UNCHANGED <<waiting, slot, send, held>>

PushNext ==
    /\ pc = "pushing"
    /\ IF ready = {}
          THEN pc' = "poll" /\ polled' = 0 /\ UNCHANGED <<ready, send>>
          ELSE Send(Min(ready), 1, "push") /\ ready' = ready \ {Min(ready)} /\ pc' = "send"
               /\ UNCHANGED polled
    /\ UNCHANGED <<waiting, slot, sincePush, held>>

--------------------------------------------------------------------------------
(* send_all(), for serve() and for the push.                                  *)

Reader == slot[send.slot]

Return == send' = NoSend /\ pc' = (IF send.what = "push" THEN "pushing" ELSE "serve")

\* Planted bug: reflow_send_budget_progress() is not called.
QuietAfterChunk_Kept == send.quiet

\* reflow_send_budget_progress()
QuietAfterChunk == 0

Chunk ==
    /\ pc = "send" /\ send.left > 0 /\ Reader.unread < Window
    /\ send' = [send EXCEPT !.left = @ - 1, !.quiet = QuietAfterChunk]
    /\ slot' = [slot EXCEPT ![send.slot].unread = @ + 1]
    /\ UNCHANGED <<pc, waiting, ready, polled, sincePush, held>>

\* EAGAIN, and past the budget the client is dropped.
Slice ==
    /\ pc = "send" /\ send.left > 0 /\ Reader.unread = Window
    /\ held' = TRUE
    /\ PushNearer
    /\ IF send.quiet + 1 > SendBudget
          THEN slot' = Closed(Aged, {send.slot}) /\ Return
          ELSE slot' = Aged /\ send' = [send EXCEPT !.quiet = @ + 1] /\ UNCHANGED pc
    /\ UNCHANGED <<waiting, ready, polled>>

\* Any other error: the peer has hung up, or the stack has given it up for dead.
Broken ==
    /\ pc = "send" /\ Reader.peer \in {"hung", "dead"}
    /\ slot' = Closed(slot, {send.slot})
    /\ Return
    /\ UNCHANGED <<waiting, ready, polled, sincePush, held>>

\* All of it is out.  What was a request for the stream is one now, out of reach of the
\* idle budget; every other answer closes its connection.
Sent ==
    /\ pc = "send" /\ send.left = 0
    /\ slot' = CASE send.what = "push" -> slot
                 [] send.what = "stream" ->
                      [slot EXCEPT ![send.slot].sse = TRUE, ![send.slot].armed = FALSE,
                                   ![send.slot].age = 0]
                 [] OTHER -> Closed(slot, {send.slot})
    /\ Return
    /\ UNCHANGED <<waiting, ready, polled, sincePush, held>>

--------------------------------------------------------------------------------
(* The network and the peers, external.                                       *)

Connect ==
    /\ pc \notin {"start", "gone"} /\ waiting < Backlog
    /\ waiting' = waiting + 1
    /\ UNCHANGED slot

Live(s) == slot[s].open /\ slot[s].peer = "live"

Speak(s) ==
    /\ Live(s)
    /\ \/ /\ slot[s].said = "nothing"
          /\ \E kind \in Kinds :
                slot' = [slot EXCEPT ![s].said = kind, ![s].late = slot[s].age > IdleBudget]
       \/ /\ slot[s].sse /\ slot[s].said = "read"
          /\ slot' = [slot EXCEPT ![s].said = "more"]
    /\ UNCHANGED waiting

ReadsOne(s) ==
    /\ Live(s) /\ slot[s].unread > 0
    /\ slot' = [slot EXCEPT ![s].unread = @ - 1, ![s].full = 0]
    /\ UNCHANGED waiting

HangUp(s) == Live(s) /\ slot' = [slot EXCEPT ![s].peer = "hung"] /\ UNCHANGED waiting

Die(s) == Live(s) /\ slot' = [slot EXCEPT ![s].peer = "dead"] /\ UNCHANGED waiting

PeerStep ==
    /\ Connect \/ \E s \in Slots : Speak(s) \/ ReadsOne(s) \/ HangUp(s) \/ Die(s)
    /\ UNCHANGED <<pc, ready, polled, sincePush, send, held>>

Sending == Chunk \/ Slice \/ Broken \/ Sent

Server == PollReturn \/ Accept \/ Serve \/ Post \/ Reclaim \/ Push \/ PushNext \/ Sending

Next == Listen \/ PollWait \/ PollFails \/ Server \/ PeerStep

\* The thread is scheduled, and a pass takes time: an endless run of passes takes
\* endless time.  Of the peers nothing is assumed.
Spec == Init /\ [][Next]_vars /\ WF_vars(Server) /\ SF_vars(PollWait)

--------------------------------------------------------------------------------
(* Properties.                                                                *)

TypeOK ==
    /\ pc \in {"start", "gone", "poll", "accept", "serve", "post", "send", "push", "pushing"}
    /\ waiting \in 0 .. Backlog
    /\ slot \in [Slots -> [open : BOOLEAN, sse : BOOLEAN, armed : BOOLEAN,
                           age : 0 .. IdleBudget + 1, peer : {"live", "hung", "dead"},
                           said : Kinds \cup {"nothing", "read", "more"}, late : BOOLEAN,
                           unread : 0 .. Window, full : 0 .. SendBudget + 1]]
    /\ ready \subseteq Slots \cup {Listening}
    /\ polled \in 0 .. PushPeriod \div 2
    /\ sincePush \in 0 .. PushPeriod
    /\ send \in [slot : Slots \cup {0}, left : Nat, quiet : 0 .. SendBudget,
                 what : Kinds \cup {"none", "push"}]
    /\ held \in BOOLEAN

\* The server ends a connection, and ends it for its silence.
Dropped(s) == slot[s].open /\ ~slot'[s].open

Reclaimed(s) == Dropped(s) /\ pc = "serve" /\ pc' = "push"

\* A peer that is being answered and reads something in every send budget is never cut
\* off, however slow the whole is: its connection ends only with its answer, and the
\* event stream does not end at all unless the peer speaks on it.
ReaderIsKept ==
    [][\A s \in Slots :
          Dropped(s) /\ slot[s].peer = "live" /\ slot[s].said = "read" =>
              \/ slot[s].full >= SendBudget
              \/ send.left = 0 /\ send.slot = s /\ send.what \in {"page", "command"}]_vars

\* A request that arrives within the idle budget of its connection is read, unless the
\* thread was held by another client (or by the command queue) in that very pass.
HeardUnlessHeld ==
    [][\A s \in Slots :
          Reclaimed(s) => held \/ slot[s].said = "nothing" \/ slot[s].late]_vars

\* The slots are not lost one by one to peers that say nothing, stop reading or vanish:
\* whatever it was doing, a connection whose peer is gone gives its slot back.
DeadPeersLeave ==
    \A s \in Slots : slot[s].open /\ slot[s].peer # "live" ~> ~slot[s].open
================================================================================
