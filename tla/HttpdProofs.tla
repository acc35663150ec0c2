------------------------------- MODULE HttpdProofs -------------------------------
(***************************************************************************)
(* For any number of slots, any budgets, pages, windows and backlog of     *)
(* module Httpd: a peer that reads is never cut off, and a request that    *)
(* comes in time is heard, unless the thread waited for another client.    *)
(***************************************************************************)
EXTENDS Httpd, TLAPS, WellFoundedInduction

--------------------------------------------------------------------------------
(* The inductive invariant.                                                   *)

Clients == [open : BOOLEAN, sse : BOOLEAN, armed : BOOLEAN, age : Nat,
            peer : {"live", "hung", "dead"}, said : Kinds \cup {"nothing", "read", "more"},
            late : BOOLEAN, unread : 0 .. Window, full : 0 .. SendBudget + 1]

Pcs == {"start", "gone", "poll", "accept", "serve", "post", "send", "push", "pushing"}

Typed ==
    /\ pc \in Pcs
    /\ slot \in [Slots -> Clients]
    /\ ready \subseteq Slots \cup {Listening}
    /\ pc # "accept" => ready \subseteq Slots
    /\ sincePush \in Nat

\* An answer or a frame is being sent, or a command is on its way to the queue.
Answering == pc \in {"post", "send"}

\* What send_all() is about, and how long its peer has been silent: no longer than its
\* window has been full.
SendTyped ==
    Answering =>
        /\ send \in [slot : Slots, left : Nat, quiet : 0 .. SendBudget, what : Kinds \cup {"push"}]
        /\ slot[send.slot].unread = Window => send.quiet <= slot[send.slot].full

\* A stream is out of reach of the idle budget, and nobody else speaks twice.
StreamsApart ==
    \A s \in Slots :
        /\ slot[s].sse = TRUE => slot[s].armed = FALSE
        /\ slot[s].said = "more" => slot[s].sse = TRUE

\* A request that was read and is not a stream is the one being answered.
OneIsAnswered ==
    \A s \in Slots :
        slot[s].said = "read" /\ slot[s].sse = FALSE
            => Answering /\ send.slot = s /\ send.what \in Kinds

\* The slots poll found readable are being gone through.
Serving == pc \in {"accept", "serve", "post"} \/ (pc = "send" /\ send.what # "push")

\* Of them, one that has nothing new to read has hung up.
ReadyForCause ==
    Serving => \A s \in Slots : s \in ready /\ slot[s].said = "read" => slot[s].peer = "hung"

IInv == Typed /\ SendTyped /\ StreamsApart /\ OneIsAnswered /\ ReadyForCause

--------------------------------------------------------------------------------
(* Lemmas.                                                                    *)

LEMMA Bounds ==
    /\ MaxClients \in Nat /\ SendBudget \in Nat /\ IdleBudget \in Nat /\ Window \in Nat
    /\ Window > 0 /\ PageChunks \in Nat /\ PushPeriod \in Nat
BY HttpdAssumption

LEMMA SmallestOf ==
    ASSUME NEW S \in SUBSET Nat, S # {}
    PROVE  Min(S) \in S
<1> DEFINE R == OpToRel(<, Nat)
<1>1. IsWellFoundedOn(R, Nat)
  BY NatLessThanWellFounded
<1>2. \A a, b \in Nat : <<b, a>> \in R <=> b < a
  BY DEF OpToRel
<1> HIDE DEF R
<1>3. PICK x \in S : \A y \in S : <<y, x>> \notin R
  BY <1>1, WFMin, Zenon
<1>4. \A y \in S : x <= y
  <2>1. \A a, b \in Nat : <<b, a>> \notin R => a <= b
    BY <1>2
  <2>2. x \in Nat /\ \A y \in S : y \in Nat /\ <<y, x>> \notin R
    BY <1>3
  <2> QED BY <2>1, <2>2
<1> QED BY <1>4 DEF Min

LEMMA SmallestSlot ==
    ASSUME NEW S \in SUBSET Slots, S # {}
    PROVE  Min(S) \in Slots /\ Min(S) \in S
<1>1. S \in SUBSET Nat
  BY Bounds DEF Slots
<1> QED BY <1>1, SmallestOf

LEMMA FreeType ==
    /\ Free \in Clients /\ Fresh \in Clients
    /\ Free.said = "nothing" /\ Free.sse = FALSE /\ Free.armed = FALSE /\ Free.unread = 0
    /\ Fresh.said = "nothing" /\ Fresh.sse = FALSE /\ Fresh.open = TRUE /\ Fresh.unread = 0
<1>1. /\ Free \in Clients
      /\ Free.said = "nothing" /\ Free.sse = FALSE /\ Free.armed = FALSE /\ Free.unread = 0
  BY Bounds DEF Free, Clients, Kinds
<1>2. Fresh = [Free EXCEPT !.open = TRUE, !.armed = TRUE]
  BY DEF Fresh
<1> HIDE DEF Free, Fresh
<1>3. Fresh \in Clients
  BY <1>1, <1>2 DEF Clients
<1>4. Fresh.said = "nothing" /\ Fresh.sse = FALSE /\ Fresh.open = TRUE /\ Fresh.unread = 0
  BY <1>1, <1>2 DEF Clients
<1> QED BY <1>1, <1>3, <1>4

\* What time does to a connection.
LEMMA OlderType ==
    ASSUME NEW c \in Clients
    PROVE  /\ Older(c) \in Clients
           /\ Older(c).open = c.open /\ Older(c).sse = c.sse /\ Older(c).armed = c.armed
           /\ Older(c).peer = c.peer /\ Older(c).said = c.said /\ Older(c).unread = c.unread
           /\ c.full <= Older(c).full
           /\ c.unread = Window /\ c.full <= SendBudget => Older(c).full = c.full + 1
           /\ c.unread = Window /\ c.full > SendBudget => Older(c).full = SendBudget + 1
<1> DEFINE age == IF Watched(c) THEN UpTo(IdleBudget + 1, c.age + 1) ELSE c.age
           full == IF c.unread = Window THEN UpTo(SendBudget + 1, c.full + 1) ELSE c.full
<1>1. c.age \in Nat /\ c.full \in 0 .. SendBudget + 1
  BY DEF Clients
<1>2. age \in Nat
  BY <1>1, Bounds DEF UpTo
<1>3. /\ full \in 0 .. SendBudget + 1 /\ c.full <= full
      /\ c.unread = Window /\ c.full <= SendBudget => full = c.full + 1
      /\ c.unread = Window /\ c.full > SendBudget => full = SendBudget + 1
  BY <1>1, Bounds DEF UpTo
<1>4. Older(c) = [c EXCEPT !.age = age, !.full = full]
  BY DEF Older
<1> HIDE DEF age, full
<1> QED BY <1>2, <1>3, <1>4 DEF Clients

LEMMA AgedType ==
    ASSUME Typed
    PROVE  Aged \in [Slots -> Clients] /\ \A s \in Slots : Aged[s] = Older(slot[s])
BY OlderType DEF Typed, Aged

LEMMA ClosedType ==
    ASSUME NEW sl \in [Slots -> Clients], NEW S
    PROVE  /\ Closed(sl, S) \in [Slots -> Clients]
           /\ \A s \in Slots : Closed(sl, S)[s] = IF s \in S THEN Free ELSE sl[s]
BY FreeType DEF Closed

LEMMA InitHolds == Init => IInv
BY FreeType, Bounds DEF Init, IInv, Typed, Pcs, SendTyped, StreamsApart, OneIsAnswered, ReadyForCause,
       Answering, Serving

--------------------------------------------------------------------------------
(* Steps in which at most time passes for the connections.                    *)

Calm ==
    /\ slot' \in [Slots -> Clients]
    /\ \A s \in Slots :
          /\ slot'[s].open = slot[s].open
          /\ slot'[s].sse = slot[s].sse /\ slot'[s].armed = slot[s].armed
          /\ slot'[s].said = slot[s].said /\ slot'[s].peer = slot[s].peer
          /\ slot'[s].unread = slot[s].unread /\ slot[s].full <= slot'[s].full

LEMMA CalmSlots == ASSUME Typed, slot' \in {slot, Aged} PROVE Calm
<1>1. CASE slot' = slot
  <2>1. \A s \in Slots : slot[s].full \in Nat
    BY Bounds DEF Typed, Clients
  <2> QED BY <1>1, <2>1 DEF Typed, Calm
<1>2. CASE slot' = Aged
  BY <1>2, AgedType, OlderType DEF Typed, Calm
<1> QED BY <1>1, <1>2

LEMMA UpToType == ASSUME NEW b \in Nat, NEW n \in Nat PROVE UpTo(b, n) \in Nat
BY DEF UpTo

LEMMA NearerType == ASSUME Typed, PushNearer PROVE sincePush' \in Nat
BY UpToType, Bounds DEF Typed, PushNearer

LEMMA CalmKeepsStreams == ASSUME IInv, Calm PROVE StreamsApart'
BY DEF IInv, Calm, StreamsApart

LEMMA QuietStepKeeps ==
    ASSUME IInv, Listen \/ PollWait \/ PollReturn \/ PollFails \/ Push PROVE IInv'
<1>1. Calm /\ sincePush' \in Nat
  BY CalmSlots, NearerType DEF IInv, Typed, Listen, PollWait, PollReturn, PollFails, Push
<1>2. pc' \in Pcs /\ ~Answering /\ ~Answering' /\ send' = send
  BY DEF Listen, PollWait, PollReturn, PollFails, Push, Pcs, Answering
<1>3. ready' \subseteq Slots \cup {Listening} /\ (pc' # "accept" => ready' \subseteq Slots)
  BY DEF Listen, PollWait, PollReturn, PollFails, Push, IInv, Typed, Polled, Streams
<1>4. Typed' /\ SendTyped'
  BY <1>1, <1>2, <1>3 DEF Typed, SendTyped, Calm
<1>5. StreamsApart'
  BY <1>1, CalmKeepsStreams
<1>6. OneIsAnswered'
  BY <1>1, <1>2 DEF IInv, OneIsAnswered, Calm
<1>7. ReadyForCause'
  <2>1. CASE PollReturn
    <3> SUFFICES ASSUME NEW s \in Slots, s \in Polled, slot[s].said = "read"
                 PROVE  slot[s].peer = "hung"
      BY <2>1 DEF PollReturn, ReadyForCause
    <3>1. s # Listening /\ Readable(slot[s])
      BY Bounds DEF Polled, Slots, Listening
    <3> QED BY <3>1 DEF Readable, Kinds
  <2>2. CASE ~PollReturn
    BY <2>2 DEF Listen, PollWait, PollFails, Push, ReadyForCause, Serving
  <2> QED BY <2>1, <2>2
<1> QED BY <1>4, <1>5, <1>6, <1>7 DEF IInv

LEMMA PostKeeps == ASSUME IInv, Post PROVE IInv'
<1>1. Calm /\ sincePush' \in Nat
  BY CalmSlots, NearerType DEF IInv, Typed, Post
<1>2. pc = "post" /\ pc' = "send" /\ send' = send /\ ready' = ready
  BY DEF Post
<1>3. Typed'
  BY <1>1, <1>2 DEF IInv, Typed, Pcs, Calm
<1>4. SendTyped'
  <2>1. send.slot \in Slots /\ send.quiet \in Nat
    BY <1>2, Bounds DEF IInv, SendTyped, Answering
  <2>2. slot[send.slot].full \in Nat /\ slot'[send.slot].full \in Nat
    BY <1>1, <2>1, Bounds DEF IInv, Typed, Calm, Clients
  <2> QED BY <1>1, <1>2, <2>1, <2>2 DEF IInv, SendTyped, Answering, Calm
<1>5. StreamsApart'
  BY <1>1, CalmKeepsStreams
<1>6. OneIsAnswered'
  BY <1>1, <1>2 DEF IInv, OneIsAnswered, Answering, Calm
<1>7. ReadyForCause'
  BY <1>1, <1>2 DEF IInv, ReadyForCause, Serving, Calm
<1> QED BY <1>3, <1>4, <1>5, <1>6, <1>7 DEF IInv

--------------------------------------------------------------------------------
(* The passes.                                                                *)

LEMMA AcceptKeeps == ASSUME IInv, Accept PROVE IInv'
<1>1. pc = "accept" /\ pc' = "serve" /\ ready' = ready \ {Listening} /\ sincePush' = sincePush
  BY DEF Accept
<1>2. /\ slot' \in [Slots -> Clients]
      /\ \A s \in Slots : slot'[s] = slot[s] \/ slot'[s] = Fresh
  BY FreeType DEF Accept, IInv, Typed
<1>3. Typed' /\ SendTyped'
  BY <1>1, <1>2 DEF IInv, Typed, Pcs, SendTyped, Answering
<1>4. StreamsApart'
  BY <1>2, FreeType DEF IInv, StreamsApart
<1>5. OneIsAnswered'
  BY <1>1, <1>2, FreeType DEF IInv, OneIsAnswered, Answering
<1>6. ReadyForCause'
  BY <1>1, <1>2, FreeType DEF IInv, ReadyForCause, Serving
<1> QED BY <1>3, <1>4, <1>5, <1>6 DEF IInv

LEMMA ReclaimKeeps == ASSUME IInv, Reclaim PROVE IInv'
<1>1. pc = "serve" /\ pc' = "push" /\ ready' = ready /\ sincePush' = sincePush
  BY DEF Reclaim
<1>2. /\ slot' \in [Slots -> Clients]
      /\ \A s \in Slots : slot'[s] = slot[s] \/ slot'[s] = Free
  BY ClosedType DEF Reclaim, IInv, Typed
<1>3. Typed' /\ SendTyped'
  BY <1>1, <1>2 DEF IInv, Typed, Pcs, SendTyped, Answering
<1>4. StreamsApart'
  BY <1>2, FreeType DEF IInv, StreamsApart
<1>5. OneIsAnswered'
  BY <1>1, <1>2, FreeType DEF IInv, OneIsAnswered, Answering
<1>6. ReadyForCause'
  BY <1>1 DEF ReadyForCause, Serving
<1> QED BY <1>3, <1>4, <1>5, <1>6 DEF IInv

LEMMA PushNextKeeps == ASSUME IInv, PushNext PROVE IInv'
<1>1. /\ pc = "pushing" /\ slot' = slot /\ sincePush' = sincePush
  BY DEF PushNext
<1>2. CASE ready = {}
  BY <1>1, <1>2 DEF PushNext, IInv, Typed, Pcs, SendTyped, Answering, StreamsApart, OneIsAnswered,
                   ReadyForCause, Serving
<1>3. CASE ready # {}
  <2>1. ready \in SUBSET Slots
    BY <1>1 DEF IInv, Typed
  <2>2. Min(ready) \in Slots
    BY <1>3, <2>1, SmallestSlot
  <2>3. /\ send' = [slot |-> Min(ready), left |-> 1, quiet |-> 0, what |-> "push"]
        /\ ready' = ready \ {Min(ready)} /\ pc' = "send"
    BY <1>3 DEF PushNext, Send
  <2>4. Typed'
    BY <1>1, <2>1, <2>3 DEF IInv, Typed, Pcs
  <2>5. SendTyped'
    <3>1. slot[Min(ready)].full >= 0
      BY <2>2, Bounds DEF IInv, Typed, Clients
    <3> QED BY <1>1, <2>2, <2>3, <3>1, Bounds DEF SendTyped
  <2>6. StreamsApart' /\ OneIsAnswered' /\ ReadyForCause'
    BY <1>1, <2>3 DEF IInv, StreamsApart, OneIsAnswered, ReadyForCause, Answering, Serving
  <2> QED BY <2>4, <2>5, <2>6 DEF IInv
<1> QED BY <1>2, <1>3

LEMMA ServeKeeps == ASSUME IInv, Serve PROVE IInv'
<1> DEFINE s == Min(ready)
           said == slot[s].said
<1>1. pc = "serve" /\ ready # {} /\ ready \in SUBSET Slots /\ sincePush' = sincePush
  BY DEF Serve, IInv, Typed
<1>2. s \in Slots /\ s \in ready
  BY <1>1, SmallestSlot
<1>3. slot[s] \in Clients
  BY <1>2 DEF IInv, Typed
<1>4. ready' = ready \ {s} /\ ready' \subseteq Slots
  BY <1>1 DEF Serve
<1>5. CASE slot[s].sse \/ said = "nothing"
  <2>1. slot' = Closed(slot, {s}) /\ pc' = pc /\ send' = send
    BY <1>5 DEF Serve
  <2> HIDE DEF s
  <2>2. /\ slot' \in [Slots -> Clients]
        /\ \A t \in Slots : slot'[t] = slot[t] \/ slot'[t] = Free
    BY <2>1, ClosedType DEF IInv, Typed
  <2>3. Typed' /\ SendTyped'
    BY <1>1, <1>4, <2>1, <2>2 DEF IInv, Typed, Pcs, SendTyped, Answering
  <2>4. StreamsApart'
    BY <2>2, FreeType DEF IInv, StreamsApart
  <2>5. OneIsAnswered'
    BY <1>1, <2>1, <2>2, FreeType DEF IInv, OneIsAnswered, Answering
  <2>6. ReadyForCause'
    BY <1>1, <1>4, <2>2, FreeType DEF IInv, ReadyForCause, Serving
  <2> QED BY <2>3, <2>4, <2>5, <2>6 DEF IInv
<1>6. CASE ~(slot[s].sse \/ said = "nothing")
  <2>1. /\ slot' = [slot EXCEPT ![s] = [slot[s] EXCEPT !.said = "read", !.late = FALSE]]
        /\ send' = [slot |-> s, left |-> Chunks(said), quiet |-> 0, what |-> said]
        /\ pc' = IF said = "command" THEN "post" ELSE "send"
    BY <1>6, <1>2 DEF Serve, Send, IInv, Typed
  <2>2. slot[s].sse = FALSE
    BY <1>3, <1>6 DEF Clients
  <2>3. said \in Kinds
    <3>1. said # "more"
      BY <1>2, <2>2 DEF IInv, StreamsApart
    <3>2. said # "read"
      BY <1>1, <1>2, <2>2 DEF IInv, OneIsAnswered, Answering
    <3> QED BY <1>3, <1>6, <3>1, <3>2 DEF Clients
  <2>4. Chunks(said) \in Nat
    BY <2>3, Bounds DEF Chunks, Kinds
  <2> DEFINE c == [slot[s] EXCEPT !.said = "read", !.late = FALSE]
             kind == said
  <2>5. /\ c \in Clients /\ c.sse = FALSE /\ c.said = "read" /\ c.full = slot[s].full
        /\ c.unread = slot[s].unread
    BY <1>3, <2>2 DEF Clients
  <2>6. kind \in Kinds /\ send' = [slot |-> s, left |-> Chunks(kind), quiet |-> 0, what |-> kind]
    BY <2>1, <2>3
  <2>7. slot' = [slot EXCEPT ![s] = c] /\ pc' \in {"post", "send"}
    BY <2>1
  <2> HIDE DEF s, c, kind
  <2>8. /\ slot' \in [Slots -> Clients] /\ slot'[s] = c
        /\ \A t \in Slots : t # s => slot'[t] = slot[t]
    BY <1>2, <2>5, <2>7 DEF IInv, Typed
  <2>9. Typed'
    BY <1>1, <1>4, <2>7, <2>8 DEF IInv, Typed, Pcs
  <2>10. SendTyped'
    <3>1. slot'[s].full >= 0
      BY <1>2, <2>8, Bounds DEF Clients
    <3>2. Chunks(kind) \in Nat
      BY <2>4 DEF kind
    <3> QED BY <1>2, <2>6, <3>1, <3>2, Bounds DEF SendTyped
  <2>11. StreamsApart'
    BY <2>5, <2>8 DEF IInv, StreamsApart
  <2>12. OneIsAnswered'
    BY <1>1, <2>6, <2>7, <2>8 DEF IInv, OneIsAnswered, Answering
  <2>13. ReadyForCause'
    BY <1>1, <1>4, <2>8 DEF IInv, ReadyForCause, Serving
  <2> QED BY <2>9, <2>10, <2>11, <2>12, <2>13 DEF IInv
<1> QED BY <1>5, <1>6

--------------------------------------------------------------------------------
(* send_all()                                                                 *)

LEMMA SendFacts ==
    ASSUME IInv, Answering
    PROVE  /\ send.slot \in Slots /\ send.left \in Nat /\ send.quiet \in 0 .. SendBudget
           /\ send.what \in Kinds \cup {"push"}
           /\ send = [slot |-> send.slot, left |-> send.left, quiet |-> send.quiet,
                      what |-> send.what]
           /\ slot[send.slot] \in Clients
           /\ slot[send.slot].unread = Window => send.quiet <= slot[send.slot].full
BY DEF IInv, Typed, SendTyped

\* The answer under way ends: with its connection, or as a stream.
LEMMA ReturnKeeps ==
    ASSUME IInv, pc = "send", Return, ready' = ready, sincePush' \in Nat,
           slot' \in [Slots -> Clients],
           \A s \in Slots :
               \/ slot'[s] = Free
               \/ /\ slot'[s].said = slot[s].said /\ slot'[s].peer = slot[s].peer
                  /\ slot'[s].sse = slot[s].sse /\ slot'[s].armed = slot[s].armed
                  /\ send.slot # s \/ send.what = "push"
               \/ /\ slot'[s].said = slot[s].said /\ slot'[s].peer = slot[s].peer
                  /\ slot'[s].sse = TRUE /\ slot'[s].armed = FALSE
    PROVE  IInv'
<1>1. pc' \in {"serve", "pushing"} /\ (pc' = "serve" => send.what # "push")
  BY DEF Return
<1>2. Typed' /\ SendTyped'
  BY <1>1 DEF IInv, Typed, Pcs, SendTyped, Answering
<1>3. StreamsApart'
  BY FreeType DEF IInv, StreamsApart
<1>4. OneIsAnswered'
  <2> SUFFICES ASSUME NEW s \in Slots PROVE ~(slot'[s].said = "read" /\ slot'[s].sse = FALSE)
    BY DEF OneIsAnswered
  <2>1. slot[s].said = "read" /\ slot[s].sse = FALSE => send.slot = s /\ send.what # "push"
    BY DEF IInv, OneIsAnswered, Kinds
  <2> QED BY <2>1, FreeType
<1>5. ReadyForCause'
  BY <1>1, FreeType DEF IInv, ReadyForCause, Serving
<1> QED BY <1>2, <1>3, <1>4, <1>5 DEF IInv

LEMMA ChunkKeeps == ASSUME IInv, Chunk PROVE IInv'
<1> DEFINE k == send.slot
           c == [slot[k] EXCEPT !.unread = slot[k].unread + 1]
<1>1. pc = "send" /\ pc' = "send" /\ ready' = ready /\ sincePush' = sincePush /\ send.left > 0
  BY DEF Chunk
<1>2. /\ k \in Slots /\ send.left \in Nat /\ slot[k] \in Clients
      /\ send.what \in Kinds \cup {"push"}
      /\ send = [slot |-> k, left |-> send.left, quiet |-> send.quiet, what |-> send.what]
  BY <1>1, SendFacts DEF Answering
<1>a. slot[k].unread + 1 \in 0 .. Window
  <2>1. slot[k].unread \in 0 .. Window /\ slot[k].unread < Window
    BY <1>2 DEF Clients, Chunk, Reader
  <2> QED BY <2>1, Bounds
<1>3. slot' = [slot EXCEPT ![k] = c]
  BY DEF Chunk
<1>4. /\ c \in Clients /\ c.said = slot[k].said /\ c.peer = slot[k].peer
      /\ c.sse = slot[k].sse /\ c.armed = slot[k].armed
  BY <1>2, <1>a DEF Clients
<1>5. send' = [send EXCEPT !.left = send.left - 1, !.quiet = 0]
  BY DEF Chunk, QuietAfterChunk
<1>b. send' = [slot |-> k, left |-> send.left - 1, quiet |-> 0, what |-> send.what]
  BY <1>2, <1>5
<1>6. send'.slot = k /\ send'.quiet = 0 /\ send'.what = send.what
      /\ send' \in [slot : Slots, left : Nat, quiet : 0 .. SendBudget, what : Kinds \cup {"push"}]
  <2>1. send.left - 1 \in Nat /\ 0 \in 0 .. SendBudget
    BY <1>1, <1>2, Bounds
  <2> QED BY <1>2, <1>b, <2>1
<1> HIDE DEF k, c
<1>7. /\ slot' \in [Slots -> Clients]
      /\ \A t \in Slots : /\ slot'[t].said = slot[t].said /\ slot'[t].peer = slot[t].peer
                          /\ slot'[t].sse = slot[t].sse /\ slot'[t].armed = slot[t].armed
  BY <1>2, <1>3, <1>4 DEF IInv, Typed
<1>8. Typed'
  BY <1>1, <1>7 DEF IInv, Typed
<1>9. SendTyped'
  <2>1. slot'[k].full >= 0
    BY <1>2, <1>7, Bounds DEF Clients
  <2> QED BY <1>6, <2>1 DEF SendTyped
<1>10. StreamsApart'
  BY <1>7 DEF IInv, StreamsApart
<1>11. OneIsAnswered'
  BY <1>1, <1>6, <1>7 DEF IInv, OneIsAnswered, Answering, k
<1>12. ReadyForCause'
  BY <1>1, <1>6, <1>7 DEF IInv, ReadyForCause, Serving
<1> QED BY <1>8, <1>9, <1>10, <1>11, <1>12 DEF IInv

LEMMA SliceKeeps == ASSUME IInv, Slice PROVE IInv'
<1> DEFINE k == send.slot
<1>1. pc = "send" /\ ready' = ready /\ sincePush' \in Nat /\ slot[k].unread = Window
  BY NearerType DEF Slice, Reader, IInv
<1>2. /\ k \in Slots /\ send.left \in Nat /\ slot[k] \in Clients /\ send.quiet \in 0 .. SendBudget
      /\ send.what \in Kinds \cup {"push"} /\ send.quiet <= slot[k].full
      /\ send = [slot |-> k, left |-> send.left, quiet |-> send.quiet, what |-> send.what]
  BY <1>1, SendFacts DEF Answering
<1>3. Aged \in [Slots -> Clients] /\ \A s \in Slots : Aged[s] = Older(slot[s])
  BY AgedType DEF IInv
<1>4. CASE send.quiet + 1 > SendBudget
  <2>1. slot' = Closed(Aged, {k}) /\ Return
    BY <1>4 DEF Slice
  <2>2. /\ slot' \in [Slots -> Clients]
        /\ \A s \in Slots : slot'[s] = IF s = k THEN Free ELSE Older(slot[s])
    BY <1>3, <2>1, ClosedType
  <2>3. \A s \in Slots :
            /\ Older(slot[s]).said = slot[s].said /\ Older(slot[s]).peer = slot[s].peer
            /\ Older(slot[s]).sse = slot[s].sse /\ Older(slot[s]).armed = slot[s].armed
    BY OlderType DEF IInv, Typed
  <2> QED BY <1>1, <2>1, <2>2, <2>3, ReturnKeeps
<1>5. CASE ~(send.quiet + 1 > SendBudget)
  <2>1. slot' = Aged /\ send' = [send EXCEPT !.quiet = send.quiet + 1] /\ pc' = pc
    BY <1>5 DEF Slice
  <2>2. Calm
    BY <2>1, CalmSlots DEF IInv
  <2>3. /\ send'.slot = k /\ send'.what = send.what /\ send'.quiet = send.quiet + 1
        /\ send' \in [slot : Slots, left : Nat, quiet : 0 .. SendBudget,
                      what : Kinds \cup {"push"}]
    BY <1>2, <1>5, <2>1, Bounds
  <2>4. Typed'
    BY <1>1, <2>1, <2>2 DEF IInv, Typed, Calm
  <2>5. SendTyped'
    <3>1. slot'[k] = Older(slot[k]) /\ slot[k].full \in 0 .. SendBudget + 1
      BY <1>2, <1>3, <2>1 DEF Clients
    <3>2. send.quiet + 1 <= slot'[k].full
      BY <1>1, <1>2, <1>5, <3>1, OlderType, Bounds
    <3> QED BY <2>3, <3>2 DEF SendTyped
  <2>6. StreamsApart'
    BY <2>2, CalmKeepsStreams
  <2>7. OneIsAnswered'
    BY <1>1, <2>1, <2>2, <2>3 DEF IInv, OneIsAnswered, Answering, Calm
  <2>8. ReadyForCause'
    BY <1>1, <2>1, <2>2, <2>3 DEF IInv, ReadyForCause, Serving, Calm
  <2> QED BY <2>4, <2>5, <2>6, <2>7, <2>8 DEF IInv
<1> QED BY <1>4, <1>5

LEMMA BrokenKeeps == ASSUME IInv, Broken PROVE IInv'
<1>1. pc = "send" /\ ready' = ready /\ sincePush' \in Nat /\ slot' = Closed(slot, {send.slot}) /\ Return
  BY DEF Broken, IInv, Typed
<1>2. /\ slot' \in [Slots -> Clients]
      /\ \A s \in Slots : slot'[s] = IF s = send.slot THEN Free ELSE slot[s]
  BY <1>1, ClosedType DEF IInv, Typed
<1> QED BY <1>1, <1>2, ReturnKeeps

LEMMA SentKeeps == ASSUME IInv, Sent PROVE IInv'
<1> DEFINE k == send.slot
           c == [slot[k] EXCEPT !.sse = TRUE, !.armed = FALSE, !.age = 0]
<1>1. pc = "send" /\ ready' = ready /\ sincePush' \in Nat /\ Return
  BY DEF Sent, IInv, Typed
<1>2. k \in Slots /\ slot[k] \in Clients
  BY <1>1, SendFacts DEF Answering
<1>3. CASE send.what = "push"
  <2>1. slot' = slot
    BY <1>3 DEF Sent
  <2> QED BY <1>1, <1>3, <2>1, ReturnKeeps DEF IInv, Typed
<1>4. CASE send.what = "stream"
  <2>1. slot' = [slot EXCEPT ![k] = c]
    BY <1>4, <1>2 DEF Sent, IInv, Typed
  <2>2. c \in Clients /\ c.sse = TRUE /\ c.armed = FALSE /\ c.said = slot[k].said /\ c.peer = slot[k].peer
    BY <1>2 DEF Clients
  <2> HIDE DEF c
  <2>3. slot' \in [Slots -> Clients] /\ \A s \in Slots : slot'[s] = IF s = k THEN c ELSE slot[s]
    BY <1>2, <2>1, <2>2 DEF IInv, Typed
  <2> QED BY <1>1, <2>2, <2>3, ReturnKeeps
<1>5. CASE send.what \notin {"push", "stream"}
  <2>1. slot' = Closed(slot, {k})
    BY <1>5 DEF Sent
  <2>2. /\ slot' \in [Slots -> Clients]
        /\ \A s \in Slots : slot'[s] = IF s = k THEN Free ELSE slot[s]
    BY <2>1, ClosedType DEF IInv, Typed
  <2> QED BY <1>1, <2>2, ReturnKeeps
<1> QED BY <1>3, <1>4, <1>5

--------------------------------------------------------------------------------
(* The peers.                                                                 *)

\* What a peer can do to its connection.
PeerMoves(c, d) ==
    /\ d \in Clients
    /\ d.open = c.open /\ d.sse = c.sse /\ d.armed = c.armed
    /\ d.said = "read" => c.said = "read"
    /\ d.said = "more" => c.said = "more" \/ c.sse = TRUE
    /\ c.peer = "hung" => d.peer = "hung"
    /\ d.unread = Window => c.unread = Window /\ d.full = c.full

LEMMA PeerStepMoves ==
    ASSUME Typed, PeerStep
    PROVE  slot' \in [Slots -> Clients] /\ \A s \in Slots : PeerMoves(slot[s], slot'[s])
<1>1. CASE Connect
  BY <1>1 DEF Connect, Typed, PeerMoves
<1>2. ASSUME NEW s \in Slots, Speak(s) \/ ReadsOne(s) \/ HangUp(s) \/ Die(s)
      PROVE  slot' \in [Slots -> Clients] /\ \A t \in Slots : PeerMoves(slot[t], slot'[t])
  <2>1. slot[s] \in Clients /\ slot[s].open \in BOOLEAN
    BY <1>2 DEF Typed, Clients
  <2>2. PICK d : slot' = [slot EXCEPT ![s] = d] /\ PeerMoves(slot[s], d)
    <3>1. CASE Speak(s)
      <4>1. CASE slot[s].said = "nothing"
        <5> DEFINE late == slot[s].age > IdleBudget
        <5>1. PICK kind \in Kinds :
                 slot' = [slot EXCEPT ![s] = [slot[s] EXCEPT !.said = kind, !.late = late]]
          BY <3>1, <4>1 DEF Speak, Typed
        <5>a. late \in BOOLEAN
          OBVIOUS
        <5> HIDE DEF late
        <5>2. PeerMoves(slot[s], [slot[s] EXCEPT !.said = kind, !.late = late])
          BY <2>1, <4>1, <5>a DEF PeerMoves, Clients, Kinds
        <5> QED BY <5>1, <5>2
      <4>2. CASE slot[s].said # "nothing"
        <5>1. slot[s].sse = TRUE /\ slot' = [slot EXCEPT ![s] = [slot[s] EXCEPT !.said = "more"]]
          BY <2>1, <3>1, <4>2 DEF Speak, Clients, Typed
        <5>2. PeerMoves(slot[s], [slot[s] EXCEPT !.said = "more"])
          BY <2>1, <5>1 DEF PeerMoves, Clients
        <5> QED BY <5>1, <5>2
      <4> QED BY <4>1, <4>2
    <3>2. CASE ReadsOne(s)
      <4>1. /\ slot[s].unread > 0
            /\ slot' = [slot EXCEPT ![s] = [slot[s] EXCEPT !.unread = slot[s].unread - 1, !.full = 0]]
        BY <3>2 DEF ReadsOne, Typed
      <4>2. PeerMoves(slot[s], [slot[s] EXCEPT !.unread = slot[s].unread - 1, !.full = 0])
        <5>1. /\ slot[s].unread - 1 \in 0 .. Window /\ slot[s].unread - 1 # Window
              /\ 0 \in 0 .. SendBudget + 1
          BY <2>1, <4>1, Bounds DEF Clients
        <5> QED BY <2>1, <5>1 DEF PeerMoves, Clients
      <4> QED BY <4>1, <4>2
    <3>3. CASE HangUp(s) \/ Die(s)
      <4>1. PICK peer \in {"hung", "dead"} :
               slot[s].peer = "live" /\ slot' = [slot EXCEPT ![s] = [slot[s] EXCEPT !.peer = peer]]
        BY <3>3 DEF HangUp, Die, Live, Typed
      <4>2. PeerMoves(slot[s], [slot[s] EXCEPT !.peer = peer])
        BY <2>1, <4>1 DEF PeerMoves, Clients
      <4> QED BY <4>1, <4>2
    <3> QED BY <1>2, <3>1, <3>2, <3>3
  <2>3. \A t \in Slots : PeerMoves(slot[t], slot[t])
    BY DEF PeerMoves, Typed
  <2>4. d \in Clients
    BY <2>2 DEF PeerMoves
  <2>5. \A t \in Slots : slot'[t] = IF t = s THEN d ELSE slot[t]
    BY <2>2 DEF Typed
  <2> QED BY <2>2, <2>3, <2>4, <2>5 DEF Typed
<1> QED BY <1>1, <1>2 DEF PeerStep

LEMMA PeerStepKeeps == ASSUME IInv, PeerStep PROVE IInv'
<1>1. pc' = pc /\ ready' = ready /\ sincePush' = sincePush /\ send' = send
  BY DEF PeerStep
<1>2. slot' \in [Slots -> Clients] /\ \A s \in Slots : PeerMoves(slot[s], slot'[s])
  BY PeerStepMoves DEF IInv
<1>3. \A s \in Slots :
          /\ slot'[s].sse = slot[s].sse /\ slot'[s].armed = slot[s].armed
          /\ slot'[s].said = "read" => slot[s].said = "read"
          /\ slot'[s].said = "more" => slot[s].said = "more" \/ slot[s].sse = TRUE
          /\ slot[s].peer = "hung" => slot'[s].peer = "hung"
          /\ slot'[s].unread = Window => slot[s].unread = Window /\ slot'[s].full = slot[s].full
  BY <1>2 DEF PeerMoves
<1>4. Typed'
  BY <1>1, <1>2 DEF IInv, Typed
<1>5. SendTyped'
  BY <1>1, <1>3 DEF IInv, SendTyped, Answering
<1>6. StreamsApart'
  BY <1>3 DEF IInv, StreamsApart
<1>7. OneIsAnswered'
  BY <1>1, <1>3 DEF IInv, OneIsAnswered, Answering
<1>8. ReadyForCause'
  BY <1>1, <1>3 DEF IInv, ReadyForCause, Serving
<1> QED BY <1>4, <1>5, <1>6, <1>7, <1>8 DEF IInv

LEMMA StutterKeeps == ASSUME IInv, UNCHANGED vars PROVE IInv'
BY DEF vars, IInv, Typed, SendTyped, StreamsApart, OneIsAnswered, ReadyForCause, Answering, Serving

--------------------------------------------------------------------------------
(* Who is cut off.                                                            *)

\* Only five steps end a connection.
LEMMA WhoDrops ==
    ASSUME IInv, Next, NEW s \in Slots, Dropped(s)
    PROVE  Serve \/ Reclaim \/ Slice \/ Broken \/ Sent
<1>1. slot'[s].open # slot[s].open
  BY DEF Dropped
<1>2. ASSUME Calm PROVE FALSE
  BY <1>1, <1>2 DEF Calm
<1>3. ~(Listen \/ PollWait \/ PollReturn \/ PollFails \/ Post \/ Push)
  BY <1>2, CalmSlots
     DEF IInv, Listen, PollWait, PollReturn, PollFails, Post, Push
<1>4. ~PushNext
  BY <1>1 DEF PushNext
<1>5. ~Accept
  <2> SUFFICES ASSUME Accept PROVE FALSE
    OBVIOUS
  <2>1. slot'[s] = slot[s] \/ slot'[s] = Fresh
    BY FreeType DEF Accept, IInv, Typed
  <2>2. slot'[s] = Fresh
    BY <1>1, <2>1
  <2> QED BY <2>2, FreeType DEF Dropped
<1>6. ~Chunk
  <2> SUFFICES ASSUME Chunk PROVE FALSE
    OBVIOUS
  <2>1. slot' = [slot EXCEPT ![send.slot] = [slot[send.slot] EXCEPT !.unread = slot[send.slot].unread + 1]]
    BY DEF Chunk
  <2>2. slot'[s].open = slot[s].open
    BY <2>1 DEF IInv, Typed, Clients
  <2> QED BY <1>1, <2>2
<1>7. ~PeerStep
  BY <1>1, PeerStepMoves DEF IInv, PeerMoves
<1> QED BY <1>3, <1>4, <1>5, <1>6, <1>7 DEF Next, Server, Sending

LEMMA ReadersStay ==
    ASSUME IInv, Next, NEW s \in Slots, Dropped(s), slot[s].peer = "live", slot[s].said = "read"
    PROVE  \/ slot[s].full >= SendBudget
           \/ send.left = 0 /\ send.slot = s /\ send.what \in {"page", "command"}
<1>1. slot'[s] # slot[s] /\ slot[s] \in Clients
  BY DEF Dropped, IInv, Typed
<1>2. CASE Serve
  <2>1. ready \in SUBSET Slots /\ ready # {} /\ pc = "serve"
    BY <1>2 DEF Serve, IInv, Typed
  <2> DEFINE k == Min(ready)
  <2>2. k \in ready /\ k \in Slots
    BY <2>1, SmallestSlot
  <2>3. s # k
    <3>1. ~(s \in ready)
      BY <2>1 DEF IInv, ReadyForCause, Serving
    <3> QED BY <2>2, <3>1
  <2>4. slot' = Closed(slot, {k}) \/ \E c : slot' = [slot EXCEPT ![k] = c]
    BY <1>2 DEF Serve, IInv, Typed
  <2> HIDE DEF k
  <2>5. slot'[s] = slot[s]
    BY <2>3, <2>4, ClosedType DEF IInv, Typed
  <2> QED BY <1>1, <2>5
<1>3. CASE Reclaim
  <2>1. pc = "serve" /\ slot' = Closed(slot, Expired)
    BY <1>3 DEF Reclaim
  <2>2. s \in Expired
    BY <1>1, <2>1, ClosedType DEF IInv, Typed
  <2>3. slot[s].armed = TRUE
    BY <1>1, <2>2 DEF Expired, Clients
  <2>4. slot[s].sse = FALSE
    BY <1>1, <2>3 DEF IInv, StreamsApart, Clients
  <2> QED BY <2>1, <2>4 DEF IInv, OneIsAnswered, Answering
<1>4. CASE Slice
  <2>1. pc = "send" /\ slot[send.slot].unread = Window
    BY <1>4 DEF Slice, Reader
  <2>2. Aged \in [Slots -> Clients] /\ \A t \in Slots : Aged[t].open = slot[t].open
    BY AgedType, OlderType DEF IInv, Typed
  <2>3. slot'[s].open # slot[s].open
    BY DEF Dropped
  <2>4. send.quiet + 1 > SendBudget /\ slot' = Closed(Aged, {send.slot})
    BY <1>4, <2>2, <2>3 DEF Slice
  <2>5. s = send.slot
    BY <2>2, <2>3, <2>4, ClosedType
  <2>6. send.quiet \in 0 .. SendBudget /\ send.quiet <= slot[s].full
    BY <2>1, <2>5, SendFacts DEF Answering
  <2> QED BY <1>1, <2>4, <2>6, Bounds DEF Clients
<1>5. CASE Broken
  <2>1. slot' = Closed(slot, {send.slot}) /\ slot[send.slot].peer # "live"
    BY <1>5 DEF Broken, Reader
  <2>2. s = send.slot
    BY <1>1, <2>1, ClosedType DEF IInv, Typed
  <2> QED BY <2>1, <2>2
<1>6. CASE Sent
  <2>1. pc = "send" /\ send.left = 0 /\ send.what \in Kinds \cup {"push"} /\ send.slot \in Slots
    BY <1>6, SendFacts DEF Sent, Answering
  <2>2. send.what # "push"
    BY <1>1, <1>6 DEF Sent
  <2>3. send.what # "stream"
    <3> SUFFICES ASSUME send.what = "stream" PROVE FALSE
      OBVIOUS
    <3> DEFINE c == [slot[send.slot] EXCEPT !.sse = TRUE, !.armed = FALSE, !.age = 0]
    <3>1. slot' = [slot EXCEPT ![send.slot] = c]
      BY <1>6, <2>1 DEF Sent, IInv, Typed
    <3>2. c.open = slot[send.slot].open
      BY <2>1 DEF IInv, Typed, Clients
    <3> HIDE DEF c
    <3>3. slot'[s].open = slot[s].open
      BY <3>1, <3>2 DEF IInv, Typed
    <3> QED BY <3>3 DEF Dropped
  <2>4. slot' = Closed(slot, {send.slot})
    BY <1>6, <2>2, <2>3 DEF Sent
  <2>5. s = send.slot
    BY <1>1, <2>4, ClosedType DEF IInv, Typed
  <2> QED BY <2>1, <2>2, <2>3, <2>5 DEF Kinds
<1> QED BY <1>2, <1>3, <1>4, <1>5, <1>6, WhoDrops

--------------------------------------------------------------------------------
(* Who is heard.                                                              *)

\* A request comes from an open connection.  In a pass in which the thread has not waited
\* since poll returned, one that is still unread is either within the idle budget, or came
\* too late for it, or is among those poll found.
HeardInTime ==
    /\ held \in BOOLEAN
    /\ \A s \in Slots : slot[s].said \in Kinds => slot[s].open = TRUE
    /\ Serving /\ held = FALSE =>
          \A s \in Slots :
              slot[s].armed = TRUE /\ slot[s].said \in Kinds
                  => slot[s].late = TRUE \/ slot[s].age <= IdleBudget \/ s \in ready

\* What a step that takes no time can do to a connection.
Hears(c, d) ==
    \/ d.said \notin Kinds
    \/ /\ d.said = c.said /\ d.open = c.open
       /\ d.armed = FALSE \/ (d.armed = c.armed /\ d.late = c.late /\ d.age = c.age)
    \/ d.open = TRUE /\ (d.late = TRUE \/ d.age <= IdleBudget)

LEMMA NoTimeKeeps ==
    ASSUME HeardInTime, held' = held, Serving' => Serving, \A s \in Slots : Hears(slot[s], slot'[s]),
           \A s \in Slots : s \in ready /\ slot'[s].said \in Kinds => s \in ready'
    PROVE  HeardInTime'
<1>1. held' \in BOOLEAN /\ \A s \in Slots : slot'[s].said \in Kinds => slot'[s].open = TRUE
  BY DEF HeardInTime, Hears
<1>2. ASSUME Serving', held' = FALSE, NEW s \in Slots, slot'[s].armed = TRUE, slot'[s].said \in Kinds
      PROVE  slot'[s].late = TRUE \/ slot'[s].age <= IdleBudget \/ s \in ready'
  <2>1. Serving /\ held = FALSE
    BY <1>2
  <2>2. slot[s].armed = TRUE /\ slot[s].said \in Kinds
            => slot[s].late = TRUE \/ slot[s].age <= IdleBudget \/ s \in ready
    BY <2>1 DEF HeardInTime
  <2> QED BY <1>2, <2>2 DEF Hears
<1> QED BY <1>1, <1>2 DEF HeardInTime

\* Time passes, but the pass is over or the thread has waited in it.
LEMMA TimeKeeps ==
    ASSUME HeardInTime, held' \in BOOLEAN, held' = TRUE \/ ~Serving',
           \A s \in Slots : \/ slot'[s] = Free
                            \/ slot'[s].said = slot[s].said /\ slot'[s].open = slot[s].open
    PROVE  HeardInTime'
BY FreeType DEF HeardInTime, Kinds

LEMMA HearsItself == \A c : Hears(c, c)
BY DEF Hears

LEMMA HearsFree == ASSUME NEW c PROVE Hears(c, Free) /\ Hears(c, Fresh)
BY FreeType DEF Hears, Kinds

LEMMA PollHears == ASSUME IInv, HeardInTime, PollReturn PROVE HeardInTime'
<1>1. slot' = slot /\ ready' = Polled /\ held' = FALSE
  BY DEF PollReturn
<1>2. ASSUME NEW s \in Slots, slot[s].said \in Kinds PROVE s \in Polled
  BY <1>2 DEF HeardInTime, Polled, Readable
<1> QED BY <1>1, <1>2 DEF HeardInTime

LEMMA PassHears ==
    ASSUME IInv, HeardInTime, Listen \/ PollWait \/ PollFails \/ Push \/ Post PROVE HeardInTime'
<1>1. Calm
  BY CalmSlots DEF IInv, Listen, PollWait, PollFails, Push, Post
<1>2. CASE held' = TRUE
  BY <1>1, <1>2, TimeKeeps DEF Calm
<1>3. CASE held' # TRUE /\ ~Post
  <2>1. held' = held /\ ~Serving'
    BY <1>3 DEF Listen, PollWait, PollFails, Push, Serving
  <2> QED BY <1>1, <2>1, TimeKeeps DEF Calm, HeardInTime
<1>4. CASE held' # TRUE /\ Post
  <2>1. slot' = slot /\ held' = held /\ ready' = ready /\ Serving
    BY <1>4 DEF Post, Serving
  <2> QED BY <2>1, NoTimeKeeps, HearsItself
<1> QED BY <1>2, <1>3, <1>4

LEMMA AcceptHears == ASSUME IInv, HeardInTime, Accept PROVE HeardInTime'
<1>1. held' = held /\ Serving /\ ready' = ready \ {Listening}
  BY DEF Accept, Serving
<1>2. \A s \in Slots : slot'[s] = slot[s] \/ slot'[s] = Fresh
  BY FreeType DEF Accept, IInv, Typed
<1>3. \A s \in Slots : s \in ready => s \in ready'
  BY <1>1, Bounds DEF Slots, Listening
<1> QED BY <1>1, <1>2, <1>3, NoTimeKeeps, HearsItself, HearsFree

LEMMA ServeHears == ASSUME IInv, HeardInTime, Serve PROVE HeardInTime'
<1> DEFINE k == Min(ready)
           c == [slot[k] EXCEPT !.said = "read", !.late = FALSE]
<1>1. held' = held /\ Serving /\ ready' = ready \ {k} /\ ready # {} /\ ready \in SUBSET Slots
  BY DEF Serve, Serving, IInv, Typed
<1>2. k \in Slots
  BY <1>1, SmallestSlot
<1>3. slot' = Closed(slot, {k}) \/ slot' = [slot EXCEPT ![k] = c]
  BY <1>2 DEF Serve, IInv, Typed
<1>4. c.said = "read"
  BY <1>2 DEF IInv, Typed, Clients
<1> HIDE DEF k, c
<1>5. \A s \in Slots : s # k => slot'[s] = slot[s]
  BY <1>3, ClosedType DEF IInv, Typed
<1>6. slot'[k].said \notin Kinds
  BY <1>2, <1>3, <1>4, ClosedType, FreeType DEF IInv, Typed, Kinds
<1>7. \A s \in Slots : Hears(slot[s], slot'[s])
  BY <1>5, <1>6, HearsItself DEF Hears
<1>8. \A s \in Slots : s \in ready /\ slot'[s].said \in Kinds => s \in ready'
  BY <1>1, <1>6
<1> QED BY <1>1, <1>7, <1>8, NoTimeKeeps

LEMMA ReclaimHears == ASSUME IInv, HeardInTime, Reclaim PROVE HeardInTime'
<1>1. held' = held /\ ~Serving' /\ slot' = Closed(slot, Expired)
  BY DEF Reclaim, Serving
<1>2. \A s \in Slots : slot'[s] = Free \/ slot'[s] = slot[s]
  BY <1>1, ClosedType DEF IInv, Typed
<1> QED BY <1>1, <1>2, TimeKeeps DEF HeardInTime

LEMMA PushNextHears == ASSUME IInv, HeardInTime, PushNext PROVE HeardInTime'
<1>1. held' = held /\ slot' = slot
  BY DEF PushNext
<1>2. ~Serving'
  BY DEF PushNext, Send, Serving
<1> QED BY <1>1, <1>2, TimeKeeps DEF HeardInTime

LEMMA ChunkHears == ASSUME IInv, HeardInTime, Chunk PROVE HeardInTime'
<1> DEFINE k == send.slot
           c == [slot[k] EXCEPT !.unread = slot[k].unread + 1]
<1>1. pc = "send" /\ pc' = pc /\ held' = held /\ ready' = ready /\ slot' = [slot EXCEPT ![k] = c]
  BY DEF Chunk
<1>2. k \in Slots /\ slot[k] \in Clients
  BY <1>1, SendFacts DEF Answering
<1>3. send'.what = send.what
  <2>1. send = [slot |-> k, left |-> send.left, quiet |-> send.quiet, what |-> send.what]
    BY <1>1, SendFacts DEF Answering
  <2>2. send' = [send EXCEPT !.left = send.left - 1, !.quiet = 0]
    BY DEF Chunk, QuietAfterChunk
  <2> QED BY <2>1, <2>2, Zenon
<1>4. Hears(slot[k], c)
  BY <1>2 DEF Hears, Clients
<1> HIDE DEF k, c
<1>5. \A s \in Slots : Hears(slot[s], slot'[s])
  BY <1>1, <1>4, HearsItself DEF IInv, Typed
<1>6. Serving' => Serving
  BY <1>1, <1>3 DEF Serving
<1> QED BY <1>1, <1>5, <1>6, NoTimeKeeps

LEMMA SliceHears == ASSUME IInv, HeardInTime, Slice PROVE HeardInTime'
<1>1. held' = TRUE /\ slot' \in {Aged, Closed(Aged, {send.slot})}
  BY DEF Slice
<1>2. /\ Aged \in [Slots -> Clients]
      /\ \A s \in Slots : Aged[s].said = slot[s].said /\ Aged[s].open = slot[s].open
  BY AgedType, OlderType DEF IInv, Typed
<1>3. \A s \in Slots : \/ slot'[s] = Free
                       \/ slot'[s].said = slot[s].said /\ slot'[s].open = slot[s].open
  BY <1>1, <1>2, ClosedType
<1> QED BY <1>1, <1>3, TimeKeeps

LEMMA EndHears == ASSUME IInv, HeardInTime, Broken \/ Sent PROVE HeardInTime'
<1> DEFINE k == send.slot
           c == [slot[k] EXCEPT !.sse = TRUE, !.armed = FALSE, !.age = 0]
<1>1. pc = "send" /\ held' = held /\ ready' = ready /\ Return
  BY DEF Broken, Sent
<1>2. k \in Slots /\ slot[k] \in Clients
  BY <1>1, SendFacts DEF Answering
<1>3. Serving' => Serving
  BY <1>1 DEF Return, Serving
<1>4. slot' = slot \/ slot' = Closed(slot, {k}) \/ slot' = [slot EXCEPT ![k] = c]
  BY DEF Broken, Sent
<1>5. Hears(slot[k], c)
  <2>1. c.said = slot[k].said /\ c.open = slot[k].open /\ c.armed = FALSE
    BY <1>2 DEF Clients
  <2> HIDE DEF c
  <2> QED BY <2>1 DEF Hears
<1> HIDE DEF k, c
<1>6. \A s \in Slots : Hears(slot[s], slot'[s])
  BY <1>2, <1>4, <1>5, HearsItself, HearsFree, ClosedType DEF IInv, Typed
<1> QED BY <1>1, <1>3, <1>6, NoTimeKeeps

LEMMA PeerHears == ASSUME IInv, HeardInTime, PeerStep PROVE HeardInTime'
<1>1. held' = held /\ ready' = ready /\ (Serving' => Serving)
  BY DEF PeerStep, Serving
<1>2. CASE Connect
  BY <1>1, <1>2, NoTimeKeeps, HearsItself DEF Connect
<1>3. ASSUME NEW s \in Slots, Speak(s) \/ ReadsOne(s) \/ HangUp(s) \/ Die(s) PROVE HeardInTime'
  <2>1. slot[s] \in Clients /\ slot[s].open = TRUE
    BY <1>3 DEF IInv, Typed, Clients, Speak, ReadsOne, HangUp, Die, Live
  <2>2. PICK d : slot' = [slot EXCEPT ![s] = d] /\ Hears(slot[s], d)
    <3>1. CASE Speak(s) /\ slot[s].said = "nothing"
      <4> DEFINE late == slot[s].age > IdleBudget
      <4>1. PICK kind \in Kinds :
               slot' = [slot EXCEPT ![s] = [slot[s] EXCEPT !.said = kind, !.late = late]]
        BY <3>1 DEF Speak, IInv, Typed
      <4> DEFINE d == [slot[s] EXCEPT !.said = kind, !.late = late]
      <4>2. slot[s].age \in Nat /\ IdleBudget \in Nat
        BY <2>1, Bounds DEF Clients
      <4>3. late \in BOOLEAN /\ (late = TRUE \/ slot[s].age <= IdleBudget)
        BY <4>2
      <4> HIDE DEF late
      <4>4. d.open = TRUE /\ d.late = late /\ d.age = slot[s].age
        BY <2>1 DEF Clients
      <4>5. slot' = [slot EXCEPT ![s] = d]
        BY <4>1
      <4> HIDE DEF d
      <4>6. Hears(slot[s], d)
        BY <4>3, <4>4 DEF Hears
      <4> QED BY <4>5, <4>6
    <3>2. CASE Speak(s) /\ slot[s].said # "nothing"
      <4> DEFINE d == [slot[s] EXCEPT !.said = "more"]
      <4>1. slot' = [slot EXCEPT ![s] = d]
        BY <3>2 DEF Speak
      <4>2. d.said = "more"
        BY <2>1 DEF Clients
      <4> HIDE DEF d
      <4> QED BY <4>1, <4>2 DEF Hears, Kinds
    <3>3. CASE ReadsOne(s)
      <4> DEFINE d == [slot[s] EXCEPT !.unread = slot[s].unread - 1, !.full = 0]
      <4>1. slot' = [slot EXCEPT ![s] = d]
        BY <3>3 DEF ReadsOne
      <4>2. Hears(slot[s], d)
        BY <2>1 DEF Hears, Clients
      <4> QED BY <4>1, <4>2
    <3>4. CASE HangUp(s) \/ Die(s)
      <4>1. PICK peer : slot' = [slot EXCEPT ![s] = [slot[s] EXCEPT !.peer = peer]]
        BY <3>4 DEF HangUp, Die
      <4>2. Hears(slot[s], [slot[s] EXCEPT !.peer = peer])
        BY <2>1 DEF Hears, Clients
      <4> QED BY <4>1, <4>2
    <3> QED BY <1>3, <3>1, <3>2, <3>3, <3>4
  <2>3. \A t \in Slots : Hears(slot[t], slot'[t])
    BY <2>2, HearsItself DEF IInv, Typed
  <2> QED BY <1>1, <2>3, NoTimeKeeps
<1> QED BY <1>2, <1>3 DEF PeerStep

LEMMA HeardHolds == Init => HeardInTime
BY FreeType DEF Init, HeardInTime, Serving, Kinds

--------------------------------------------------------------------------------
(* The theorems.                                                              *)

\* In every reachable state: one request at most is being answered, a stream is out of reach
\* of the idle budget, and a send has waited no longer than its peer's window was full.
THEOREM HttpdInvariant == Spec => []IInv
<1>1. IInv /\ [Next]_vars => IInv'
  <2> SUFFICES ASSUME IInv, [Next]_vars PROVE IInv'
    OBVIOUS
  <2>1. CASE Listen \/ PollWait \/ PollReturn \/ PollFails \/ Push
    BY <2>1, QuietStepKeeps
  <2>2. CASE Post \/ Accept \/ Reclaim \/ PushNext \/ Serve
    BY <2>2, PostKeeps, AcceptKeeps, ReclaimKeeps, PushNextKeeps, ServeKeeps
  <2>3. CASE Sending
    BY <2>3, ChunkKeeps, SliceKeeps, BrokenKeeps, SentKeeps DEF Sending
  <2>4. CASE PeerStep
    BY <2>4, PeerStepKeeps
  <2>5. CASE UNCHANGED vars
    BY <2>5, StutterKeeps
  <2> QED BY <2>1, <2>2, <2>3, <2>4, <2>5 DEF Next, Server
<1> QED BY InitHolds, <1>1, PTL DEF Spec

\* send_all() of httpd.c with its budget never cuts off a peer that reads: neither in an
\* answer nor in a frame of an event stream, whatever the other clients do.
THEOREM ReadersAreKept == Spec => ReaderIsKept
<1> DEFINE Kept ==
      \A s \in Slots :
          Dropped(s) /\ slot[s].peer = "live" /\ slot[s].said = "read" =>
              \/ slot[s].full >= SendBudget
              \/ send.left = 0 /\ send.slot = s /\ send.what \in {"page", "command"}
<1>1. IInv /\ [Next]_vars => [Kept]_vars
  BY ReadersStay
<1> HIDE DEF Kept
<1>2. Spec => [][Kept]_vars
  BY HttpdInvariant, <1>1, PTL DEF Spec
<1> QED BY <1>2 DEF ReaderIsKept, Kept

\* An unread request that the idle budget would reclaim with its connection is one the pass
\* was to look at, or came late, unless the thread has waited in the pass.
THEOREM HeardInTimeAlways == Spec => [](IInv /\ HeardInTime)
<1>1. IInv /\ HeardInTime /\ [Next]_vars => HeardInTime'
  <2> SUFFICES ASSUME IInv, HeardInTime, [Next]_vars PROVE HeardInTime'
    OBVIOUS
  <2>1. CASE Listen \/ PollWait \/ PollFails \/ Push \/ Post
    BY <2>1, PassHears
  <2>2. CASE PollReturn \/ Accept \/ Serve \/ Reclaim \/ PushNext
    BY <2>2, PollHears, AcceptHears, ServeHears, ReclaimHears, PushNextHears
  <2>3. CASE Sending
    BY <2>3, ChunkHears, SliceHears, EndHears DEF Sending
  <2>4. CASE PeerStep
    BY <2>4, PeerHears
  <2>5. CASE UNCHANGED vars
    <3>1. slot' = slot /\ held' = held /\ ready' = ready /\ (Serving' <=> Serving)
      BY <2>5 DEF vars, Serving
    <3> QED BY <3>1 DEF HeardInTime
  <2> QED BY <2>1, <2>2, <2>3, <2>4, <2>5 DEF Next, Server
<1> QED BY HeardHolds, <1>1, HttpdInvariant, PTL DEF Spec

\* The loop of httpd.c reclaims no slot over a request that came within the idle budget of
\* its connection, unless a send or the command queue made it wait since poll returned.
THEOREM RequestsAreHeard == Spec => HeardUnlessHeld
<1> DEFINE Heard == \A s \in Slots : Reclaimed(s) => held \/ slot[s].said = "nothing" \/ slot[s].late
<1>1. ASSUME IInv, HeardInTime, [Next]_vars, NEW s \in Slots, Reclaimed(s), ~held
      PROVE  slot[s].said = "nothing" \/ slot[s].late
  <2>1. pc = "serve" /\ pc' = "push" /\ slot[s].open # slot'[s].open
    BY <1>1 DEF Reclaimed, Dropped
  <2>2. Reclaim
    <3>1. ~UNCHANGED vars
      BY <2>1 DEF vars
    <3>2. ~(Serve \/ PeerStep)
      BY <2>1 DEF Serve, PeerStep
    <3>3. ~(Listen \/ PollWait \/ PollFails \/ PollReturn \/ Accept \/ Post \/ Push \/ PushNext \/ Sending)
      BY <2>1 DEF Listen, PollWait, PollFails, PollReturn, Accept, Post, Push, PushNext, Sending, Chunk,
                  Slice, Broken, Sent
    <3> QED BY <1>1, <3>1, <3>2, <3>3 DEF Next, Server
  <2>3. slot[s] \in Clients /\ ready = {} /\ slot' = Closed(slot, Expired)
    BY <1>1, <2>2 DEF Reclaim, IInv, Typed
  <2>4. s \in Expired
    BY <1>1, <2>1, <2>3, ClosedType DEF IInv, Typed
  <2>5. slot[s].armed = TRUE /\ ~(slot[s].age <= IdleBudget)
    BY <2>3, <2>4, Bounds DEF Expired, Clients
  <2>6. slot[s].sse = FALSE
    BY <1>1, <2>3, <2>5 DEF IInv, StreamsApart, Clients
  <2>7. slot[s].said # "read" /\ slot[s].said # "more"
    BY <1>1, <2>1, <2>6 DEF IInv, OneIsAnswered, StreamsApart, Answering
  <2>8. CASE slot[s].said \in Kinds
    <3>1. held = FALSE /\ Serving
      BY <1>1, <2>1 DEF HeardInTime, Serving
    <3>2. slot[s].late = TRUE
      BY <1>1, <2>3, <2>5, <2>8, <3>1 DEF HeardInTime
    <3> QED BY <3>2
  <2> QED BY <2>3, <2>7, <2>8 DEF Clients
<1>2. IInv /\ HeardInTime /\ [Next]_vars => [Heard]_vars
  BY <1>1
<1> HIDE DEF Heard
<1>3. Spec => [][Heard]_vars
  BY HeardInTimeAlways, <1>2, PTL DEF Spec
<1> QED BY <1>3 DEF HeardUnlessHeld, Heard
================================================================================
