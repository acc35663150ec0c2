---------------------------- MODULE HttpCommandProofs ----------------------------
(***************************************************************************)
(* For any requests, token, values and profiles of module HttpCommand: the *)
(* gate lets through exactly the commands that may be obeyed, what is      *)
(* posted is what is answered, and a STOP is heard.                        *)
(***************************************************************************)
EXTENDS HttpCommand, SequenceTheorems, TLAPS

--------------------------------------------------------------------------------
(* The inductive invariant.                                                   *)

Verdicts == {"ALLOW", "BAD_REQUEST", "UNAUTHORIZED", "FORBIDDEN", "METHOD_NOT_ALLOWED", "DISABLED"}

Locals ==
    [have_id : BOOLEAN, have_arg : BOOLEAN, ambiguous : BOOLEAN, malformed : BOOLEAN,
     saw_stop : BOOLEAN, id : {"START", "STOP", "CLEAR_FAULT", "SELECT_PROFILE"}, arg : Int]

Typed ==
    /\ req \in Request
    /\ pc \in {"gate", "headers", "route", "parse", "post", "done"}
    /\ at \in Nat \ {0}
    /\ field \in [Fields -> [seen : BOOLEAN, value : Values]]
    /\ verdict \in Verdicts
    /\ cmd \in Locals

\* Of the request line and the arrival, what lets the gate look at the header block.
ToBeRead == req.target = Target /\ req.method = "POST" /\ req.arrived = "all" /\ Token # ""

\* What collect() knows of the first n lines: none of them is to be refused, each is
\* remembered, and nothing else is.
Collected(known, lines, n) ==
    /\ \A i \in 1 .. n :
          /\ lines[i].name # "malformed"
          /\ lines[i].name \in Fields =>
                /\ lines[i].value \notin TooLong
                /\ known[lines[i].name] = [seen |-> TRUE, value |-> lines[i].value]
    /\ \A i, j \in 1 .. n : lines[i].name \in Fields /\ lines[i].name = lines[j].name => i = j
    /\ \A f \in Fields : known[f].seen = TRUE => \E i \in 1 .. n : lines[i].name = f

\* Before its verdict the gate has refused nothing.
InTheGate ==
    /\ pc = "gate" => at = 1 /\ field = [f \in Fields |-> Unseen]
    /\ pc = "headers" => ToBeRead /\ at <= Len(req.headers) + 1 /\ Collected(field, req.headers, at - 1)
    /\ pc \in {"gate", "headers", "route"} => cmd = NothingParsed

\* A parameter reflow_cmd_parse() cannot use.
Bad(p) ==
    CASE p.key = "id" -> p.value \notin CommandWords
      [] p.key = "arg" -> ~IsIndex(p.value)
      [] OTHER -> Undecoded(p)

\* What reflow_cmd_parse() knows of the first n parameters.
Scanned(c, q, n) ==
    /\ c.have_id = TRUE <=> \E i \in 1 .. n : q[i].key = "id"
    /\ c.have_arg = TRUE <=> \E i \in 1 .. n : q[i].key = "arg"
    /\ c.ambiguous = TRUE <=>
          \E i, j \in 1 .. n : i # j /\ q[i].key = q[j].key /\ q[i].key \in {"id", "arg"}
    /\ c.malformed = TRUE <=> \E i \in 1 .. n : Bad(q[i])
    /\ c.saw_stop = TRUE <=> \E i \in 1 .. n : q[i].key = "id" /\ q[i].value = "stop"
    /\ c.ambiguous = FALSE /\ c.malformed = FALSE =>
          \A i \in 1 .. n : /\ q[i].key = "id" => c.id = CommandId(q[i].value)
                            /\ q[i].key = "arg" => c.arg = Index[q[i].value]

\* A request on its way to the queue has been let through, and asks for something.
InTheParser ==
    /\ pc \in {"parse", "post"} =>
          /\ Authorised(req) /\ ServedTarget = Target /\ req.asks = TRUE
          /\ at <= Len(Query) + 1 /\ Scanned(cmd, Query, at - 1)
    /\ pc = "post" =>
          /\ at = Len(Query) + 1
          /\ cmd.have_id = TRUE /\ (Malformed => cmd.saw_stop = TRUE)
    /\ pc # "done" => posted = NoCommand

IInv == Typed /\ InTheGate /\ GateIsExact /\ InTheParser /\ DeedMatchesAnswer /\ StopIsHeard
--------------------------------------------------------------------------------
(* What the operators return.                                                 *)

\* What reflow_cmd_parse() walks over is a sequence of parameters.
LEMMA QueryType ==
    ASSUME req \in Request
    PROVE  Query \in Seq(Parameter)
<1>1. req.query \in Seq(Parameter)
  BY DEF Request
<1>2. CASE req.version
  BY <1>1, <1>2 DEF Query
<1>3. CASE ~req.version /\ req.query = <<>>
  <2>1. [key |-> "other", value |-> "missing"] \in Parameter
    BY DEF Parameter
  <2>2. Query = <<[key |-> "other", value |-> "missing"]>>
    BY <1>3 DEF Query
  <2> HIDE DEF Query
  <2> QED BY <2>1, <2>2
<1>4. CASE ~req.version /\ req.query # <<>>
  <2> DEFINE n == Len(req.query)
             p == req.query[n]
  <2>1. n \in 1 .. Len(req.query) /\ p \in Parameter
    BY <1>1, <1>4
  <2>2. Garbled(p) \in Parameter
    BY <2>1, HttpCommandAssumption DEF Garbled, Parameter
  <2>3. Query = [req.query EXCEPT ![n] = Garbled(p)]
    BY <1>4 DEF Query
  <2> HIDE DEF n, p, Garbled
  <2>4. [req.query EXCEPT ![n] = Garbled(p)] \in Seq(Parameter)
    BY <1>1, <2>1, <2>2, ExceptSeq
  <2> QED BY <2>3, <2>4
<1> QED BY <1>2, <1>3, <1>4

\* One parameter more, field by field.
LEMMA ParsedFields ==
    ASSUME NEW c \in Locals, NEW p \in Parameter
    PROVE  /\ Parsed(c, p) \in Locals
           /\ Parsed(c, p).have_id = TRUE <=> c.have_id = TRUE \/ p.key = "id"
           /\ Parsed(c, p).have_arg = TRUE <=> c.have_arg = TRUE \/ p.key = "arg"
           /\ Parsed(c, p).ambiguous = TRUE <=>
                 \/ c.ambiguous = TRUE
                 \/ p.key = "id" /\ c.have_id = TRUE
                 \/ p.key = "arg" /\ c.have_arg = TRUE
           /\ Parsed(c, p).malformed = TRUE <=> c.malformed = TRUE \/ Bad(p)
           /\ Parsed(c, p).saw_stop = TRUE <=>
                 c.saw_stop = TRUE \/ (p.key = "id" /\ p.value = "stop")
           /\ Parsed(c, p).id =
                 IF p.key = "id" /\ p.value \in CommandWords THEN CommandId(p.value) ELSE c.id
           /\ Parsed(c, p).arg =
                 IF p.key = "arg" /\ IsIndex(p.value) THEN Index[p.value] ELSE c.arg
<1> USE DEF Locals
<1>1. CASE p.key = "id"
  <2> DEFINE word == p.value \in CommandWords
             id == IF word THEN CommandId(p.value) ELSE c.id
             amb == c.ambiguous \/ c.have_id
             mal == c.malformed \/ ~word
             stop == c.saw_stop \/ p.value = "stop"
  <2>1. Parsed(c, p) =
          [have_id |-> TRUE, have_arg |-> c.have_arg, ambiguous |-> amb, malformed |-> mal,
           saw_stop |-> stop, id |-> id, arg |-> c.arg]
    BY <1>1 DEF Parsed
  <2>2. id \in {"START", "STOP", "CLEAR_FAULT", "SELECT_PROFILE"}
    BY DEF CommandId, CommandWords
  <2>3. amb \in BOOLEAN /\ mal \in BOOLEAN /\ stop \in BOOLEAN
    OBVIOUS
  <2>4. /\ amb = TRUE <=> c.ambiguous = TRUE \/ c.have_id = TRUE
        /\ mal = TRUE <=> c.malformed = TRUE \/ Bad(p)
        /\ stop = TRUE <=> c.saw_stop = TRUE \/ p.value = "stop"
    BY <1>1 DEF Bad
  <2> HIDE DEF amb, mal, stop, id
  <2>5. Parsed(c, p) \in Locals
    BY <2>1, <2>2, <2>3
  <2>6. /\ Parsed(c, p).have_id = TRUE /\ Parsed(c, p).have_arg = c.have_arg
        /\ Parsed(c, p).ambiguous = amb /\ Parsed(c, p).malformed = mal
        /\ Parsed(c, p).saw_stop = stop /\ Parsed(c, p).id = id /\ Parsed(c, p).arg = c.arg
    BY <2>1
  <2>7. id = IF p.key = "id" /\ p.value \in CommandWords THEN CommandId(p.value) ELSE c.id
    BY <1>1 DEF id
  <2> QED BY <1>1, <2>4, <2>5, <2>6, <2>7
<1>2. CASE p.key = "arg"
  <2> DEFINE arg == IF IsIndex(p.value) THEN Index[p.value] ELSE c.arg
             amb == c.ambiguous \/ c.have_arg
             mal == c.malformed \/ ~IsIndex(p.value)
  <2>1. Parsed(c, p) =
          [have_id |-> c.have_id, have_arg |-> TRUE, ambiguous |-> amb, malformed |-> mal,
           saw_stop |-> c.saw_stop, id |-> c.id, arg |-> arg]
    BY <1>2 DEF Parsed
  <2>2. arg \in Int
    BY HttpCommandAssumption DEF IsIndex, Parameter
  <2>3. amb \in BOOLEAN /\ mal \in BOOLEAN
    OBVIOUS
  <2>4. /\ amb = TRUE <=> c.ambiguous = TRUE \/ c.have_arg = TRUE
        /\ mal = TRUE <=> c.malformed = TRUE \/ Bad(p)
    BY <1>2 DEF Bad
  <2> HIDE DEF amb, mal, arg
  <2>5. Parsed(c, p) \in Locals
    BY <2>1, <2>2, <2>3
  <2>6. /\ Parsed(c, p).have_id = c.have_id /\ Parsed(c, p).have_arg = TRUE
        /\ Parsed(c, p).ambiguous = amb /\ Parsed(c, p).malformed = mal
        /\ Parsed(c, p).saw_stop = c.saw_stop /\ Parsed(c, p).id = c.id /\ Parsed(c, p).arg = arg
    BY <2>1
  <2>7. arg = IF p.key = "arg" /\ IsIndex(p.value) THEN Index[p.value] ELSE c.arg
    BY <1>2 DEF arg
  <2> QED BY <1>2, <2>4, <2>5, <2>6, <2>7
<1>3. CASE p.key # "id" /\ p.key # "arg"
  <2> DEFINE mal == c.malformed \/ Undecoded(p)
  <2>1. Parsed(c, p) =
          [have_id |-> c.have_id, have_arg |-> c.have_arg, ambiguous |-> c.ambiguous,
           malformed |-> mal, saw_stop |-> c.saw_stop, id |-> c.id, arg |-> c.arg]
    BY <1>3 DEF Parsed
  <2>2. mal \in BOOLEAN
    OBVIOUS
  <2>3. mal = TRUE <=> c.malformed = TRUE \/ Bad(p)
    BY <1>3 DEF Bad
  <2> HIDE DEF mal
  <2>4. Parsed(c, p) \in Locals
    BY <2>1, <2>2
  <2>5. /\ Parsed(c, p).have_id = c.have_id /\ Parsed(c, p).have_arg = c.have_arg
        /\ Parsed(c, p).ambiguous = c.ambiguous /\ Parsed(c, p).malformed = mal
        /\ Parsed(c, p).saw_stop = c.saw_stop /\ Parsed(c, p).id = c.id /\ Parsed(c, p).arg = c.arg
    BY <2>1
  <2> QED BY <1>3, <2>3, <2>4, <2>5
<1> QED BY <1>1, <1>2, <1>3

\* Past one more parameter, something holds of one of them if it held of one before or
\* holds of this one.
LEMMA OneMore ==
    ASSUME NEW n \in Nat \ {0}
    PROVE  1 .. n = (1 .. n - 1) \cup {n} /\ n \notin 1 .. n - 1
OBVIOUS

\* What is known of the parameters past grows with each one.
LEMMA ScannedGrows ==
    ASSUME Typed, at <= Len(Query), Scanned(cmd, Query, at - 1),
           cmd' = Parsed(cmd, Query[at]), at' = at + 1, req' = req
    PROVE  cmd' \in Locals /\ Scanned(cmd', Query', at' - 1)
<1> DEFINE q == Query
           n == at
           p == q[n]
           c == cmd
           d == cmd'
<1>1. n \in Nat \ {0} /\ c \in Locals
  BY DEF Typed
<1>2. q \in Seq(Parameter) /\ Query' = q /\ p \in Parameter
  <2>1. q \in Seq(Parameter)
    BY QueryType DEF Typed
  <2>2. Query' = q
    BY DEF Query, Garbled
  <2>3. n \in 1 .. Len(q)
    BY <1>1, <2>1
  <2> QED BY <2>1, <2>2, <2>3, ElementOfSeq
<1>3. d = Parsed(c, p)
  OBVIOUS
<1>4. /\ c.have_id = TRUE <=> \E i \in 1 .. n - 1 : q[i].key = "id"
      /\ c.have_arg = TRUE <=> \E i \in 1 .. n - 1 : q[i].key = "arg"
      /\ c.ambiguous = TRUE <=>
            \E i, j \in 1 .. n - 1 : i # j /\ q[i].key = q[j].key /\ q[i].key \in {"id", "arg"}
      /\ c.malformed = TRUE <=> \E i \in 1 .. n - 1 : Bad(q[i])
      /\ c.saw_stop = TRUE <=> \E i \in 1 .. n - 1 : q[i].key = "id" /\ q[i].value = "stop"
      /\ c.ambiguous = FALSE /\ c.malformed = FALSE =>
            \A i \in 1 .. n - 1 : /\ q[i].key = "id" => c.id = CommandId(q[i].value)
                                  /\ q[i].key = "arg" => c.arg = Index[q[i].value]
  BY DEF Scanned
<1>5. 1 .. n = (1 .. n - 1) \cup {n} /\ n \notin 1 .. n - 1
  BY <1>1, OneMore
<1>6. at' - 1 = n
  BY <1>1
<1> HIDE DEF q, n, p, c, d
<1>7. p = q[n]
  BY DEF p
<1>8. /\ d \in Locals
      /\ d.have_id = TRUE <=> c.have_id = TRUE \/ p.key = "id"
      /\ d.have_arg = TRUE <=> c.have_arg = TRUE \/ p.key = "arg"
      /\ d.ambiguous = TRUE <=>
            c.ambiguous = TRUE \/ (p.key = "id" /\ c.have_id = TRUE)
                               \/ (p.key = "arg" /\ c.have_arg = TRUE)
      /\ d.malformed = TRUE <=> c.malformed = TRUE \/ Bad(p)
      /\ d.saw_stop = TRUE <=> c.saw_stop = TRUE \/ (p.key = "id" /\ p.value = "stop")
      /\ d.id = IF p.key = "id" /\ p.value \in CommandWords THEN CommandId(p.value) ELSE c.id
      /\ d.arg = IF p.key = "arg" /\ IsIndex(p.value) THEN Index[p.value] ELSE c.arg
  BY <1>1, <1>2, <1>3, ParsedFields
<1>9. d.have_id = TRUE <=> \E i \in 1 .. n : q[i].key = "id"
  BY <1>4, <1>5, <1>7, <1>8
<1>10. d.have_arg = TRUE <=> \E i \in 1 .. n : q[i].key = "arg"
  BY <1>4, <1>5, <1>7, <1>8
<1>11. d.ambiguous = TRUE <=>
          \E i, j \in 1 .. n : i # j /\ q[i].key = q[j].key /\ q[i].key \in {"id", "arg"}
  <2>1. ASSUME d.ambiguous = TRUE
        PROVE  \E i, j \in 1 .. n : i # j /\ q[i].key = q[j].key /\ q[i].key \in {"id", "arg"}
    <3>1. CASE c.ambiguous = TRUE
      BY <3>1, <1>4, <1>5
    <3>2. CASE p.key = "id" /\ c.have_id = TRUE
      BY <3>2, <1>4, <1>5, <1>7
    <3>3. CASE p.key = "arg" /\ c.have_arg = TRUE
      BY <3>3, <1>4, <1>5, <1>7
    <3> QED BY <2>1, <3>1, <3>2, <3>3, <1>8
  <2>2. ASSUME NEW i \in 1 .. n, NEW j \in 1 .. n,
               i # j, q[i].key = q[j].key, q[i].key \in {"id", "arg"}
        PROVE  d.ambiguous = TRUE
    <3>1. CASE i # n /\ j # n
      BY <2>2, <3>1, <1>4, <1>5, <1>8
    <3>2. CASE i = n
      <4>1. j \in 1 .. n - 1 /\ q[j].key = p.key /\ p.key \in {"id", "arg"}
        BY <2>2, <3>2, <1>5, <1>7
      <4> QED BY <4>1, <1>4, <1>8
    <3>3. CASE j = n
      <4>1. i \in 1 .. n - 1 /\ q[i].key = p.key /\ p.key \in {"id", "arg"}
        BY <2>2, <3>3, <1>5, <1>7
      <4> QED BY <4>1, <1>4, <1>8
    <3> QED BY <3>1, <3>2, <3>3
  <2> QED BY <2>1, <2>2
<1>12. d.malformed = TRUE <=> \E i \in 1 .. n : Bad(q[i])
  BY <1>4, <1>5, <1>7, <1>8
<1>13. d.saw_stop = TRUE <=> \E i \in 1 .. n : q[i].key = "id" /\ q[i].value = "stop"
  BY <1>4, <1>5, <1>7, <1>8
<1>14. ASSUME d.ambiguous = FALSE, d.malformed = FALSE, NEW i \in 1 .. n
       PROVE  /\ q[i].key = "id" => d.id = CommandId(q[i].value)
              /\ q[i].key = "arg" => d.arg = Index[q[i].value]
  <2>1. c.ambiguous = FALSE /\ c.malformed = FALSE /\ ~Bad(p)
    BY <1>1, <1>8, <1>14 DEF Locals
  <2>2. ~(p.key = "id" /\ c.have_id = TRUE) /\ ~(p.key = "arg" /\ c.have_arg = TRUE)
    BY <1>8, <1>14
  <2>3. p.key = "id" => p.value \in CommandWords
    BY <2>1 DEF Bad
  <2>4. p.key = "arg" => IsIndex(p.value)
    BY <2>1 DEF Bad
  <2>5. CASE i = n
    BY <2>3, <2>4, <2>5, <1>7, <1>8
  <2>6. CASE i # n
    <3>1. i \in 1 .. n - 1
      BY <2>6, <1>5, <1>14
    <3>2. /\ q[i].key = "id" => c.id = CommandId(q[i].value) /\ p.key # "id"
          /\ q[i].key = "arg" => c.arg = Index[q[i].value] /\ p.key # "arg"
      BY <3>1, <2>1, <2>2, <1>4
    <3> QED BY <3>2, <1>8
  <2> QED BY <2>5, <2>6
<1>15. Scanned(d, q, n)
  BY <1>9, <1>10, <1>11, <1>12, <1>13, <1>14 DEF Scanned
<1>16. Query' = q /\ cmd' = d
  BY <1>2 DEF d
<1> QED BY <1>6, <1>8, <1>15, <1>16

\* All parameters past, what is not malformed asks for what is posted, and what is
\* malformed does not ask for a STOP; a STOP among them, and nothing malformed, is what
\* is posted.
LEMMA ReadingMeans ==
    ASSUME Typed, Scanned(cmd, Query, Len(Query)), cmd.have_id = TRUE
    PROVE  /\ ~Malformed => Asks(Query, TheCommand)
           /\ Malformed => ~Asks(Query, Stop) /\ TheCommand = Stop
           /\ TheCommand # NoCommand
           /\ ~Malformed /\ (\E i \in Naming(Query, "id") : Query[i].value = "stop")
                 => TheCommand = Stop
<1> DEFINE q == Query
           n == Len(q)
<1>1. q \in Seq(Parameter) /\ cmd \in Locals
  BY QueryType DEF Typed
<1>2. n \in Nat /\ \A i \in 1 .. n : q[i] \in Parameter
  BY <1>1
<1>3. Scanned(cmd, q, n)
  OBVIOUS
<1> HIDE DEF q, n
<1>4. Naming(q, "id") = {i \in 1 .. n : q[i].key = "id"}
      /\ Naming(q, "arg") = {i \in 1 .. n : q[i].key = "arg"}
  BY DEF Naming, n
<1>5. ASSUME ~Malformed
      PROVE  /\ cmd.ambiguous = FALSE /\ cmd.malformed = FALSE
             /\ \A i \in 1 .. n : ~Bad(q[i])
             /\ \A i, j \in 1 .. n : q[i].key = q[j].key /\ q[i].key \in {"id", "arg"} => i = j
             /\ \A i \in 1 .. n : /\ q[i].key = "id" => cmd.id = CommandId(q[i].value)
                                  /\ q[i].key = "arg" => cmd.arg = Index[q[i].value]
  <2>1. cmd.ambiguous = FALSE /\ cmd.malformed = FALSE
    BY <1>1, <1>5 DEF Malformed, Locals
  <2> QED BY <1>3, <2>1 DEF Scanned
<1>6. ~Malformed => Asks(q, TheCommand)
  <2> SUFFICES ASSUME ~Malformed PROVE Asks(q, TheCommand)
    OBVIOUS
  <2>1. ASSUME NEW i \in 1 .. n PROVE ~Undecoded(q[i])
    BY <1>2, <1>5, <2>1 DEF Bad, Undecoded, CommandWords, IsIndex
  <2>2. ASSUME NEW key \in {"id", "arg"}, NEW i \in Naming(q, key), NEW j \in Naming(q, key)
        PROVE  i = j
    BY <1>4, <1>5, <2>2
  <2>3. PICK i \in 1 .. n : q[i].key = "id"
    BY <1>3 DEF Scanned
  <2>4. i \in Naming(q, "id") /\ q[i].value \in CommandWords /\ CommandId(q[i].value) = cmd.id
    BY <2>3, <1>4, <1>5 DEF Bad
  <2>5. ASSUME NEW j \in Naming(q, "arg")
        PROVE  IsIndex(q[j].value) /\ cmd.arg = Index[q[j].value]
    BY <1>4, <1>5, <2>5 DEF Bad
  <2>6. ~NoSuchProfile
    BY DEF Malformed
  <2>7. TheCommand = Command(cmd.id, IF cmd.id = "SELECT_PROFILE" THEN cmd.arg ELSE 0)
    BY DEF TheCommand
  <2>8. CASE cmd.id = "SELECT_PROFILE"
    <3>1. TheCommand.id = cmd.id /\ TheCommand.arg = cmd.arg
      BY <2>7, <2>8 DEF Command
    <3>2. cmd.have_arg = TRUE /\ cmd.arg < NProfiles
      <4>1. cmd.have_arg /\ ~(cmd.arg >= NProfiles)
        BY <2>6, <2>8 DEF NoSuchProfile
      <4>2. cmd.arg \in Int /\ cmd.have_arg \in BOOLEAN /\ NProfiles \in Nat
        BY <1>1, HttpCommandAssumption DEF Locals
      <4>3. cmd.arg < NProfiles
        BY <4>1, <4>2
      <4> QED BY <4>1, <4>2, <4>3
    <3>3. PICK j \in 1 .. n : q[j].key = "arg"
      BY <3>2, <1>3 DEF Scanned
    <3>4. j \in Naming(q, "arg") /\ Index[q[j].value] = cmd.arg
      BY <3>3, <1>4, <2>5
    <3>5. IF TheCommand.id = "SELECT_PROFILE"
             THEN TheCommand.arg < NProfiles
                    /\ \E k \in Naming(q, "arg") : Index[q[k].value] = TheCommand.arg
             ELSE TheCommand.arg = 0
      BY <2>8, <3>1, <3>2, <3>4
    <3> QED BY <2>1, <2>2, <2>4, <2>5, <3>1, <3>5 DEF Asks, n
  <2>9. CASE cmd.id # "SELECT_PROFILE"
    <3>1. TheCommand.id = cmd.id /\ TheCommand.arg = 0
      BY <2>7, <2>9 DEF Command
    <3> QED BY <2>1, <2>2, <2>4, <2>5, <2>9, <3>1 DEF Asks, n
  <2> QED BY <2>8, <2>9
<1>7. Malformed => ~Asks(q, Stop)
  <2> SUFFICES ASSUME Malformed, Asks(q, Stop) PROVE FALSE
    OBVIOUS
  <2>1. /\ \A i \in 1 .. n : ~Undecoded(q[i])
        /\ \A key \in {"id", "arg"} : \A i, j \in Naming(q, key) : i = j
        /\ \A i \in Naming(q, "arg") : IsIndex(q[i].value)
    BY DEF Asks, n
  <2>2. PICK k \in Naming(q, "id") : q[k].value \in CommandWords /\ CommandId(q[k].value) = "STOP"
    BY DEF Asks, Stop, Command
  <2>3. ASSUME NEW i \in 1 .. n PROVE ~Bad(q[i])
    <3>1. CASE q[i].key = "id"
      <4>1. i = k
        BY <2>1, <2>2, <3>1, <1>4
      <4> QED BY <4>1, <2>2, <3>1 DEF Bad
    <3>2. CASE q[i].key = "arg"
      BY <2>1, <3>2, <1>4 DEF Bad
    <3>3. CASE q[i].key # "id" /\ q[i].key # "arg"
      BY <2>1, <3>3 DEF Bad
    <3> QED BY <3>1, <3>2, <3>3
  <2>4. ASSUME NEW i \in 1 .. n, NEW j \in 1 .. n,
               q[i].key = q[j].key, q[i].key \in {"id", "arg"}
        PROVE  i = j
    BY <2>1, <2>4, <1>4
  <2>5. cmd.ambiguous = FALSE /\ cmd.malformed = FALSE
    BY <2>3, <2>4, <1>1, <1>3 DEF Scanned, Locals
  <2>6. cmd.id = "STOP"
    BY <2>2, <2>5, <1>3, <1>4 DEF Scanned
  <2> QED BY <2>5, <2>6 DEF Malformed, NoSuchProfile
<1>8. Malformed => TheCommand = Stop
  BY DEF TheCommand
<1>9. TheCommand # NoCommand
  <2>1. TheCommand.id # "NONE"
    BY <1>1 DEF TheCommand, Stop, Command, Locals
  <2> QED BY <2>1 DEF NoCommand, Command
<1>10. ASSUME ~Malformed, NEW i \in Naming(q, "id"), q[i].value = "stop"
       PROVE  TheCommand = Stop
  <2>1. cmd.id = "STOP"
    BY <1>4, <1>5, <1>10 DEF CommandId
  <2> QED BY <1>10, <2>1 DEF TheCommand, Stop, Command
<1> QED BY <1>6, <1>7, <1>8, <1>9, <1>10 DEF q

\* A line that collect() refuses is in no request that may be obeyed.
LEMMA RefusedIsBad ==
    ASSUME Typed, at <= Len(req.headers), Collected(field, req.headers, at - 1), Refused
    PROVE  ~Authorised(req)
<1>1. req.headers \in Seq(Header) /\ at \in Nat \ {0} /\ Len(req.headers) \in Nat
  BY DEF Typed, Request
<1>2. at \in 1 .. Len(req.headers) /\ Line = req.headers[at]
  BY <1>1 DEF Line
<1> SUFFICES ASSUME Authorised(req) PROVE FALSE
  OBVIOUS
<1>3. /\ Given(req, "malformed") = {}
      /\ \A f \in Fields : \A i, j \in Given(req, f) : i = j /\ req.headers[i].value \notin TooLong
  BY DEF Authorised
<1>4. at \in Given(req, Line.name)
  BY <1>2 DEF Given
<1>5. CASE Line.name = "malformed"
  BY <1>3, <1>4, <1>5
<1>6. CASE Line.name \in Fields /\ Line.value \in TooLong
  BY <1>2, <1>3, <1>4, <1>6
<1>7. CASE Line.name \in Fields /\ field[Line.name].seen
  <2>1. field[Line.name].seen = TRUE
    BY <1>7
  <2>2. PICK i \in 1 .. at - 1 : req.headers[i].name = Line.name
    BY <2>1, <1>7 DEF Collected
  <2>3. i \in 1 .. Len(req.headers) /\ i # at
    BY <1>1, <1>2
  <2>4. i \in Given(req, Line.name)
    BY <2>2, <2>3 DEF Given
  <2> QED BY <1>3, <1>4, <1>7, <2>3, <2>4
<1> QED BY <1>5, <1>6, <1>7 DEF Refused

\* A line that it takes is one more of those it knows.
LEMMA CollectedGrows ==
    ASSUME Typed, at <= Len(req.headers), Collected(field, req.headers, at - 1), ~Refused,
           at' = at + 1, req' = req,
           field' = IF Line.name \in Fields
                       THEN [field EXCEPT ![Line.name] = [seen |-> TRUE, value |-> Line.value]]
                       ELSE field
    PROVE  /\ field' \in [Fields -> [seen : BOOLEAN, value : Values]]
           /\ Collected(field', req.headers, at' - 1)
<1> DEFINE lines == req.headers
           n == at
           known == field'
<1>1. lines \in Seq(Header) /\ n \in Nat \ {0} /\ Len(lines) \in Nat
      /\ field \in [Fields -> [seen : BOOLEAN, value : Values]]
  BY DEF Typed, Request
<1>2. n \in 1 .. Len(lines) /\ Line = lines[n]
  BY <1>1 DEF Line
<1>3. Line \in Header
  BY <1>1, <1>2
<1>4. [seen |-> TRUE, value |-> Line.value] \in [seen : BOOLEAN, value : Values]
  BY <1>3 DEF Header
<1>5. known \in [Fields -> [seen : BOOLEAN, value : Values]]
  BY <1>1, <1>4
<1>6. \A f \in Fields : known[f] = IF f = Line.name THEN [seen |-> TRUE, value |-> Line.value]
                                                   ELSE field[f]
  BY <1>1
<1>7. at' - 1 = n /\ 1 .. n = (1 .. n - 1) \cup {n}
  BY <1>1, OneMore
<1>8. Collected(field, lines, n - 1)
  OBVIOUS
<1>9. /\ Line.name # "malformed"
      /\ Line.name \in Fields => Line.value \notin TooLong /\ field[Line.name].seen = FALSE
  BY <1>1 DEF Refused
<1> HIDE DEF lines, n, known
<1>10. ASSUME NEW i \in 1 .. n - 1, lines[i].name \in Fields
       PROVE  field[lines[i].name].seen = TRUE /\ lines[i].name # Line.name
  <2>1. field[lines[i].name] = [seen |-> TRUE, value |-> lines[i].value]
    BY <1>8, <1>10 DEF Collected
  <2>2. field[lines[i].name].seen = TRUE
    BY <2>1
  <2> QED BY <2>2, <1>9, <1>10
<1>11. ASSUME NEW i \in 1 .. n
       PROVE  /\ lines[i].name # "malformed"
              /\ lines[i].name \in Fields =>
                    /\ lines[i].value \notin TooLong
                    /\ known[lines[i].name] = [seen |-> TRUE, value |-> lines[i].value]
  <2>1. CASE i = n
    BY <2>1, <1>2, <1>6, <1>9
  <2>2. CASE i \in 1 .. n - 1
    BY <2>2, <1>6, <1>8, <1>10 DEF Collected
  <2> QED BY <2>1, <2>2, <1>7
<1>12. ASSUME NEW i \in 1 .. n, NEW j \in 1 .. n,
              lines[i].name \in Fields, lines[i].name = lines[j].name
       PROVE  i = j
  <2>1. CASE i \in 1 .. n - 1 /\ j \in 1 .. n - 1
    BY <2>1, <1>8, <1>12 DEF Collected
  <2>2. CASE i = n /\ j \in 1 .. n - 1
    BY <2>2, <1>2, <1>10, <1>12
  <2>3. CASE i \in 1 .. n - 1 /\ j = n
    BY <2>3, <1>2, <1>10, <1>12
  <2> QED BY <2>1, <2>2, <2>3, <1>7
<1>13. ASSUME NEW f \in Fields, known[f].seen = TRUE
       PROVE  \E i \in 1 .. n : lines[i].name = f
  <2>1. CASE f = Line.name
    BY <2>1, <1>2, <1>7
  <2>2. CASE f # Line.name
    <3>1. field[f].seen = TRUE
      BY <2>2, <1>6, <1>13
    <3> QED BY <3>1, <1>7, <1>8 DEF Collected
  <2> QED BY <2>1, <2>2
<1>14. Collected(known, lines, n)
  BY <1>11, <1>12, <1>13 DEF Collected
<1> QED BY <1>5, <1>7, <1>14 DEF known, lines

\* Of a header block read to its end, the verdict is exact.
LEMMA VerdictIsExact ==
    ASSUME Typed, ToBeRead, Collected(field, req.headers, Len(req.headers))
    PROVE  Verdict \in Verdicts /\ (Verdict = "ALLOW" <=> Authorised(req))
<1> DEFINE lines == req.headers
           n == Len(lines)
<1>1. Verdict \in Verdicts
  BY DEF Verdict, Verdicts
<1>2. /\ \A f \in Fields : Given(req, f) = {i \in 1 .. n : lines[i].name = f}
      /\ Given(req, "malformed") = {i \in 1 .. n : lines[i].name = "malformed"}
  BY DEF Given
<1>3. field \in [Fields -> [seen : BOOLEAN, value : Values]]
  BY DEF Typed
<1>4. Collected(field, lines, n)
  OBVIOUS
<1>5. Authorised(req) <=>
        /\ Given(req, "malformed") = {}
        /\ \A f \in Fields : \A i, j \in Given(req, f) : i = j /\ lines[i].value \notin TooLong
        /\ \E i \in Given(req, "host") :
               /\ lines[i].value \in Ipv4
               /\ \A j \in Given(req, "origin") : Authority[lines[j].value] = lines[i].value
        /\ \E i \in Given(req, "token") : lines[i].value = Token
  BY DEF Authorised, ToBeRead
<1> HIDE DEF lines, n
<1>6. Given(req, "malformed") = {}
  <2>1. \A i \in 1 .. n : lines[i].name # "malformed"
    BY <1>4 DEF Collected
  <2> QED BY <2>1, <1>2
<1>7. ASSUME NEW f \in Fields, NEW i \in Given(req, f)
      PROVE  /\ lines[i].value \notin TooLong
             /\ field[f].seen = TRUE /\ field[f].value = lines[i].value
             /\ \A j \in Given(req, f) : i = j
  <2>1. i \in 1 .. n /\ lines[i].name = f
    BY <1>2, <1>7
  <2>2. lines[i].value \notin TooLong /\ field[f] = [seen |-> TRUE, value |-> lines[i].value]
    BY <2>1, <1>4, <1>7 DEF Collected
  <2>3. ASSUME NEW j \in Given(req, f) PROVE i = j
    <3>1. j \in 1 .. n /\ lines[j].name = f
      BY <1>2, <1>7, <2>3
    <3> QED BY <2>1, <3>1, <1>4, <1>7 DEF Collected
  <2> QED BY <2>2, <2>3
<1>8. ASSUME NEW f \in Fields, field[f].seen
      PROVE  \E i \in Given(req, f) : field[f].value = lines[i].value
  <2>1. field[f].seen = TRUE
    BY <1>8
  <2>2. PICK i \in 1 .. n : lines[i].name = f
    BY <2>1, <1>4 DEF Collected
  <2>3. i \in Given(req, f)
    BY <2>2, <1>2
  <2> QED BY <2>3, <1>7
<1>9. {"host", "origin", "token"} \subseteq Fields
  BY DEF Fields
<1>10. ASSUME Verdict = "ALLOW" PROVE Authorised(req)
  <2>1. /\ field["host"].seen /\ field["host"].value # ""
        /\ field["host"].value \in Ipv4 \cup {""}
        /\ field["origin"].seen => Authority[field["origin"].value] = field["host"].value
        /\ field["token"].seen /\ field["token"].value = Token
    BY <1>10 DEF Verdict
  <2>2. PICK i \in Given(req, "host") : field["host"].value = lines[i].value
    BY <2>1, <1>8, <1>9
  <2>3. PICK k \in Given(req, "token") : field["token"].value = lines[k].value
    BY <2>1, <1>8, <1>9
  <2>4. lines[i].value \in Ipv4 /\ lines[k].value = Token
    BY <2>1, <2>2, <2>3
  <2>5. ASSUME NEW j \in Given(req, "origin")
        PROVE  Authority[lines[j].value] = lines[i].value
    <3>1. field["origin"].seen = TRUE /\ field["origin"].value = lines[j].value
      BY <1>7, <1>9
    <3> QED BY <3>1, <2>1, <2>2
  <2> QED BY <2>4, <2>5, <1>5, <1>6, <1>7
<1>11. ASSUME Authorised(req) PROVE Verdict = "ALLOW"
  <2>1. PICK i \in Given(req, "host") :
            /\ lines[i].value \in Ipv4
            /\ \A j \in Given(req, "origin") : Authority[lines[j].value] = lines[i].value
    BY <1>5, <1>11
  <2>2. PICK k \in Given(req, "token") : lines[k].value = Token
    BY <1>5, <1>11
  <2>3. field["host"].seen = TRUE /\ field["host"].value = lines[i].value
    BY <1>7, <1>9
  <2>4. field["token"].seen = TRUE /\ field["token"].value = Token
    BY <2>2, <1>7, <1>9
  <2>5. field["host"].value \in Ipv4 /\ field["host"].value # ""
    BY <2>1, <2>3, HttpCommandAssumption
  <2>6. field["origin"].seen => Authority[field["origin"].value] = field["host"].value
    <3> SUFFICES ASSUME field["origin"].seen
                 PROVE  Authority[field["origin"].value] = field["host"].value
      OBVIOUS
    <3>1. PICK j \in Given(req, "origin") : field["origin"].value = lines[j].value
      BY <1>8, <1>9
    <3> QED BY <3>1, <2>1, <2>3
  <2> QED BY <2>3, <2>4, <2>5, <2>6 DEF Verdict
<1> QED BY <1>1, <1>10, <1>11

--------------------------------------------------------------------------------
(* The steps.                                                                 *)

LEMMA InitHolds == Init => IInv
<1> SUFFICES ASSUME Init PROVE IInv
  OBVIOUS
<1>1. req \in Request
  BY HttpCommandAssumption DEF Init
<1>2. field \in [Fields -> [seen : BOOLEAN, value : Values]]
  BY HttpCommandAssumption DEF Init, Unseen
<1>3. cmd \in Locals
  BY DEF Init, NothingParsed, Locals
<1>4. Typed
  BY <1>1, <1>2, <1>3 DEF Init, Typed, Verdicts
<1> QED BY <1>4
    DEF Init, IInv, InTheGate, GateIsExact, Judged, InTheParser, DeedMatchesAnswer, StopIsHeard

\* What is said of the request stays true of it.
LEMMA SameRequest ==
    ASSUME req' = req
    PROVE  /\ Query' = Query /\ ServedTarget' = ServedTarget /\ Authorised(req)' = Authorised(req)
           /\ ToBeRead' = ToBeRead
BY DEF Query, ServedTarget, ToBeRead, Garbled

LEMMA GateLineKeeps ==
    ASSUME IInv, GateLine
    PROVE  IInv'
<1>1. /\ pc = "gate" /\ UNCHANGED <<req, at, field, cmd, posted, answer>>
      /\ at = 1 /\ field = [f \in Fields |-> Unseen] /\ cmd = NothingParsed /\ posted = NoCommand
  BY DEF GateLine, IInv, InTheGate, InTheParser
<1>2. req.headers \in Seq(Header) /\ req.arrived \in {"word", "line", "block", "all"}
  BY DEF IInv, Typed, Request
<1>3. CASE /\ pc' = "route" /\ verdict' \in Verdicts
           /\ req.target = Target => verdict' # "ALLOW" /\ ~Authorised(req)
  <2>1. Typed'
    BY <1>1, <1>3 DEF IInv, Typed
  <2>2. InTheGate' /\ InTheParser'
    BY <1>1, <1>3 DEF InTheGate, InTheParser
  <2>3. GateIsExact'
    BY <1>1, <1>3, SameRequest DEF GateIsExact
  <2> QED BY <1>3, <2>1, <2>2, <2>3 DEF IInv, DeedMatchesAnswer, StopIsHeard
<1>4. CASE pc' = "headers" /\ verdict' = verdict /\ ToBeRead
  <2>1. Typed'
    BY <1>1, <1>4 DEF IInv, Typed
  <2>2. Collected(field, req.headers, 0)
    <3>1. \A f \in Fields : field[f].seen = FALSE
      BY <1>1 DEF Unseen
    <3>2. 1 .. 0 = {}
      OBVIOUS
    <3> QED BY <3>1, <3>2 DEF Collected
  <2>3. at - 1 = 0 /\ at <= Len(req.headers) + 1
    BY <1>1, <1>2
  <2>4. ToBeRead' /\ at' <= Len(req'.headers) + 1 /\ Collected(field', req'.headers, at' - 1)
    BY <1>1, <1>4, <2>2, <2>3, SameRequest
  <2>5. InTheGate'
    BY <1>1, <1>4, <2>4 DEF InTheGate
  <2>6. InTheParser' /\ GateIsExact'
    BY <1>1, <1>4 DEF InTheParser, GateIsExact, Judged
  <2> QED BY <1>4, <2>1, <2>5, <2>6 DEF IInv, DeedMatchesAnswer, StopIsHeard
<1>5. CASE req.arrived \in {"word", "line"}
  <2>1. pc' = "route" /\ verdict' = "BAD_REQUEST"
    BY <1>5 DEF GateLine, Judge
  <2> QED BY <1>3, <1>5, <2>1 DEF Verdicts, Authorised
<1>6. CASE req.arrived \in {"block", "all"} /\ req.target # Target
  <2>1. pc' = "route" /\ verdict' = "ALLOW"
    BY <1>6 DEF GateLine, Judge
  <2> QED BY <1>3, <1>6, <2>1 DEF Verdicts
<1>7. CASE req.arrived \in {"block", "all"} /\ req.target = Target
  <2>1. CASE req.method # "POST"
    <3>1. pc' = "route" /\ verdict' = "METHOD_NOT_ALLOWED"
      BY <1>7, <2>1 DEF GateLine, Judge
    <3> QED BY <1>3, <2>1, <3>1 DEF Verdicts, Authorised
  <2>2. CASE req.method = "POST" /\ Token = ""
    <3>1. pc' = "route" /\ verdict' = "DISABLED"
      BY <1>7, <2>2 DEF GateLine, Judge
    <3> QED BY <1>3, <2>2, <3>1 DEF Verdicts, Authorised
  <2>3. CASE req.method = "POST" /\ Token # "" /\ req.arrived = "block"
    <3>1. pc' = "route" /\ verdict' = "BAD_REQUEST"
      BY <1>7, <2>3 DEF GateLine, Judge
    <3> QED BY <1>3, <2>3, <3>1 DEF Verdicts, Authorised
  <2>4. CASE req.method = "POST" /\ Token # "" /\ req.arrived = "all"
    <3>1. pc' = "headers" /\ verdict' = verdict
      BY <1>7, <2>4 DEF GateLine
    <3> QED BY <1>4, <1>7, <2>4, <3>1 DEF ToBeRead
  <2> QED BY <1>7, <2>1, <2>2, <2>3, <2>4
<1> QED BY <1>2, <1>5, <1>6, <1>7

LEMMA CollectKeeps ==
    ASSUME IInv, Collect
    PROVE  IInv'
<1>1. /\ pc = "headers" /\ at <= Len(req.headers) /\ UNCHANGED <<req, cmd, posted, answer>>
      /\ Typed /\ ToBeRead /\ Collected(field, req.headers, at - 1)
      /\ cmd = NothingParsed /\ posted = NoCommand
  BY DEF Collect, IInv, InTheGate, InTheParser
<1>2. at \in Nat \ {0} /\ Len(req.headers) \in Nat
  BY <1>1 DEF Typed, Request
<1>3. CASE Refused
  <2>1. pc' = "route" /\ verdict' = "BAD_REQUEST" /\ UNCHANGED <<at, field>>
    BY <1>3 DEF Collect, Judge
  <2>2. ~Authorised(req)
    BY <1>1, <1>3, RefusedIsBad
  <2>3. Typed'
    BY <1>1, <2>1 DEF Typed, Verdicts
  <2>4. InTheGate' /\ InTheParser' /\ GateIsExact'
    BY <1>1, <2>1, <2>2, SameRequest DEF InTheGate, InTheParser, GateIsExact
  <2> QED BY <2>1, <2>3, <2>4 DEF IInv, DeedMatchesAnswer, StopIsHeard
<1>4. CASE ~Refused
  <2>1. /\ at' = at + 1 /\ UNCHANGED <<verdict, pc>>
        /\ field' = IF Line.name \in Fields
                       THEN [field EXCEPT ![Line.name] = [seen |-> TRUE, value |-> Line.value]]
                       ELSE field
    BY <1>4 DEF Collect
  <2>2. /\ field' \in [Fields -> [seen : BOOLEAN, value : Values]]
        /\ Collected(field', req.headers, at' - 1)
    BY <1>1, <1>4, <2>1, CollectedGrows
  <2>3. at' \in Nat \ {0} /\ at' <= Len(req.headers) + 1
    BY <1>1, <1>2, <2>1
  <2>4. Typed'
    BY <1>1, <2>1, <2>2, <2>3 DEF Typed
  <2>5. InTheGate'
    BY <1>1, <2>1, <2>2, <2>3, SameRequest DEF InTheGate
  <2>6. InTheParser' /\ GateIsExact'
    BY <1>1, <2>1 DEF InTheParser, GateIsExact, Judged
  <2> QED BY <1>1, <2>1, <2>4, <2>5, <2>6 DEF IInv, DeedMatchesAnswer, StopIsHeard
<1> QED BY <1>3, <1>4

LEMMA DecideKeeps ==
    ASSUME IInv, Decide
    PROVE  IInv'
<1>1. /\ pc = "headers" /\ at > Len(req.headers) /\ at <= Len(req.headers) + 1
      /\ Typed /\ ToBeRead /\ Collected(field, req.headers, at - 1)
      /\ UNCHANGED <<req, at, field, cmd, posted, answer>>
      /\ pc' = "route" /\ verdict' = Verdict /\ cmd = NothingParsed /\ posted = NoCommand
  BY DEF Decide, Judge, IInv, InTheGate, InTheParser
<1>2. at - 1 = Len(req.headers)
  <2>1. at \in Nat /\ Len(req.headers) \in Nat
    BY <1>1 DEF Typed, Request
  <2> QED BY <1>1, <2>1
<1>3. Verdict \in Verdicts /\ (Verdict = "ALLOW" <=> Authorised(req))
  BY <1>1, <1>2, VerdictIsExact
<1>4. Typed'
  BY <1>1, <1>3 DEF Typed
<1>5. InTheGate' /\ InTheParser'
  BY <1>1 DEF InTheGate, InTheParser
<1>6. GateIsExact'
  BY <1>1, <1>3, SameRequest DEF GateIsExact
<1> QED BY <1>1, <1>4, <1>5, <1>6 DEF IInv, DeedMatchesAnswer, StopIsHeard

\* An answer that posts nothing, to a request with no STOP in it or none that counts.
LEMMA Refusal ==
    ASSUME IInv, pc # "done", pc' = "done", UNCHANGED <<req, at, field, verdict, cmd, posted>>,
           Judged, answer' # "204",
           Authorised(req) /\ ServedTarget = Target /\ req.asks =>
              \A i \in Naming(Query, "id") : Query[i].value # "stop"
    PROVE  IInv'
<1>1. posted = NoCommand
  BY DEF IInv, InTheParser
<1>2. Typed'
  BY DEF IInv, Typed
<1>3. InTheGate' /\ InTheParser'
  BY DEF InTheGate, InTheParser
<1>4. GateIsExact'
  BY SameRequest DEF IInv, GateIsExact, Judged
<1>5. DeedMatchesAnswer'
  BY <1>1 DEF DeedMatchesAnswer
<1>6. StopIsHeard'
  <2>1. Query' = Query /\ ServedTarget' = ServedTarget /\ Authorised(req)' = Authorised(req)
    BY SameRequest
  <2> SUFFICES ASSUME Authorised(req), ServedTarget = Target, req.asks,
                      NEW i \in Naming(Query, "id"), Query[i].value = "stop"
               PROVE  FALSE
    BY <2>1 DEF StopIsHeard
  <2> QED OBVIOUS
<1> QED BY <1>2, <1>3, <1>4, <1>5, <1>6 DEF IInv

LEMMA RouteKeeps ==
    ASSUME IInv, Route
    PROVE  IInv'
<1>1. /\ pc = "route" /\ UNCHANGED <<req, field, verdict, cmd, posted>> /\ Typed
      /\ cmd = NothingParsed /\ posted = NoCommand
  BY DEF Route, IInv, InTheGate, InTheParser
<1>2. req.target = Target => (verdict = "ALLOW" <=> Authorised(req))
  BY <1>1 DEF IInv, GateIsExact, Judged
<1>3. ServedTarget = Target => req.target = Target
  BY DEF ServedTarget, Target
<1>4. Judged
  BY <1>1 DEF Judged
<1>5. ASSUME pc' = "done", UNCHANGED at, answer' # "204",
             ~(Authorised(req) /\ ServedTarget = Target /\ req.asks)
      PROVE  IInv'
  BY <1>1, <1>4, <1>5, Refusal
<1>6. CASE req.arrived = "word"
  <2>1. pc' = "done" /\ answer' = "closed" /\ UNCHANGED at
    BY <1>6 DEF Route, Answer
  <2>2. ~Authorised(req)
    BY <1>6 DEF Authorised
  <2> QED BY <1>5, <2>1, <2>2
<1>7. CASE req.arrived # "word" /\ verdict # "ALLOW"
  <2>1. pc' = "done" /\ answer' = Status(verdict) /\ UNCHANGED at
    BY <1>7 DEF Route, Answer
  <2>2. verdict \in Verdicts \ {"ALLOW"}
    BY <1>1, <1>7 DEF Typed
  <2>3. Status(verdict) # "204"
    BY <2>2 DEF Verdicts, Status
  <2> QED BY <1>2, <1>3, <1>5, <1>7, <2>1, <2>3
<1>8. CASE req.arrived # "word" /\ verdict = "ALLOW"
  <2>1. CASE req.method = "GET" /\ ServedTarget = "page"
    <3>1. pc' = "done" /\ answer' = "200" /\ UNCHANGED at
      BY <1>8, <2>1 DEF Route, Answer
    <3> QED BY <1>5, <2>1, <3>1 DEF Target
  <2>2. CASE req.method = "POST" /\ ServedTarget = Target /\ ~req.asks
    <3>1. pc' = "done" /\ answer' = "400" /\ UNCHANGED at
      BY <1>8, <2>2 DEF Route, Answer, Target
    <3> QED BY <1>5, <2>2, <3>1
  <2>3. CASE req.method = "POST" /\ ServedTarget = Target /\ req.asks
    <3>1. pc' = "parse" /\ at' = 1 /\ UNCHANGED answer
      BY <1>8, <2>3 DEF Route, Target
    <3>2. Authorised(req) /\ req.asks = TRUE
      BY <1>1, <1>2, <1>3, <1>8, <2>3 DEF Typed, Request
    <3>3. at' \in Nat \ {0} /\ at' - 1 = 0
      BY <3>1
    <3>4. Scanned(cmd, Query, 0)
      <4>1. 1 .. 0 = {}
        OBVIOUS
      <4>2. /\ cmd.have_id = FALSE /\ cmd.have_arg = FALSE /\ cmd.ambiguous = FALSE
            /\ cmd.malformed = FALSE /\ cmd.saw_stop = FALSE
        BY <1>1 DEF NothingParsed
      <4> QED BY <4>1, <4>2 DEF Scanned
    <3>5. Query \in Seq(Parameter)
      BY <1>1, QueryType DEF Typed
    <3>6. Typed'
      BY <1>1, <3>1, <3>3 DEF Typed
    <3>7. at' <= Len(Query) + 1
      BY <3>1, <3>5
    <3>8. Query' = Query /\ ServedTarget' = ServedTarget /\ Authorised(req)' = Authorised(req)
      BY <1>1, SameRequest
    <3>9. Scanned(cmd', Query', at' - 1)
      BY <1>1, <3>3, <3>4, <3>8
    <3>10. InTheParser'
      BY <1>1, <2>3, <3>1, <3>2, <3>7, <3>8, <3>9 DEF InTheParser
    <3>11. InTheGate'
      BY <3>1 DEF InTheGate
    <3>12. GateIsExact'
      BY <1>1, <1>2, <3>8 DEF GateIsExact
    <3> QED BY <3>1, <3>6, <3>10, <3>11, <3>12 DEF IInv, DeedMatchesAnswer, StopIsHeard
  <2>4. CASE /\ ~(req.method = "GET" /\ ServedTarget = "page")
             /\ ~(req.method = "POST" /\ ServedTarget = Target)
    <3>1. pc' = "done" /\ answer' = "404" /\ UNCHANGED at
      BY <1>8, <2>4 DEF Route, Answer
    <3>2. Authorised(req) => req.method = "POST"
      BY DEF Authorised
    <3> QED BY <1>5, <2>4, <3>1, <3>2
  <2> QED BY <2>1, <2>2, <2>3, <2>4
<1> QED BY <1>6, <1>7, <1>8

LEMMA ParseKeeps ==
    ASSUME IInv, Parse
    PROVE  IInv'
<1>1. /\ pc = "parse" /\ at <= Len(Query) /\ cmd' = Parsed(cmd, Query[at]) /\ at' = at + 1
      /\ UNCHANGED <<req, pc, field, verdict, posted, answer>>
      /\ Typed /\ Authorised(req) /\ ServedTarget = Target /\ req.asks = TRUE
      /\ Scanned(cmd, Query, at - 1) /\ posted = NoCommand
  BY DEF Parse, IInv, InTheParser
<1>2. cmd' \in Locals /\ Scanned(cmd', Query', at' - 1)
  BY <1>1, ScannedGrows
<1>3. at' \in Nat \ {0} /\ at' <= Len(Query) + 1
  <2>1. at \in Nat \ {0} /\ Len(Query) \in Nat
    BY <1>1, QueryType DEF Typed
  <2> QED BY <1>1, <2>1
<1>4. Query' = Query /\ ServedTarget' = ServedTarget /\ Authorised(req)' = Authorised(req)
  BY <1>1, SameRequest
<1>5. Typed'
  BY <1>1, <1>2, <1>3 DEF Typed
<1>6. InTheParser'
  BY <1>1, <1>2, <1>3, <1>4 DEF InTheParser
<1>7. InTheGate'
  BY <1>1 DEF InTheGate
<1>8. GateIsExact'
  BY <1>1, <1>4 DEF IInv, GateIsExact, Judged
<1> QED BY <1>1, <1>5, <1>6, <1>7, <1>8 DEF IInv, DeedMatchesAnswer, StopIsHeard

LEMMA ParseEndKeeps ==
    ASSUME IInv, ParseEnd
    PROVE  IInv'
<1>1. /\ pc = "parse" /\ at > Len(Query) /\ at <= Len(Query) + 1
      /\ UNCHANGED <<req, at, field, verdict, cmd, posted>>
      /\ Typed /\ Authorised(req) /\ ServedTarget = Target /\ req.asks = TRUE
      /\ Scanned(cmd, Query, at - 1) /\ posted = NoCommand
  BY DEF ParseEnd, IInv, InTheParser
<1>2. Query \in Seq(Parameter)
  BY <1>1, QueryType DEF Typed
<1>3. at = Len(Query) + 1 /\ at - 1 = Len(Query)
  <2>1. at \in Nat \ {0} /\ Len(Query) \in Nat
    BY <1>1, <1>2 DEF Typed
  <2> QED BY <1>1, <2>1
<1>4. Scanned(cmd, Query, Len(Query))
  BY <1>1, <1>3
<1>5. CASE ~cmd.have_id \/ (Malformed /\ ~cmd.saw_stop)
  <2>1. pc' = "done" /\ answer' = "400"
    BY <1>5 DEF ParseEnd, Answer
  <2>2. ASSUME NEW i \in Naming(Query, "id"), Query[i].value = "stop"
        PROVE  FALSE
    <3>1. i \in 1 .. Len(Query) /\ Query[i].key = "id"
      BY DEF Naming
    <3>2. cmd.have_id = TRUE /\ cmd.saw_stop = TRUE
      BY <1>4, <2>2, <3>1 DEF Scanned
    <3> QED BY <1>5, <3>2
  <2> QED BY <1>1, <2>1, <2>2, Refusal DEF Judged
<1>6. CASE ~(~cmd.have_id \/ (Malformed /\ ~cmd.saw_stop))
  <2>1. pc' = "post" /\ UNCHANGED answer
    BY <1>6 DEF ParseEnd
  <2>2. cmd.have_id = TRUE /\ (Malformed => cmd.saw_stop = TRUE)
    <3>1. cmd.have_id \in BOOLEAN /\ cmd.saw_stop \in BOOLEAN
      BY <1>1 DEF Typed, Locals
    <3> QED BY <1>6, <3>1
  <2>3. Query' = Query /\ ServedTarget' = ServedTarget /\ Authorised(req)' = Authorised(req)
    BY <1>1, SameRequest
  <2>4. Malformed' = Malformed
    BY <1>1 DEF Malformed, NoSuchProfile
  <2>5. Typed'
    BY <1>1, <2>1 DEF Typed
  <2>6. InTheParser'
    BY <1>1, <1>3, <2>1, <2>2, <2>3, <2>4 DEF InTheParser
  <2>7. InTheGate'
    BY <2>1 DEF InTheGate
  <2>8. GateIsExact'
    BY <1>1, <2>3 DEF IInv, GateIsExact, Judged
  <2> QED BY <2>1, <2>5, <2>6, <2>7, <2>8 DEF IInv, DeedMatchesAnswer, StopIsHeard
<1> QED BY <1>5, <1>6

LEMMA PostKeeps ==
    ASSUME IInv, Post
    PROVE  IInv'
<1>1. /\ pc = "post" /\ pc' = "done" /\ UNCHANGED <<req, at, field, verdict, cmd>>
      /\ Typed /\ Authorised(req) /\ ServedTarget = Target /\ posted = NoCommand
      /\ Scanned(cmd, Query, at - 1) /\ at = Len(Query) + 1
      /\ cmd.have_id = TRUE /\ (Malformed => cmd.saw_stop = TRUE)
  BY DEF Post, Answer, IInv, InTheParser
<1>2. Scanned(cmd, Query, Len(Query))
  <2>1. Len(Query) \in Nat
    BY <1>1, QueryType DEF Typed
  <2>2. at - 1 = Len(Query)
    BY <1>1, <2>1
  <2> QED BY <1>1, <2>2
<1>3. /\ ~Malformed => Asks(Query, TheCommand)
      /\ Malformed => ~Asks(Query, Stop) /\ TheCommand = Stop
      /\ TheCommand # NoCommand
      /\ ~Malformed /\ (\E i \in Naming(Query, "id") : Query[i].value = "stop")
            => TheCommand = Stop
  BY <1>1, <1>2, ReadingMeans
<1>4. Query' = Query /\ ServedTarget' = ServedTarget /\ Authorised(req)' = Authorised(req)
  BY <1>1, SameRequest
<1>5. Typed'
  BY <1>1 DEF Typed
<1>6. InTheGate' /\ InTheParser'
  BY <1>1 DEF InTheGate, InTheParser
<1>7. GateIsExact'
  BY <1>1, <1>4 DEF IInv, GateIsExact, Judged
<1>8. CASE posted' = TheCommand /\ answer' = IF Malformed THEN "400" ELSE "204"
  <2>1. DeedMatchesAnswer'
    <3>1. answer' = "204" <=> ~Malformed
      BY <1>8
    <3>2. posted' # NoCommand
      BY <1>3, <1>8
    <3>3. answer' = "204" <=> Asks(Query, posted')
      BY <1>3, <1>8, <3>1
    <3>4. answer' = "204" \/ posted' = Stop
      BY <1>3, <1>8, <3>1
    <3> QED BY <1>1, <1>4, <3>2, <3>3, <3>4 DEF DeedMatchesAnswer
  <2>2. StopIsHeard'
    BY <1>3, <1>4, <1>8 DEF StopIsHeard
  <2> QED BY <1>5, <1>6, <1>7, <2>1, <2>2 DEF IInv
<1>9. CASE UNCHANGED posted /\ answer' = "503"
  <2>1. DeedMatchesAnswer' /\ StopIsHeard'
    BY <1>1, <1>9 DEF DeedMatchesAnswer, StopIsHeard
  <2> QED BY <1>5, <1>6, <1>7, <2>1 DEF IInv
<1> QED BY <1>8, <1>9 DEF Post, Answer

LEMMA IdleKeeps ==
    ASSUME IInv, UNCHANGED vars
    PROVE  IInv'
<1>1. Query' = Query /\ ServedTarget' = ServedTarget /\ Authorised(req)' = Authorised(req)
      /\ ToBeRead' = ToBeRead /\ Malformed' = Malformed
  BY SameRequest DEF vars, Malformed, NoSuchProfile
<1> QED BY <1>1
    DEF vars, IInv, Typed, InTheGate, GateIsExact, Judged, InTheParser, DeedMatchesAnswer,
        StopIsHeard

--------------------------------------------------------------------------------
(* The theorems.                                                              *)

\* Wherever a request is between its first line and its answer, what the gate and the
\* parser know of the lines and parameters they are past is all there is to know, and
\* what was let through, posted and answered follows from the request.
THEOREM HttpCommandInvariant == Spec => []IInv
<1>1. IInv /\ [Next]_vars => IInv'
  BY GateLineKeeps, CollectKeeps, DecideKeeps, RouteKeeps, ParseKeeps, ParseEndKeeps,
     PostKeeps, IdleKeeps DEF Next
<1> QED BY InitHolds, <1>1, PTL DEF Spec

\* The gate, which reads line by line and gives up at the first it refuses, lets through
\* exactly the commands that may be obeyed, whatever the token and the header block.
THEOREM TheGateIsExact == Spec => []GateIsExact
<1>1. IInv => GateIsExact
  BY DEF IInv
<1> QED BY <1>1, HttpCommandInvariant, PTL

\* Only an authorised request posts, a 204 says that exactly what it asked for was
\* posted, and without one nothing but a precautionary STOP was, whatever the query.
THEOREM AnswersAreTrue == Spec => []DeedMatchesAnswer
<1>1. IInv => DeedMatchesAnswer
  BY DEF IInv
<1> QED BY <1>1, HttpCommandInvariant, PTL

\* A STOP among the readings of an authorised request reaches the control core, however
\* malformed or ambiguous the rest of it, unless the queue is full.
THEOREM EveryStopIsHeard == Spec => []StopIsHeard
<1>1. IInv => StopIsHeard
  BY DEF IInv
<1> QED BY <1>1, HttpCommandInvariant, PTL
================================================================================
