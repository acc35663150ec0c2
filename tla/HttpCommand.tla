------------------------------- MODULE HttpCommand -------------------------------
(***************************************************************************)
(* One request on its way to the command queue: the gate of                *)
(* src/net/httpgate.c, the routes of serve() in httpd.c, the parser of     *)
(* cmdparse.c and handle_cmd().  The scanners are cut at each turn of      *)
(* their loops: a step of Collect is one header line, a step of Parse one  *)
(* parameter.                                                              *)
(*                                                                         *)
(* Text is abstracted to what the code tells apart: a header line is the   *)
(* name it has for name_is() and its trimmed value, a parameter the key    *)
(* and value it decodes to.  TCP may deliver a request in pieces, and the  *)
(* server reads once: "arrived" says how much of it that read returns.     *)
(***************************************************************************)
EXTENDS Integers, Sequences

CONSTANTS
    Requests,      \* the requests that may arrive
    Values,        \* the values of headers and parameters
    Token,         \* CONFIG_REFLOW_NET_TOKEN, "" if the build has none
    Ipv4,          \* the values that are literal IPv4 authorities
    TooLong,       \* the values longer than VALUE_MAX
    Authority,     \* what origin_authority() leaves of a value, "" if it refuses
    Index,         \* the decimal number a value is, or NotANumber
    NProfiles      \* reflow_profile_count()

NotANumber == -1
MaxIndex == 65535      \* the largest number parse_index() takes

Target == "/api/cmd"

\* The fields collect() keeps; every other header is "other", and a line that is no
\* header at all (no colon, no name, a space before the colon) is "malformed".
Fields == {"token", "origin", "host"}

Header == [name : Fields \cup {"other", "malformed"}, value : Values]

\* A value that is missing or does not decode is "missing", and so is a key.
Parameter == [key : {"id", "arg", "other", "missing"}, value : Values \cup {"missing"}]

\* "version": the request line names one.  "arrived": the read ends inside the first
\* word, inside the request line, inside the header block, or past it.
Request ==
    [method  : {"GET", "POST", "OPTIONS"},
     target  : {Target, "page", "unknown"},
     asks    : BOOLEAN,                        \* there is a query
     query   : Seq(Parameter),
     version : BOOLEAN,
     headers : Seq(Header),
     arrived : {"word", "line", "block", "all"}]

ASSUME HttpCommandAssumption ==
    /\ Requests \subseteq Request
    /\ {"", Token} \subseteq Values /\ "missing" \notin Values
    /\ Ipv4 \subseteq Values \ {""} /\ TooLong \subseteq Values
    /\ Authority \in [Values -> Values]
    /\ Index \in [Values -> Int]
    /\ NProfiles \in Nat /\ NProfiles <= MaxIndex

Command(id, arg) == [id |-> id, arg |-> arg]
Stop == Command("STOP", 0)
NoCommand == Command("NONE", 0)

VARIABLES
    req,           \* the request
    pc,
    at,            \* the header or parameter the loop has come to
    field,         \* for each field whether it was seen, and its value
    verdict,       \* enum reflow_gate
    cmd,           \* the locals of reflow_cmd_parse()
    posted,        \* what the control core was sent
    answer         \* the status the client is sent

vars == <<req, pc, at, field, verdict, cmd, posted, answer>>

Unseen == [seen |-> FALSE, value |-> ""]

NothingParsed ==
    [have_id |-> FALSE, have_arg |-> FALSE, ambiguous |-> FALSE, malformed |-> FALSE,
     saw_stop |-> FALSE, id |-> "START", arg |-> 0]

Init ==
    /\ req \in Requests
    /\ pc = "gate"
    /\ at = 1
    /\ field = [f \in Fields |-> Unseen]
    /\ verdict = "ALLOW"
    /\ cmd = NothingParsed
    /\ posted = NoCommand
    /\ answer = "none"

--------------------------------------------------------------------------------
(* httpgate.c                                                                 *)

Judge(v) == verdict' = v /\ pc' = "route"

\* reflow_gate_check() up to the header block.  What is not a command passes, and the
\* method is judged before the token.
GateLine ==
    /\ pc = "gate"
    /\ CASE req.arrived \in {"word", "line"} -> Judge("BAD_REQUEST")
         [] req.arrived \in {"block", "all"} /\ req.target # Target -> Judge("ALLOW")
         [] OTHER ->
              CASE req.method # "POST" -> Judge("METHOD_NOT_ALLOWED")
                [] req.method = "POST" /\ Token = "" -> Judge("DISABLED")
                [] req.method = "POST" /\ Token # "" /\ req.arrived = "block" -> Judge("BAD_REQUEST")
                [] OTHER -> pc' = "headers" /\ UNCHANGED verdict
    /\ UNCHANGED <<req, at, field, cmd, posted, answer>>

Line == req.headers[at]

\* Planted bug: of two answers to the same question the last one counts.
Refused_LastWins == Line.name = "malformed" \/ (Line.name \in Fields /\ Line.value \in TooLong)

\* A line that collect() refuses: not a header field, a field it has seen, a value too
\* long to be one of ours.
Refused ==
    \/ Line.name = "malformed"
    \/ Line.name \in Fields /\ (field[Line.name].seen \/ Line.value \in TooLong)

\* One turn of collect().
Collect ==
    /\ pc = "headers" /\ at <= Len(req.headers)
    /\ IF Refused
          THEN Judge("BAD_REQUEST") /\ UNCHANGED <<at, field>>
          ELSE /\ at' = at + 1
               /\ field' = IF Line.name \in Fields
                              THEN [field EXCEPT ![Line.name] = [seen |-> TRUE, value |-> Line.value]]
                              ELSE field
               /\ UNCHANGED <<verdict, pc>>
    /\ UNCHANGED <<req, cmd, posted, answer>>

\* The rest of reflow_gate_check(), on the fields of a header block read to its end.
Verdict ==
    CASE ~field["host"].seen \/ field["host"].value = "" -> "BAD_REQUEST"
      [] field["host"].seen /\ field["host"].value \notin Ipv4 \cup {""} -> "FORBIDDEN"
      [] OTHER ->
           CASE field["origin"].seen
                    /\ (\/ Authority[field["origin"].value] = ""
                        \/ Authority[field["origin"].value] # field["host"].value) -> "FORBIDDEN"
             [] OTHER -> IF field["token"].seen /\ field["token"].value = Token
                            THEN "ALLOW" ELSE "UNAUTHORIZED"

Decide ==
    /\ pc = "headers" /\ at > Len(req.headers)
    /\ Judge(Verdict)
    /\ UNCHANGED <<req, at, field, cmd, posted, answer>>

--------------------------------------------------------------------------------
(* serve() and cmdparse.c                                                     *)

Status(v) ==
    CASE v = "BAD_REQUEST" -> "400" [] v = "UNAUTHORIZED" -> "401" [] v = "FORBIDDEN" -> "403"
      [] v = "METHOD_NOT_ALLOWED" -> "405" [] v = "DISABLED" -> "503"

Answer(status) == answer' = status /\ pc' = "done"

\* serve() ends the target at the next space or '?', wherever that is: without a version
\* in the request line its target or its last parameter takes in what follows.
ServedTarget == IF req.version \/ req.asks THEN req.target ELSE "unknown"

Garbled(p) ==
    IF p.value = "missing" THEN [key |-> "other", value |-> "missing"]
                           ELSE [p EXCEPT !.value = ""]

Query ==
    CASE req.version -> req.query
      [] ~req.version /\ req.query = <<>> -> <<[key |-> "other", value |-> "missing"]>>
      [] OTHER -> [req.query EXCEPT ![Len(req.query)] = Garbled(@)]

\* serve() after the gate.  A read that ends in its first word is closed without a word,
\* and a command without a query is refused by the parser.
Route ==
    /\ pc = "route"
    /\ CASE req.arrived = "word" -> Answer("closed") /\ UNCHANGED at
         [] req.arrived # "word" /\ verdict # "ALLOW" -> Answer(Status(verdict)) /\ UNCHANGED at
         [] OTHER ->
              CASE req.method = "GET" /\ ServedTarget = "page" -> Answer("200") /\ UNCHANGED at
                [] req.method = "POST" /\ ServedTarget = Target ->
                     IF req.asks THEN pc' = "parse" /\ at' = 1 /\ UNCHANGED answer
                                 ELSE Answer("400") /\ UNCHANGED at
                [] OTHER -> Answer("404") /\ UNCHANGED at
    /\ UNCHANGED <<req, field, verdict, cmd, posted>>

CommandWords == {"start", "stop", "clear", "profile"}

\* command_id()
CommandId(word) ==
    CASE word = "start" -> "START" [] word = "stop" -> "STOP"
      [] word = "clear" -> "CLEAR_FAULT" [] word = "profile" -> "SELECT_PROFILE"

\* parse_index()
IsIndex(v) == v # "missing" /\ Index[v] >= 0 /\ Index[v] <= MaxIndex

Undecoded(p) == p.key = "missing" \/ p.value = "missing"

\* Planted bug: the first reading of an ambiguous request is the one that counts.
Parsed_FirstStop(c, p) ==
    CASE p.key = "id" ->
           [c EXCEPT !.have_id = TRUE, !.ambiguous = @ \/ c.have_id,
                     !.malformed = @ \/ p.value \notin CommandWords,
                     !.id = IF p.value \in CommandWords THEN CommandId(p.value) ELSE @,
                     !.saw_stop = @ \/ (p.value = "stop" /\ ~c.have_id)]
      [] p.key = "arg" ->
           [c EXCEPT !.have_arg = TRUE, !.ambiguous = @ \/ c.have_arg,
                     !.malformed = @ \/ ~IsIndex(p.value),
                     !.arg = IF IsIndex(p.value) THEN Index[p.value] ELSE @]
      [] OTHER -> [c EXCEPT !.malformed = @ \/ Undecoded(p)]

\* One parameter, on the locals of reflow_cmd_parse().
Parsed(c, p) ==
    CASE p.key = "id" ->
           [c EXCEPT !.have_id = TRUE, !.ambiguous = @ \/ c.have_id,
                     !.malformed = @ \/ p.value \notin CommandWords,
                     !.id = IF p.value \in CommandWords THEN CommandId(p.value) ELSE @,
                     !.saw_stop = @ \/ p.value = "stop"]
      [] p.key = "arg" ->
           [c EXCEPT !.have_arg = TRUE, !.ambiguous = @ \/ c.have_arg,
                     !.malformed = @ \/ ~IsIndex(p.value),
                     !.arg = IF IsIndex(p.value) THEN Index[p.value] ELSE @]
      [] OTHER -> [c EXCEPT !.malformed = @ \/ Undecoded(p)]

Parse ==
    /\ pc = "parse" /\ at <= Len(Query)
    /\ cmd' = Parsed(cmd, Query[at])
    /\ at' = at + 1
    /\ UNCHANGED <<req, pc, field, verdict, posted, answer>>

\* Planted bug: the range of an index that was never given.
NoSuchProfile_GivenOnly ==
    cmd.id = "SELECT_PROFILE" /\ cmd.have_arg /\ cmd.arg >= NProfiles

\* The index is looked at when the command is known, and a missing one is no index.
NoSuchProfile ==
    cmd.id = "SELECT_PROFILE" /\ (~cmd.have_arg \/ cmd.arg >= NProfiles)

Malformed == cmd.ambiguous \/ cmd.malformed \/ NoSuchProfile

\* What is posted if something is.
TheCommand ==
    IF Malformed THEN Stop
    ELSE Command(cmd.id, IF cmd.id = "SELECT_PROFILE" THEN cmd.arg ELSE 0)

\* The end of reflow_cmd_parse(): REJECT is answered, OK and REJECT_STOP are posted.
ParseEnd ==
    /\ pc = "parse" /\ at > Len(Query)
    /\ IF ~cmd.have_id \/ (Malformed /\ ~cmd.saw_stop)
          THEN Answer("400")
          ELSE pc' = "post" /\ UNCHANGED answer
    /\ UNCHANGED <<req, at, field, verdict, cmd, posted>>

\* handle_cmd(): reflow_cmd_post() fails if the queue is full for its 100 ms.
Post ==
    /\ pc = "post"
    /\ \/ /\ posted' = TheCommand
          /\ Answer(IF Malformed THEN "400" ELSE "204")
       \/ /\ UNCHANGED posted
          /\ Answer("503")
    /\ UNCHANGED <<req, at, field, verdict, cmd>>

Next == GateLine \/ Collect \/ Decide \/ Route \/ Parse \/ ParseEnd \/ Post

Spec == Init /\ [][Next]_vars

--------------------------------------------------------------------------------
(* What is asked of the whole, in terms of the request alone.                 *)

\* The values the request gives for a field.
Given(r, f) == {i \in 1 .. Len(r.headers) : r.headers[i].name = f}

\* A command that may be obeyed: all of it is there, every line of its header block is
\* a field, and it names once the oven's address and the token, and at most once an
\* origin, which is that address.
Authorised(r) ==
    /\ r.target = Target /\ r.method = "POST" /\ r.arrived = "all" /\ Token # ""
    /\ Given(r, "malformed") = {}
    /\ \A f \in Fields : \A i, j \in Given(r, f) : i = j /\ r.headers[i].value \notin TooLong
    /\ \E i \in Given(r, "host") :
           /\ r.headers[i].value \in Ipv4
           /\ \A j \in Given(r, "origin") : Authority[r.headers[j].value] = r.headers[i].value
    /\ \E i \in Given(r, "token") : r.headers[i].value = Token

\* The positions of a key in a query.
Naming(q, key) == {i \in 1 .. Len(q) : q[i].key = key}

\* The query asks for this command and can be read in no other way.
Asks(q, c) ==
    /\ \A i \in 1 .. Len(q) : ~Undecoded(q[i])
    /\ \A key \in {"id", "arg"} : \A i, j \in Naming(q, key) : i = j
    /\ \E i \in Naming(q, "id") : q[i].value \in CommandWords /\ CommandId(q[i].value) = c.id
    /\ \A i \in Naming(q, "arg") : IsIndex(q[i].value)
    /\ IF c.id = "SELECT_PROFILE"
          THEN c.arg < NProfiles /\ \E i \in Naming(q, "arg") : Index[q[i].value] = c.arg
          ELSE c.arg = 0

Judged == pc \notin {"gate", "headers"}

\* The scanner, which reads header lines one by one and gives up at the first it refuses,
\* lets through exactly the commands that may be obeyed: no part of a request, order of
\* lines or repetition makes it err on either side.
GateIsExact == Judged /\ req.target = Target => (verdict = "ALLOW" <=> Authorised(req))

\* Only an authorised request posts, a 204 says that what it asked for was posted, and
\* without a 204 nothing but a precautionary STOP was.
DeedMatchesAnswer ==
    pc = "done" =>
        /\ posted # NoCommand => Authorised(req) /\ (answer = "204" \/ posted = Stop)
        /\ answer = "204" <=> posted # NoCommand /\ Asks(Query, posted)

\* A STOP among the readings of an authorised request is posted, however malformed or
\* ambiguous the rest of it, unless the queue is full.
StopIsHeard ==
    pc = "done" /\ Authorised(req) /\ ServedTarget = Target
        /\ (\E i \in Naming(Query, "id") : req.asks /\ Query[i].value = "stop")
            => posted = Stop \/ answer = "503"
================================================================================
