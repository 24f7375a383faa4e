------------------------------ MODULE WireFrames ------------------------------
(***************************************************************************)
(* What goes over a room's sockets: the frames, how they are judged        *)
(* (packages/protocol/src/index.ts) and how the room answers them          *)
(* (apps/worker/src/message-handler.ts).                                   *)
(*                                                                         *)
(* A frame is a JSON text of tokens.  Its size is checked before it is     *)
(* parsed, against the limit of the type that a glance at the text shows;  *)
(* keys that occur twice are looked for in the text, since the parsed      *)
(* value does not show them; then the value is validated.  What the room   *)
(* sends goes through the same judgement, and throws if it fails.          *)
(*                                                                         *)
(* A client's frame is one of its messages with at most one fault: a field *)
(* dropped, added, repeated or replaced, a text that is cut short, another *)
(* size.  Characters inside a string, and numbers but for their kind, are  *)
(* left out; the field "v" is protocolVersion.                             *)
(***************************************************************************)
EXTENDS Integers, Sequences, FiniteSets, SequencesExt, Functions

CONSTANTS
  MaxActions,   \* bound: actions sequenced
  MaxHellos      \* bound: hellos under way at once

ASSUME WireAssumption == MaxActions \in Nat /\ MaxHellos \in Nat

VARIABLES
  socket,   \* the attachment: authenticated; and whether it is open
  hellos,   \* handleHello that await the authentication of a token
  sequence, requests,  \* the room's last sequence, and the request ids it knows
  frame,    \* the last frame that arrived
  sent      \* what was sent in answer to it

wireVars == <<socket, hellos, sequence, requests, frame, sent>>

-----------------------------------------------------------------------------
\* Values and their text.  An object is a sequence of fields, as it is written.

Value(kind, text, of) == [kind |-> kind, text |-> text, of |-> of]
Text(s) == Value("string", s, << >>)
Number(n) == Value("number", n, << >>)    \* "1" and "2" are natural; "-1"; "1e999", which is not finite
NullValue == Value("null", "null", << >>)
Bool == Value("boolean", "true", << >>)
Absent == Value("absent", "", << >>)
Object(fields) == Value("object", "", fields)
Array(items) == Value("array", "", [i \in DOMAIN items |-> <<"", items[i]>>])

KeysOf(v) == {v.of[i][1] : i \in DOMAIN v.of}
ValuesOf(v) == {v.of[i][2] : i \in DOMAIN v.of}
Has(v, key) == key \in KeysOf(v)
Field(v, key) ==   \* as JSON.parse has it: the last one counts
  LET places == {i \in DOMAIN v.of : v.of[i][1] = key}
  IN  IF places = {} THEN Absent ELSE v.of[Max(places)][2]

RECURSIVE Tokens(_)
Tokens(v) ==
  LET Item(f) == IF v.kind = "object" THEN <<[string |-> TRUE, is |-> f[1]], [string |-> FALSE, is |-> ":"]>> \o Tokens(f[2]) ELSE Tokens(f[2])
      Joined == FoldLeft(LAMBDA text, i : text \o (IF i > 1 THEN <<[string |-> FALSE, is |-> ","]>> ELSE << >>) \o Item(v.of[i]),
                         << >>, [i \in DOMAIN v.of |-> i])
      Mark(s) == <<[string |-> FALSE, is |-> s]>>
  IN  CASE v.kind = "object" -> Mark("{") \o Joined \o Mark("}")
        [] v.kind = "array" -> Mark("[") \o Joined \o Mark("]")
        [] OTHER -> <<[string |-> v.kind = "string", is |-> v.text]>>

-----------------------------------------------------------------------------
\* The two looks at the text.

IsKey(text, i) == text[i].string /\ i < Len(text) /\ text[i + 1] = [string |-> FALSE, is |-> ":"]

\* containers, as the scan has them before the i-th token
Containers(text, i) ==
  FoldLeft(LAMBDA open, t : IF t.string THEN open
                            ELSE IF t.is \in {"{", "["} THEN Append(open, t.is)
                            ELSE IF t.is \in {"}", "]"} THEN Front(open) ELSE open,
           << >>, SubSeq(text, 1, i - 1))

\* Fault: the glance does not keep track of the depth.
peekTopLevelType_AnyDepth(text) ==
  LET found == {i \in DOMAIN text : IsKey(text, i) /\ text[i].is = "type"}
      first == CHOOSE i \in found : \A j \in found : i <= j
  IN  IF found # {} /\ first + 2 <= Len(text) /\ text[first + 2].string THEN text[first + 2].is ELSE "none"

peekTopLevelType(text) ==
  LET found == {i \in DOMAIN text : IsKey(text, i) /\ text[i].is = "type" /\ Containers(text, i) = <<"{">>}
      first == CHOOSE i \in found : \A j \in found : i <= j
  IN  IF found # {} /\ first + 2 <= Len(text) /\ text[first + 2].string THEN text[first + 2].is ELSE "none"

\* A set of keys for each container that is open.
hasDuplicateObjectKey(text) ==
  FoldLeft(LAMBDA scan, i :
      LET t == text[i]
      IN  IF IsKey(text, i)
          THEN [scan EXCEPT !.twice = @ \/ t.is \in Last(scan.keys), !.keys[Len(scan.keys)] = @ \cup {t.is}]
          ELSE IF t.string THEN scan
          ELSE IF t.is \in {"{", "["} THEN [scan EXCEPT !.keys = Append(@, {})]
          ELSE IF t.is \in {"}", "]"} THEN [scan EXCEPT !.keys = Front(@)] ELSE scan,
    [twice |-> FALSE, keys |-> << >>], [i \in DOMAIN text |-> i]).twice

-----------------------------------------------------------------------------
\* The validators.

Exactly(v, allowed) == v.kind = "object" /\ KeysOf(v) \subseteq allowed
IsText(v) == v.kind = "string"
IsNatural(v) == v.kind = "number" /\ v.text \in {"1", "2"}
IsFinite(v) == v.kind = "number" /\ v.text # "1e999"

RECURSIVE IsJson(_)
IsJson(v) == (v.kind = "number" => IsFinite(v)) /\ (\A w \in ValuesOf(v) : IsJson(w))

ActionOK(v) ==
  /\ Exactly(v, {"type", "payload"})
  /\ IsText(Field(v, "type")) /\ Has(v, "payload") /\ IsJson(Field(v, "payload"))

ActorOK(v) ==
  \/ Exactly(v, {"type", "playerId"}) /\ Field(v, "type") = Text("player") /\ IsText(Field(v, "playerId"))
  \/ Exactly(v, {"type"}) /\ Field(v, "type") = Text("system")

PlayerOK(v) ==
  /\ Exactly(v, {"playerId", "displayName", "seatId", "connected", "host"})
  /\ IsText(Field(v, "playerId")) /\ IsText(Field(v, "displayName"))
  /\ Field(v, "seatId").kind \in {"string", "null"} /\ Field(v, "connected") = Bool
  /\ Has(v, "host") => Field(v, "host") = Bool

HelloOK(v) ==
  /\ Exactly(v, {"type", "v", "sessionToken", "lastSequence"})
  /\ IsText(Field(v, "sessionToken"))
  /\ Field(v, "lastSequence") = NullValue \/ IsNatural(Field(v, "lastSequence"))

RequestOK(v) ==
  /\ Exactly(v, {"type", "v", "requestId", "predictedAtSequence", "action"})
  /\ IsText(Field(v, "requestId")) /\ IsNatural(Field(v, "predictedAtSequence"))
  /\ ActionOK(Field(v, "action"))

TimedOK(v) == Exactly(v, {"type", "v", "t"}) /\ (Has(v, "t") => IsFinite(Field(v, "t")))

OrderedOK(v) ==
  /\ Exactly(v, {"type", "v", "sequence", "actionId", "requestId", "actor", "action"})
  /\ Field(v, "type") = Text("ordered_action") /\ IsNatural(Field(v, "sequence")) /\ IsText(Field(v, "actionId"))
  /\ Has(v, "requestId") => IsText(Field(v, "requestId"))
  /\ ActorOK(Field(v, "actor")) /\ ActionOK(Field(v, "action"))

ResumeOK(v) ==
  /\ Exactly(v, {"type", "v", "fromSequence", "actions"})
  /\ IsNatural(Field(v, "fromSequence")) /\ Field(v, "actions").kind = "array"
  /\ \A action \in ValuesOf(Field(v, "actions")) : Field(action, "v") = Number("1") /\ OrderedOK(action)

BootstrapOK(v) ==
  /\ Exactly(v, {"type", "v", "sequence", "snapshot", "players"})
  /\ IsNatural(Field(v, "sequence")) /\ IsJson(Field(v, "snapshot"))
  /\ Field(v, "players").kind = "array" /\ \A p \in ValuesOf(Field(v, "players")) : PlayerOK(p)

PresenceOK(v) ==
  /\ Exactly(v, {"type", "v", "players"})
  /\ Field(v, "players").kind = "array"
  /\ LET players == Field(v, "players").of
     IN  /\ \A i \in DOMAIN players : PlayerOK(players[i][2])
         /\ IsInjective([i \in DOMAIN players |-> Field(players[i][2], "playerId")])

Codes == {"unsupported_protocol_version", "invalid_session", "malformed_message", "message_too_large",
          "rate_limited", "bootstrap_unavailable", "unknown_message_type"}
ErrorOK(v) == Exactly(v, {"type", "v", "code", "message"}) /\ Field(v, "code").text \in Codes /\ IsText(Field(v, "message"))
EndedOK(v) == Exactly(v, {"type", "v", "reason"}) /\ Field(v, "reason").text \in {"host_ended", "expired", "moderation"}

ClientOK(type, v) ==
  CASE type = "hello" -> HelloOK(v) [] type = "action_request" -> RequestOK(v) [] type = "ping" -> TimedOK(v)

ServerOK(type, v) ==
  CASE type = "bootstrap" -> BootstrapOK(v) [] type = "room_presence" -> PresenceOK(v) [] type = "resume" -> ResumeOK(v)
    [] type = "resync_required" -> Exactly(v, {"type", "v"})
    [] type = "protocol_error" -> ErrorOK(v) [] type = "room_ended" -> EndedOK(v)
    [] type = "ordered_action" -> OrderedOK(v) [] type = "pong" -> TimedOK(v)

-----------------------------------------------------------------------------
\* parseMessage.

\* Sizes by their order: 256 bytes, 4 KiB, 32 or 64 KiB, 4 MiB.
Limits(direction) ==
  IF direction = "client" THEN [ping |-> 1, hello |-> 2, action_request |-> 3]
  ELSE [pong |-> 1, resync_required |-> 2, protocol_error |-> 2, room_ended |-> 2, ordered_action |-> 3, room_presence |-> 3, resume |-> 4, bootstrap |-> 4]
Envelope(direction) == IF direction = "client" THEN 3 ELSE 4
TooLarge(direction, type, bytes) == type \in DOMAIN Limits(direction) /\ bytes > Limits(direction)[type]

\* f: a value, whether its text is whole, and its size
parseMessage(direction, f) ==
  LET text == IF f.whole THEN Tokens(f.value) ELSE Front(Tokens(f.value))
      type == Field(f.value, "type")
  IN  IF f.bytes > Envelope(direction) \/ TooLarge(direction, peekTopLevelType(text), f.bytes) THEN "message_too_large"
      ELSE IF ~f.whole \/ hasDuplicateObjectKey(text) \/ f.value.kind # "object" THEN "malformed_message"
      ELSE IF Field(f.value, "v") # Number("1") THEN "unsupported_protocol_version"
      ELSE IF ~IsText(type) \/ type.text \notin DOMAIN Limits(direction) THEN "unknown_message_type"
      ELSE IF TooLarge(direction, type.text, f.bytes) THEN "message_too_large"
      ELSE IF direction = "client" /\ ClientOK(type.text, f.value) THEN "ok"
      ELSE IF direction = "server" /\ ServerOK(type.text, f.value) THEN "ok"
      ELSE "malformed_message"

-----------------------------------------------------------------------------
\* What clients send, and what may be wrong with it.

Message(type, fields) == Object(<< <<"type", Text(type)>>, <<"v", Number("1")>> >> \o fields)

Payload == Object(<< <<"type", Text("ping")>>, <<"x", Number("2")>> >>)
Request(id) ==
  Message("action_request", << <<"requestId", Text(id)>>, <<"predictedAtSequence", Number("1")>>,
            <<"action", Object(<< <<"type", Text("counter.add")>>, <<"payload", Payload>> >>)>> >>)

Messages ==
  {Message("hello", << <<"sessionToken", Text("secret")>>, <<"lastSequence", last>> >>) : last \in {NullValue, Number("1")}}
    \cup {Request(id) : id \in {"r1", "r2"}}
    \cup {Message("ping", << >>), Message("ping", << <<"t", Number("-1")>> >>)}

\* The type last, behind a field that has one of its own.
Reversed(v) == [v EXCEPT !.of = Reverse(v.of)]

Odd == {NullValue, Number("1e999"), Number("-1"), Text("hello"), Payload}

Spoiled(v) ==
  LET n == Len(v.of)
      Replaced(i, w) == [v EXCEPT !.of[i][2] = w]
  IN  {v, Reversed(v), Array(<<v>>)}
        \cup {[v EXCEPT !.of = RemoveAt(v.of, i)] : i \in 1 .. n}
        \cup {[v EXCEPT !.of = Append(v.of, <<key, w>>)] : key \in KeysOf(v) \cup {"x"}, w \in {NullValue, Text("hello")}}
        \cup {Replaced(i, w) : i \in 1 .. n, w \in Odd}
        \cup {Reversed(Replaced(i, Payload)) : i \in 1 .. n}
        \cup {Replaced(i, [v.of[i][2] EXCEPT !.of = Append(@, w)]) :
                i \in {i \in 1 .. n : v.of[i][2].kind = "object"}, w \in {<<"type", Text("x")>>, <<"x", Bool>>}}

Frames ==
  LET values == UNION {Spoiled(m) : m \in Messages}
  IN  [value : values, whole : {TRUE}, bytes : 1 .. 4] \cup [value : values, whole : {FALSE}, bytes : {1}]

NoFrame == [value |-> NullValue, whole |-> TRUE, bytes |-> 1]

-----------------------------------------------------------------------------
\* The room's answers.

Error(code) == Message("protocol_error", << <<"code", Text(code)>>, <<"message", Text("why")>> >>)
Pong(v) == Message("pong", IF Has(v, "t") THEN << <<"t", Field(v, "t")>> >> ELSE << >>)

\* Fault: the whole request is spread into the action.
Ordered_Spread(n, v) ==
  Object(<< <<"sequence", Number(IF n = 1 THEN "1" ELSE "2")>>, <<"actionId", Text("act")>>,
            <<"actor", Object(<< <<"type", Text("player")>>, <<"playerId", Text("p")>> >>)>> >>
         \o SelectSeq(v.of, LAMBDA f : f[1] # "type") \o << <<"type", Text("ordered_action")>> >>)

Ordered(n, v) ==
  Message("ordered_action", << <<"sequence", Number(IF n = 1 THEN "1" ELSE "2")>>, <<"actionId", Text("act")>>, <<"requestId", Field(v, "requestId")>>,
            <<"actor", Object(<< <<"type", Text("player")>>, <<"playerId", Text("p")>> >>)>>,
            <<"action", Field(v, "action")>> >>)

SystemAction ==
  Message("ordered_action", << <<"sequence", Number("1")>>, <<"actionId", Text("act")>>,
            <<"actor", Object(<< <<"type", Text("system")>> >>)>>,
            <<"action", Object(<< <<"type", Text("system.game_start")>>, <<"payload", Object(<< >>)>> >>)>> >>)

Player(id, host) ==
  Object(<< <<"playerId", Text(id)>>, <<"displayName", Text("Ada")>>, <<"seatId", NullValue>>, <<"connected", Bool>> >>
         \o IF host THEN << <<"host", Bool>> >> ELSE << >>)

Roster == Array(<<Player("p", TRUE), Player("q", FALSE)>>)
Presence == Message("room_presence", << <<"players", Roster>> >>)
Resume(actions) == Message("resume", << <<"fromSequence", Number("1")>>, <<"actions", Array(actions)>> >>)

\* hello: what a room answers once it has authenticated the socket
Welcomes ==
  { <<Message("bootstrap", << <<"sequence", Number("1")>>, <<"snapshot", Payload>>, <<"players", Roster>> >>), SystemAction, Presence>>,
    <<Resume(<<SystemAction>>), Presence>>, <<Resume(<< >>)>>, <<Message("resync_required", << >>)>>, <<Error("malformed_message")>> }
Farewells == { <<Message("room_ended", << <<"reason", Text("expired")>> >>)>>, <<Error("bootstrap_unavailable")>> }

-----------------------------------------------------------------------------
WireInit ==
  /\ socket = [open |-> TRUE, authenticated |-> FALSE] /\ hellos = 0
  /\ sequence = 0 /\ requests = {} /\ frame = NoFrame /\ sent = << >>

\* handleTextFrame; a request that is known gets its action again.
FrameArrives(f) ==
  LET verdict == parseMessage("client", f)
      type == Field(f.value, "type").text
      id == Field(f.value, "requestId").text
  IN
  /\ socket.open /\ frame = NoFrame /\ sent = << >> /\ frame' = f
  /\ CASE verdict # "ok" \/ (~socket.authenticated /\ type # "hello") ->
            /\ sent' = <<Error(IF verdict # "ok" THEN verdict ELSE "malformed_message")>>
            /\ socket' = [socket EXCEPT !.open = socket.authenticated]
            /\ UNCHANGED <<hellos, sequence, requests>>
       [] verdict = "ok" /\ ~socket.authenticated /\ type = "hello" ->
            hellos < MaxHellos /\ hellos' = hellos + 1 /\ sent' = << >> /\ UNCHANGED <<socket, sequence, requests>>
       [] verdict = "ok" /\ socket.authenticated ->
            /\ CASE type = "hello" -> sent' = <<Error("malformed_message")>> /\ UNCHANGED <<sequence, requests>>
                 [] type = "ping" -> sent' = <<Pong(f.value)>> /\ UNCHANGED <<sequence, requests>>
                 [] type = "action_request" ->
                      IF id \in requests THEN sent' = <<Ordered(1, f.value)>> /\ UNCHANGED <<sequence, requests>>
                      ELSE /\ sequence < MaxActions /\ sequence' = sequence + 1 /\ requests' = requests \cup {id}
                           /\ sent' = <<Ordered(sequence', f.value)>>
            /\ UNCHANGED <<socket, hellos>>

\* handleHello goes on, perhaps for a socket that was closed, or authenticated, meanwhile.
HelloAnswered ==
  /\ hellos > 0 /\ hellos' = hellos - 1 /\ frame = NoFrame /\ sent = << >>
  /\ \/ sent' = <<Error("invalid_session")>> /\ socket' = [socket EXCEPT !.open = FALSE]
     \/ sent' \in Welcomes /\ socket' = [socket EXCEPT !.authenticated = TRUE]
     \/ sent' \in Farewells /\ socket' = [open |-> FALSE, authenticated |-> TRUE]
  /\ UNCHANGED <<frame, sequence, requests>>

\* The client has what was sent to it.
Read ==
  /\ frame # NoFrame \/ sent # << >>
  /\ frame' = NoFrame /\ sent' = << >> /\ UNCHANGED <<socket, hellos, sequence, requests>>

WireNext == Read \/ (\E f \in Frames : FrameArrives(f)) \/ HelloAnswered

WireSpec == WireInit /\ [][WireNext]_wireVars

-----------------------------------------------------------------------------
RECURSIVE KeysUnique(_)
KeysUnique(v) ==
  /\ v.kind = "object" => Cardinality(KeysOf(v)) = Len(v.of)
  /\ \A w \in ValuesOf(v) : KeysUnique(w)

\* A frame is accepted just when it is a whole JSON object without repeated keys, of this
\* version and of a type that clients send, as long as that type may be and with the
\* fields it has; and it is too large only for a type that it really names.  Although the
\* size is checked on a glance at the text: no type inside another field misleads it.
\* (parseMessage, peekTopLevelType, findDuplicateObjectKey.)
FramesAreJudgedRight ==
  LET verdict == parseMessage("client", frame)
      types == {frame.value.of[i][2].text : i \in {i \in DOMAIN frame.value.of : frame.value.of[i][1] = "type"}}
      type == Field(frame.value, "type")
  IN  /\ verdict = "ok" <=>
           /\ frame.whole /\ frame.value.kind = "object" /\ KeysUnique(frame.value)
           /\ Field(frame.value, "v") = Number("1") /\ IsText(type)
           /\ type.text \in {"hello", "action_request", "ping"} /\ frame.bytes <= Limits("client")[type.text]
           /\ ClientOK(type.text, frame.value)
      /\ verdict = "message_too_large" =>
           frame.bytes > 3 \/ (\E t \in types \cap {"hello", "ping", "action_request"} : frame.bytes > Limits("client")[t])

\* Whatever the room sends is accepted by its clients, and so does not throw in the
\* room's hands; and whatever a client sends to an open socket is answered, but for a
\* hello whose token is still being looked up.  (sendServerMessage and its callers.)
RoomSpeaksProtocol ==
  /\ \A i \in DOMAIN sent : parseMessage("server", [value |-> sent[i], whole |-> TRUE, bytes |-> 1]) = "ok"
  /\ frame # NoFrame /\ sent = << >> => hellos > 0 /\ Field(frame.value, "type") = Text("hello")

\* Neither side of a socket is misread by the other.  (parseMessage, for both directions.)
FramesAreSound == FramesAreJudgedRight /\ RoomSpeaksProtocol
=============================================================================
