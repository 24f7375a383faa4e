---------------------------- MODULE ScriptValues ----------------------------
(***************************************************************************)
(* The values that go into a script's Lua state and come out of it         *)
(* (packages/lua/src/index.ts): the state a game keeps between callbacks   *)
(* is canonical JSON outside and Lua tables inside, and every callback     *)
(* gets a Lua state of its own, so that whatever a script keeps is         *)
(* converted twice between two callbacks; and so are the arguments of      *)
(* every function of the host.                                             *)
(*                                                                         *)
(* A value is a record that says what it is.  Objects are functions from   *)
(* names to values, Lua tables functions from keys to values; "parent" is  *)
(* a table that is found within itself.  Texts are sequences of UTF-16     *)
(* units outside and of bytes inside.  Of the numbers that are no integers *)
(* only that they have a fraction, or none, is kept.                       *)
(***************************************************************************)
EXTENDS Integers, Sequences, FiniteSets, FiniteSetsExt, Functions, TLC

CONSTANTS
  MaxSafe,   \* Number.MAX_SAFE_INTEGER
  Names,     \* fields of the script state
  Texts,     \* texts, as UTF-16 units
  Kept,      \* values the state starts with
  Assigned   \* Lua values that scripts assign or pass on

ASSUME ValueAssumption == MaxSafe \in Nat \ {0} /\ \A text \in Texts : text \in Seq(0 .. 65535)

VARIABLES
  store,  \* scriptState: name |-> value
  last    \* the last callback: what it assigned or passed on, and what came of it

valueVars == <<store, last>>

-----------------------------------------------------------------------------
\* Texts.

IsHigh(unit) == unit \in 55296 .. 56319
IsLow(unit) == unit \in 56320 .. 57343
Replacement == 65533

\* A pair of surrogates starts at i.
IsPair(units, i) == i < Len(units) /\ IsHigh(units[i]) /\ IsLow(units[i + 1])

\* The code point at i; half a pair is none.
CodePoint(units, i) ==
  CASE IsPair(units, i) -> 65536 + (units[i] - 55296) * 1024 + (units[i + 1] - 56320)
    [] ~IsPair(units, i) /\ (IsHigh(units[i]) \/ IsLow(units[i])) -> Replacement
    [] OTHER -> units[i]

Trail(n) == 128 + (n % 64)

Bytes(p) ==
  CASE p <= 127 -> <<p>>
    [] p \in 128 .. 2047 -> <<192 + p \div 64, Trail(p)>>
    [] p \in 2048 .. 65535 -> <<224 + p \div 4096, Trail(p \div 64), Trail(p)>>
    [] OTHER -> <<240 + p \div 262144, Trail(p \div 4096), Trail(p \div 64), Trail(p)>>

EncodeUtf8(units) ==
  LET From[i \in 1 .. Len(units) + 2] ==
        IF i > Len(units) THEN << >>
        ELSE Bytes(CodePoint(units, i)) \o From[IF IsPair(units, i) THEN i + 2 ELSE i + 1]
  IN  From[1]

\* How many bytes a code point takes that starts with this one; 0 if none does.
Width(byte) ==
  CASE byte < 128 -> 1 [] byte \in 192 .. 223 -> 2 [] byte \in 224 .. 239 -> 3
    [] byte \in 240 .. 247 -> 4 [] OTHER -> 0

Lead(byte) ==
  CASE Width(byte) = 1 -> byte [] Width(byte) = 2 -> byte - 192
    [] Width(byte) = 3 -> byte - 224 [] Width(byte) = 4 -> byte - 240

Least(width) == CASE width = 2 -> 128 [] width = 3 -> 2048 [] width = 4 -> 65536 [] OTHER -> 0

Units(p) == IF p < 65536 THEN <<p>> ELSE <<55296 + (p - 65536) \div 1024, 56320 + ((p - 65536) % 1024)>>

\* A lead without the bytes it promises ends the text.
DecodeUtf8(bytes) ==
  LET From[i \in 1 .. Len(bytes) + 4] ==
        IF i > Len(bytes) THEN << >>
        ELSE LET width == Width(bytes[i])
                 trail == {i + k : k \in 1 .. width - 1}
                 Weight(j) == 64 ^ (width - 1 - (j - i))
                 p == FoldSet(LAMBDA j, sum : sum + (bytes[j] % 64) * Weight(j),
                              Lead(bytes[i]) * Weight(i), trail)
             IN  CASE width = 0 -> <<Replacement>> \o From[i + 1]
                   [] width > 0 /\ i + width - 1 > Len(bytes) -> <<Replacement>>
                   [] width > 0 /\ i + width - 1 <= Len(bytes) ->
                        IF \/ \E j \in trail : bytes[j] \notin 128 .. 191
                           \/ p < Least(width) \/ p > 1114111 \/ IsHigh(p) \/ IsLow(p)
                        THEN <<Replacement>> \o From[i + 1]
                        ELSE Units(p) \o From[i + width]
  IN  From[1]

\* canonicalUtf8ByteLength: what counts for the limit of text.set.
ByteLength(units) ==
  LET From[i \in 1 .. Len(units) + 2] ==
        IF i > Len(units) THEN 0
        ELSE CASE units[i] <= 127 -> 1 + From[i + 1]
               [] units[i] \in 128 .. 2047 -> 2 + From[i + 1]
               [] units[i] > 2047 -> IF IsPair(units, i) THEN 4 + From[i + 2] ELSE 3 + From[i + 1]
  IN  From[1]

-----------------------------------------------------------------------------
\* Values.

Nil == [is |-> "nil"]

\* Fault: null goes in as nil.
NullValue_Nil == Nil

\* null goes in as a value of its own: nil would leave no entry.
NullValue == [is |-> "sentinel"]

\* What a Lua table holds: a nil is no entry.
Table(entries) ==
  [is |-> "table", at |-> Restrict(entries, {k \in DOMAIN entries : entries[k] # Nil})]

RECURSIVE Push(_)
Push(v) ==
  CASE v.is = "null" -> NullValue
    [] v.is = "text" -> [is |-> "string", bytes |-> EncodeUtf8(v.units)]
    [] v.is = "array" ->
         LET keys == {<<"int", i>> : i \in DOMAIN v.items}
         IN  Table([k \in keys |-> Push(v.items[k[2]])])
    [] v.is = "object" ->
         LET keys == {<<"str", name>> : name \in DOMAIN v.of}
         IN  Table([k \in keys |-> Push(v.of[k[2]])])
    [] OTHER -> v

Failed == [ok |-> FALSE]
Value(v) == [ok |-> TRUE, value |-> v]

\* extractTable, of entries that have been extracted: all keys are integers from one
\* on, without a gap, or all are strings; the empty table is an object.
FromTable(entries) ==
  LET keys == DOMAIN entries
      indices == {k[2] : k \in {x \in keys : x[1] = "int"}}
      ofKind(kind) == \A k \in keys : k[1] = kind
  IN  CASE \E k \in keys : ~entries[k].ok -> Failed
        [] (\A k \in keys : entries[k].ok) /\ ofKind("str") ->
             Value([is |-> "object", of |-> [name \in {k[2] : k \in keys} |-> entries[<<"str", name>>].value]])
        [] (\A k \in keys : entries[k].ok) /\ keys # {} /\ ofKind("int") /\ indices = 1 .. Cardinality(keys) ->
             Value([is |-> "array", items |-> [i \in indices |-> entries[<<"int", i>>].value]])
        [] OTHER -> Failed

RECURSIVE Extract(_)
Extract(v) ==
  CASE v.is \in {"nil", "sentinel"} -> Value([is |-> "null"])
    [] v.is \in {"bool", "fraction"} -> Value(v)
    [] v.is = "int" -> IF v.n \in -MaxSafe .. MaxSafe THEN Value(v) ELSE Failed
    [] v.is = "float" -> Value([is |-> "int", n |-> v.n])
    [] v.is = "string" -> Value([is |-> "text", units |-> DecodeUtf8(v.bytes)])
    [] v.is = "table" -> FromTable([k \in DOMAIN v.at |-> Extract(v.at[k])])
    [] OTHER -> Failed

-----------------------------------------------------------------------------
State == Push([is |-> "object", of |-> store])
NoCallback == [did |-> "idle"]

ValueInit ==
  /\ store \in [Names -> Kept]
  /\ last = NoCallback

\* The callback is run, and its state taken out again; a value that cannot be
\* rejects the action.
Returned(table, callback) ==
  LET out == Extract(table)
      isState == out.ok /\ out.value.is = "object"
  IN  /\ last = NoCallback
      /\ store' = IF isState THEN out.value.of ELSE store
      /\ last' = [callback EXCEPT !.kept = isState]

Untouched == Returned(State, [did |-> "nothing", kept |-> TRUE])

Assigns(name, v) ==
  Returned(Table([k \in DOMAIN State.at \cup {<<"str", name>>} |->
                    IF k = <<"str", name>> THEN v ELSE State.at[k]]),
           [did |-> "assign", name |-> name, to |-> v, kept |-> TRUE])

\* A function of the host: its arguments are taken out, or an error is raised in the
\* script, which catches it or fails.
Calls(v) ==
  LET argument == Extract(v)
      call == [did |-> "call", with |-> v, got |-> argument, kept |-> TRUE]
  IN  \/ Returned(State, call)
      \/ ~argument.ok /\ last = NoCallback /\ last' = [call EXCEPT !.kept = FALSE] /\ UNCHANGED store

\* The next callback gets a Lua state of its own.
Done == last # NoCallback /\ last' = NoCallback /\ UNCHANGED store

ValueNext ==
  \/ Untouched \/ Done
  \/ \E v \in Assigned : Calls(v) \/ \E name \in Names : Assigns(name, v)

ValueSpec == ValueInit /\ [][ValueNext]_valueVars

-----------------------------------------------------------------------------
\* What can be kept, said without converting it (docs/lua-api.md, "extraction").
RECURSIVE Storable(_)
Storable(v) ==
  CASE v.is = "table" ->
         /\ \A k \in DOMAIN v.at : Storable(v.at[k])
         /\ LET n == Cardinality(DOMAIN v.at)
            IN  \/ DOMAIN v.at = {<<"int", i>> : i \in 1 .. n}
                \/ \A k \in DOMAIN v.at : k[1] = "str"
    [] v.is = "int" -> v.n \in -MaxSafe .. MaxSafe
    [] OTHER -> v.is \notin {"function", "userdata", "thread", "infinite", "parent"}

\* What a script reads back of a value it has kept: the same, but that whole numbers
\* become integers and bytes that are no text may change.
RECURSIVE ReadsAs(_, _)
ReadsAs(read, v) ==
  CASE v.is = "table" -> /\ read.is = "table" /\ DOMAIN read.at = DOMAIN v.at
                         /\ \A k \in DOMAIN v.at : ReadsAs(read.at[k], v.at[k])
    [] v.is = "float" -> read = [is |-> "int", n |-> v.n]
    [] v.is = "string" -> /\ read.is = "string"
                          /\ (\E text \in Texts : v.bytes = EncodeUtf8(text)) => read = v
    [] OTHER -> read = v

RECURSIVE TextsIn(_)
TextsIn(v) ==
  CASE v.is = "text" -> {v.units}
    [] v.is = "array" -> UNION {TextsIn(v.items[i]) : i \in DOMAIN v.items}
    [] v.is = "object" -> UNION {TextsIn(v.of[name]) : name \in DOMAIN v.of}
    [] OTHER -> {}

\* What a script keeps it finds again in the next callback, as does every other
\* script, whatever others keep: nothing that was not assigned changes its look, what
\* was assigned reads as it was, absent only if it was nil; the host gets what a script
\* passes on; and an action is rejected exactly if something cannot be kept.  A text
\* is as long for its limit as it is in the script.  (pushHostValue and extractValue,
\* run one after the other between any two callbacks.)
ValuesSurvive ==
  /\ [][LET before == State.at
            after == State'.at
            Assigned1 == IF last'.did = "assign" THEN {<<"str", last'.name>>} ELSE {}
        IN  last' = NoCallback \/
            /\ last'.kept =>
                 /\ \A k \in (DOMAIN before \cup DOMAIN after) \ Assigned1 :
                      k \in DOMAIN before \cap DOMAIN after /\ after[k] = before[k]
                 /\ \A k \in Assigned1 :
                      IF last'.to = Nil THEN k \notin DOMAIN after
                      ELSE k \in DOMAIN after /\ ReadsAs(after[k], last'.to)
            /\ ~last'.kept => store' = store
            /\ last'.did = "nothing" => last'.kept
            /\ last'.did = "assign" => (last'.kept <=> Storable(last'.to))
            /\ last'.did = "call" =>
                 /\ last'.got.ok <=> Storable(last'.with)
                 /\ last'.got.ok /\ last'.with # Nil => ReadsAs(Push(last'.got.value), last'.with)]_valueVars
  /\ [](\A name \in DOMAIN store : \A text \in TextsIn(store[name]) :
          ByteLength(text) = Len(EncodeUtf8(text)))
=============================================================================
