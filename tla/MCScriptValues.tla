---------------------------- MODULE MCScriptValues ----------------------------
\* Values of every kind, alone and in tables, and texts at the bounds of UTF-8.
EXTENDS ScriptValues

Whole(n) == [is |-> "int", n |-> n]
Array(items) == [is |-> "array", items |-> items]
List(items) == [is |-> "table", at |-> [k \in {<<"int", i>> : i \in DOMAIN items} |-> items[k[2]]]]
String(bytes) == [is |-> "string", bytes |-> bytes]
KeyedBy(keys) == [is |-> "table", at |-> [k \in keys |-> Whole(1)]]

MCMaxSafe == 9
MCNames == {"a"}

\* One unit at each bound of the four widths, a pair, and halves of pairs.
MCTexts == {<< >>, <<65>>, <<127, 128>>, <<2047, 2048>>, <<65535>>, <<55296, 56320>>, <<56319, 57343>>,
            <<55296>>, <<56320, 65>>, <<65, 55296, 55296, 56320>>}

Leaves == {[is |-> "null"], Whole(0), [is |-> "bool", b |-> FALSE], [is |-> "fraction"]}

MCKept ==
  Leaves \cup {[is |-> "text", units |-> text] : text \in MCTexts}
  \cup {Array(<< >>), Array(<<[is |-> "null"], Whole(1)>>), Array(<<Array(<<Whole(2)>>), Array(<< >>)>>),
        [is |-> "object", of |-> ("1" :> [is |-> "null"])],
        [is |-> "object", of |-> ("x" :> Array(<<[is |-> "object", of |-> << >>]>>))]}

\* Bytes that are no text: a lone trail, an overlong form, half a pair, beyond the last
\* code point, a lead with too few bytes after it, and one that never leads.
Malformed == {<<128>>, <<192, 129>>, <<224, 159, 191>>, <<237, 160, 128>>, <<244, 144, 128, 128>>,
              <<226, 130>>, <<226, 65, 66>>, <<255, 65>>}

MCAssigned ==
  {[is |-> kind] : kind \in {"nil", "sentinel", "fraction", "infinite", "function", "userdata", "thread"}}
  \cup {Whole(n) : n \in {-10, -9, 9, 10}} \cup {[is |-> "float", n |-> 3]}
  \cup {String(EncodeUtf8(text)) : text \in MCTexts} \cup {String(bytes) : bytes \in Malformed}
  \cup {List(items) : items \in {<< >>, <<Whole(1), String(<<65>>)>>, <<List(<< >>), List(<<Whole(10)>>)>>,
                                 <<[is |-> "sentinel"], [is |-> "parent"]>>, <<[is |-> "sentinel"], Whole(1)>>}}
  \cup {KeyedBy(keys) : keys \in {{<<"int", 0>>}, {<<"int", 2>>}, {<<"int", 1>>, <<"str", "1">>},
                                  {<<"str", "1">>, <<"str", "x">>}, {<<"other", TRUE>>},
                                  {<<"int", 1>>, <<"int", 3>>}}}
=============================================================================
