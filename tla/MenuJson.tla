------------------------------ MODULE MenuJson ------------------------------
(***************************************************************************)
(* The JSON of the menu protocol: the recursive-descent parser both native *)
(* helpers carry (system_menu_helper_linux.c and, line for line the same,  *)
(* system_menu_helper_win.c), and the escapes they write events with.      *)
(*                                                                         *)
(* The grammar is over tokens, what is left when j_skip has passed the     *)
(* blanks: a string, a literal (true, false, null), the six punctuation    *)
(* marks by what they do, and "bad" for anything else, numbers among it:   *)
(* System::Menu sends none.  The parser looks at each token once: what it  *)
(* does then is told by the place it waits in and by the calls of j_array  *)
(* and j_object in progress.  Inside a string the text is bytes.           *)
(*                                                                         *)
(* The inputs are built by steps: token texts grow or are edited, strings  *)
(* grow by one code unit or byte, and each is checked against a definition *)
(* of the language that does not follow the parser.                        *)
(***************************************************************************)
EXTENDS Integers, Sequences

CONSTANTS
  Seeds,      \* well-formed token texts to edit
  MaxTokens,  \* length to which token texts grow from nothing
  MaxEdits,   \* tokens replaced in a seed
  Units,      \* UTF-16 code units of a string
  Bytes,      \* bytes of a name that is written
  MaxUnits    \* length of those two

VARIABLES
  tokens,  \* a token text
  edits,   \* how often it has been edited; -1 while it grows from nothing
  units,   \* a string as code units, each written \uXXXX
  name     \* a string as bytes, as an item's name is kept

jsonVars == <<tokens, edits, units, name>>

Tokens == {"object", "objectEnd", "array", "arrayEnd", "colon", "comma", "str", "lit", "bad"}

\* The zero that ends a string in C is part of none.
CodeUnits == 1 .. 65535
StringBytes == 1 .. 255

ASSUME JsonAssumption ==
  /\ Seeds \subseteq Seq(Tokens)
  /\ Units \subseteq CodeUnits
  /\ Bytes \subseteq StringBytes

-----------------------------------------------------------------------------
(* The parser.  Its state is where it waits and the brackets, by their     *)
(* positions, of the arrays and objects it is in.                          *)

Waits(place, open) == [at |-> place, open |-> open]

\* The call of j_array or j_object that is left returns its value.
Close(open) == Waits("after", SubSeq(open, 1, Len(open) - 1))

\* j_value, at token k.  Strings and literals are one token.
j_value(t, k, open) ==
  CASE t[k] = "array" -> Waits("firstItem", Append(open, k))
    [] t[k] = "object" -> Waits("firstKey", Append(open, k))
    [] t[k] \in {"str", "lit"} -> Waits("after", open)
    [] OTHER -> Waits("error", open)

\* In j_array: an array may be empty; a comma must be followed by an item.
j_array(t, k, st) ==
  CASE t[k] = "arrayEnd" -> Close(st.open)
    [] t[k] # "arrayEnd" /\ st.at = "firstItem" -> j_value(t, k, st.open)
    [] t[k] = "comma" /\ st.at = "after" -> Waits("value", st.open)
    [] OTHER -> Waits("error", st.open)

\* In j_object: keys are strings, and a comma must be followed by one.
j_object(t, k, st) ==
  CASE t[k] = "objectEnd" /\ st.at \in {"firstKey", "after"} -> Close(st.open)
    [] t[k] = "str" /\ st.at \in {"firstKey", "key"} -> Waits("colon", st.open)
    [] t[k] = "colon" /\ st.at = "colon" -> Waits("value", st.open)
    [] t[k] = "comma" /\ st.at = "after" -> Waits("key", st.open)
    [] OTHER -> Waits("error", st.open)

\* An error stays.
Looks(t, k, st) ==
  LET within == IF st.open = <<>> THEN "text" ELSE t[st.open[Len(st.open)]]
  IN  CASE st.at = "value" -> j_value(t, k, st.open)
        [] st.at \notin {"value", "error"} /\ within = "array" -> j_array(t, k, st)
        [] st.at \notin {"value", "error"} /\ within = "object" -> j_object(t, k, st)
        [] OTHER -> Waits("error", st.open)

Looking(t) ==
  LET after[k \in 0 .. Len(t)] ==
        IF k = 0 THEN Waits("value", <<>>) ELSE Looks(t, k, after[k - 1])
  IN  after

\* Mutant: what follows the value is not looked at.
j_parse_Prefix(t) == \E k \in 0 .. Len(t) : Looking(t)[k] = Waits("after", <<>>)
\* A value and nothing behind it.
j_parse(t) == Looking(t)[Len(t)] = Waits("after", <<>>)

-----------------------------------------------------------------------------
(* Strings *)

DoubleQuote == 34
Backslash == 92
Hex(d) == IF d < 10 THEN 48 + d ELSE 87 + d
hexval(c) == IF c \in 48 .. 57 THEN c - 48
             ELSE IF c \in 97 .. 102 THEN c - 87
             ELSE IF c \in 65 .. 70 THEN c - 55 ELSE -1
\* The four hexadecimal digits at i, or -1.
Hex4(s, i) ==
  IF i + 3 > Len(s) \/ \E k \in i .. (i + 3) : hexval(s[k]) < 0 THEN -1
  ELSE ((hexval(s[i]) * 16 + hexval(s[i + 1])) * 16 + hexval(s[i + 2])) * 16
         + hexval(s[i + 3])

append_utf8(out, cp) ==
  out \o
  IF cp <= 127 THEN <<cp>>
  ELSE IF cp <= 2047 THEN <<192 + cp \div 64, 128 + (cp % 64)>>
  ELSE IF cp <= 65535
       THEN <<224 + cp \div 4096, 128 + ((cp \div 64) % 64), 128 + (cp % 64)>>
  ELSE <<240 + cp \div 262144, 128 + ((cp \div 4096) % 64),
         128 + ((cp \div 64) % 64), 128 + (cp % 64)>>

\* Mutant: a high surrogate swallows whatever escape comes after it.
LowSurrogate_Any(u) == u >= 0
LowSurrogate(u) == u \in 56320 .. 57343
HighSurrogate(u) == u \in 55296 .. 56319

\* The escapes of one character.
Short == [c \in {34, 92, 47, 98, 102, 110, 114, 116} |->
            CASE c = 98 -> 8 [] c = 102 -> 12 [] c = 110 -> 10
              [] c = 114 -> 13 [] c = 116 -> 9 [] OTHER -> c]

\* One turn of j_string's loop, at st.at.
StringTurn(s, st) ==
  LET i == st.at
      e == IF i < Len(s) THEN s[i + 1] ELSE 0
      cp == Hex4(s, i + 2)
      low == IF i + 7 <= Len(s) /\ s[i + 6] = Backslash /\ s[i + 7] = 117
             THEN Hex4(s, i + 8) ELSE -1
      paired == HighSurrogate(cp) /\ LowSurrogate(low)
      Taken(out, n) == [at |-> i + n, out |-> out, read |-> "more"]
  IN  CASE st.read # "more" -> st
        [] st.read = "more" /\ i <= Len(s) /\ s[i] = DoubleQuote -> [st EXCEPT !.read = "all"]
        [] st.read = "more" /\ i <= Len(s) /\ s[i] \notin {DoubleQuote, Backslash} ->
             Taken(Append(st.out, s[i]), 1)
        [] st.read = "more" /\ i <= Len(s) /\ s[i] = Backslash /\ e \in DOMAIN Short ->
             Taken(Append(st.out, Short[e]), 2)
        [] st.read = "more" /\ i <= Len(s) /\ s[i] = Backslash /\ e = 117 /\ cp >= 0 ->
             IF paired
               THEN Taken(append_utf8(st.out, 65536 + (cp - 55296) * 1024 + (low - 56320)), 12)
               ELSE Taken(append_utf8(st.out, cp), 6)
        [] OTHER -> [st EXCEPT !.read = "error"]

\* From behind the opening quote: the bytes read and whether they are a string.
j_string(s) ==
  LET after[n \in 0 .. Len(s) + 1] ==
        IF n = 0 THEN [at |-> 1, out |-> <<>>, read |-> "more"] ELSE StringTurn(s, after[n - 1])
  IN  after[Len(s) + 1]

UnicodeEscape(u) ==
  <<92, 117, Hex(u \div 4096), Hex((u \div 256) % 16), Hex((u \div 16) % 16), Hex(u % 16)>>

\* Mutant: control characters are written as they are.
EmitByte_Raw(c) == IF c \in {34, 92} THEN <<92, c>> ELSE <<c>>
\* emit_json_string, byte by byte.
EmitByte(c) ==
  CASE c \in {34, 92} -> <<92, c>>
    [] c = 10 -> <<92, 110>>
    [] c = 13 -> <<92, 114>>
    [] c = 9 -> <<92, 116>>
    [] c < 32 /\ c \notin {9, 10, 13} -> UnicodeEscape(c)
    [] OTHER -> <<c>>

\* The texts one behind the other, and a quote.
Written(texts) ==
  LET upto[n \in 0 .. Len(texts)] == IF n = 0 THEN <<>> ELSE upto[n - 1] \o texts[n]
  IN  Append(upto[Len(texts)], DoubleQuote)

emit_json_string(s) == Written([i \in 1 .. Len(s) |-> EmitByte(s[i])])

-----------------------------------------------------------------------------
JsonInit ==
  /\ tokens \in Seeds \cup {<<>>}
  /\ edits = IF tokens = <<>> THEN -1 ELSE 0
  /\ units = <<>> /\ name = <<>>

Grow(t) == /\ edits = -1 /\ units = <<>> /\ name = <<>> /\ Len(tokens) < MaxTokens
           /\ tokens' = Append(tokens, t)
           /\ UNCHANGED <<edits, units, name>>

Edit(i, t) == /\ edits \in 0 .. (MaxEdits - 1)
              /\ tokens' = [tokens EXCEPT ![i] = t]
              /\ edits' = edits + 1
              /\ UNCHANGED <<units, name>>

AddUnit(u) == /\ tokens = <<>> /\ name = <<>> /\ Len(units) < MaxUnits
              /\ units' = Append(units, u)
              /\ UNCHANGED <<tokens, edits, name>>

AddByte(c) == /\ tokens = <<>> /\ units = <<>> /\ Len(name) < MaxUnits
              /\ name' = Append(name, c)
              /\ UNCHANGED <<tokens, edits, units>>

JsonNext == \/ \E t \in Tokens : Grow(t)
            \/ \E i \in DOMAIN tokens, t \in Tokens : Edit(i, t)
            \/ \E u \in Units : AddUnit(u)
            \/ \E c \in Bytes : AddByte(c)

JsonSpec == JsonInit /\ [][JsonNext]_jsonVars

-----------------------------------------------------------------------------
(* The language, by what a text is made of.  A phrase <<kind, i, j>> is the *)
(* tokens i to j as a value, or as an array or object but for its end.      *)

Derived(t, kind, i, j, known) ==
  LET Is(other, k, l) == <<other, k, l>> \in known
  IN  \/ /\ kind = "value"
         /\ \/ i = j /\ t[i] \in {"str", "lit"}
            \/ Is("items", i, j - 1) /\ t[j] = "arrayEnd"
            \/ Is("pairs", i, j - 1) /\ t[j] = "objectEnd"
            \/ j = i + 1 /\ t[i] = "array" /\ t[j] = "arrayEnd"
            \/ j = i + 1 /\ t[i] = "object" /\ t[j] = "objectEnd"
      \/ /\ kind = "items" /\ t[i] = "array"
         /\ \E m \in i .. j - 1 :
              /\ m = i \/ (Is("items", i, m - 1) /\ t[m] = "comma")
              /\ Is("value", m + 1, j)
      \/ /\ kind = "pairs" /\ t[i] = "object"
         /\ \E m \in i .. j - 3 :
              /\ m = i \/ (Is("pairs", i, m - 1) /\ t[m] = "comma")
              /\ t[m + 1] = "str" /\ t[m + 2] = "colon" /\ Is("value", m + 3, j)

\* The phrases of n tokens, and of up to n.
Spans(t, n) ==
  {<<kind, i, i + n - 1>> : kind \in {"value", "items", "pairs"}, i \in 1 .. Len(t) - n + 1}
Phrases(t) ==
  LET upto[n \in 0 .. Len(t)] ==
        IF n = 0 THEN {}
        ELSE LET known == upto[n - 1]
             IN  known \cup {p \in Spans(t, n) : Derived(t, p[1], p[2], p[3], known)}
  IN  upto

\* The helpers handle a line exactly when it is a JSON value: j_parse refuses a
\* text with something behind the value, a comma or a bracket too many or too few
\* at any depth, and accepts every other one.
DocumentsExact ==
  j_parse(tokens) <=> <<"value", 1, Len(tokens)>> \in Phrases(tokens)[Len(tokens)]

\* The code points of a string of code units, one at a time: pairs of
\* surrogates are joined and single ones kept.
NextPoint(u, st) ==
  LET n == st.used + 1
      pair == n < Len(u) /\ u[n] \in 55296 .. 56319 /\ u[n + 1] \in 56320 .. 57343
  IN  IF st.used = Len(u) THEN st
      ELSE IF pair
        THEN [used |-> n + 1,
              points |-> Append(st.points, 65536 + (u[n] - 55296) * 1024 + (u[n + 1] - 56320))]
        ELSE [used |-> n, points |-> Append(st.points, u[n])]
CodePoints(u) ==
  LET after[n \in 0 .. Len(u)] ==
        IF n = 0 THEN [used |-> 0, points |-> <<>>] ELSE NextPoint(u, after[n - 1])
  IN  after[Len(u)].points

\* The bytes are the UTF-8 of the points: a lead byte that tells the length,
\* and bytes of six bits.
Width(p) == IF p < 128 THEN 1 ELSE IF p < 2048 THEN 2 ELSE IF p < 65536 THEN 3 ELSE 4
Lead(w) == IF w = 1 THEN 0 ELSE IF w = 2 THEN 192 ELSE IF w = 3 THEN 224 ELSE 240
PointAt(b, i, w) ==
  LET lead == b[i] - Lead(w)
      Bits(k) == b[i + k] - 128
  IN  CASE w = 1 -> lead
        [] w = 2 -> lead * 64 + Bits(1)
        [] w = 3 -> (lead * 64 + Bits(1)) * 64 + Bits(2)
        [] OTHER -> ((lead * 64 + Bits(1)) * 64 + Bits(2)) * 64 + Bits(3)
IsUtf8(b, points) ==
  LET before[k \in 0 .. Len(points)] ==
        IF k = 0 THEN 0 ELSE before[k - 1] + Width(points[k])
  IN  /\ Len(b) = before[Len(points)]
      /\ \A k \in 1 .. Len(points) :
           LET i == before[k - 1] + 1
               w == Width(points[k])
           IN  /\ PointAt(b, i, w) = points[k]
               /\ \A j \in i + 1 .. i + w - 1 : b[j] \in 128 .. 191

\* What arrives is what was sent.  A string sent with escapes is read as the same
\* code points; and a name, read back from the event a helper writes for it, is
\* the name, so that the click finds its item.
StringsExact ==
  /\ LET st == j_string(Written([i \in 1 .. Len(units) |-> UnicodeEscape(units[i])]))
     IN  st.read = "all" /\ IsUtf8(st.out, CodePoints(units))
  /\ LET event == emit_json_string(name)
         st == j_string(event)
     IN  st.read = "all" /\ st.out = name /\ \A i \in DOMAIN event : event[i] >= 32

\* What one side writes the other reads as the same, and nothing else as JSON.
JsonExact == DocumentsExact /\ StringsExact
=============================================================================
