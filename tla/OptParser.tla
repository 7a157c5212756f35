------------------------------- MODULE OptParser -------------------------------
(***************************************************************************)
(* The parser of command line options of the C++ recorder (base/            *)
(* opt_parser.cpp): what parse_opts makes of a command line.                *)
(*                                                                          *)
(* A word of the line is a record: `name` is the option it names, or None,  *)
(* and `text` the value it carries.  "--uid" has no text, "--uid=7" both,   *)
(* and a plain word only text.  A text is tagged by what a conversion can   *)
(* tell of it: empty, a number, a number with something behind it, a list   *)
(* (parts between commas), another word.                                    *)
(* Names stand for the option getopt resolves them to, abbreviated or not.  *)
(* The types no option of the recorder has (64 bits, double, addresses) are *)
(* left out.                                                                *)
(***************************************************************************)
EXTENDS Integers, Sequences

CONSTANTS
    IntBits,     \* the width of int32_t and uint32_t
    LongBits,    \* the width of long, which the numbers are first read as
    None         \* no name, no text

ASSUME WidthsAssumption ==
    /\ {2 ^ IntBits, 2 ^ (IntBits - 1), 2 ^ LongBits, 2 ^ (LongBits - 1)}
         \subseteq Nat \ {0}
    /\ 2 ^ IntBits = 2 * 2 ^ (IntBits - 1)

Kinds == {"empty", "number", "trailing", "list", "word"}
Number(n) == [kind |-> "number", value |-> n]
Trailing(n, rest) == [kind |-> "trailing", value |-> n, rest |-> rest]
List(s)   == [kind |-> "list", value |-> s]
Word(w)   == [kind |-> "word", value |-> w]
EmptyText == [kind |-> "empty"]

(***************************************************************************)
(* fill_arg: what each type makes of a text.  Numbers are read as a long,   *)
(* which stops at the bounds of its range, and then cut to the type.        *)
(***************************************************************************)
ToLong(n) == LET bound == 2 ^ (LongBits - 1)
             IN  IF n >= bound THEN bound - 1 ELSE IF n < -bound THEN -bound ELSE n
ToULong(n) == IF n >= 2 ^ LongBits \/ n <= -(2 ^ LongBits)
                THEN 2 ^ LongBits - 1 ELSE n % 2 ^ LongBits
Cut(n) == n % 2 ^ IntBits
Signed(n) == IF Cut(n) >= 2 ^ (IntBits - 1) THEN Cut(n) - 2 ^ IntBits ELSE Cut(n)

(* A number of no digits is zero; anything after the digits is refused. *)
IsNumber(text) == text.kind \in {"number", "empty"}
ValueOf(text)  == IF text.kind = "empty" THEN 0 ELSE text.value

Accepts(type, text) == text # None /\ (type = "string" \/ IsNumber(text))
Convert(type, text) ==
    CASE type = "bool"   -> ToULong(ValueOf(text)) # 0
      [] type = "int32"  -> Signed(ToLong(ValueOf(text)))
      [] type = "uint32" -> Cut(ToULong(ValueOf(text)))
      [] type = "string" -> text
(* The values a variable of each type may have. *)
IsOf(type, v) ==
    CASE type = "bool"   -> v \in BOOLEAN
      [] type = "int32"  -> v \in -(2 ^ (IntBits - 1)) .. 2 ^ (IntBits - 1) - 1
      [] type = "uint32" -> v \in 0 .. 2 ^ IntBits - 1
      [] type = "string" -> v.kind \in Kinds

(***************************************************************************)
(* parse_opts: the loop over getopt_long_only.  `types` are the options     *)
(* added with add_long_opt.  The state of the loop: the values stored so    *)
(* far, the option that still wants its text, whether a plain word was left *)
(* over, and whether the loop ended in a refusal.                           *)
(***************************************************************************)
Fill(types, state, name, text) ==
    IF Accepts(types[name], text)
      THEN [state EXCEPT !.values[name] = Convert(types[name], text),
                         !.pending = None]
      ELSE [state EXCEPT !.refused = TRUE]

(* An option that wants a text takes the next word whatever it is, the name *)
(* of another option too.                                                   *)
AsText(word) == IF word.name = None THEN word.text
                ELSE IF word.text = None THEN Word(word.name)
                ELSE Word(<<word.name, word.text>>)

(* Mutant of Take: the text behind "=" is overlooked. *)
TakeSpaced(types, state, word) ==
    IF state.refused THEN state
    ELSE IF state.pending # None THEN Fill(types, state, state.pending, AsText(word))
    ELSE IF word.name = None THEN [state EXCEPT !.left = TRUE]
    ELSE IF word.name \notin DOMAIN types THEN [state EXCEPT !.refused = TRUE]
    ELSE [state EXCEPT !.pending = word.name]

Take(types, state, word) ==
    IF state.refused THEN state
    ELSE IF state.pending # None THEN Fill(types, state, state.pending, AsText(word))
    ELSE IF word.name = None THEN [state EXCEPT !.left = TRUE]
    ELSE IF word.name \notin DOMAIN types THEN [state EXCEPT !.refused = TRUE]
    ELSE IF word.text # None THEN Fill(types, state, word.name, word.text)
    ELSE [state EXCEPT !.pending = word.name]

(* Whatever was stored before a refusal stays stored. *)
parse_opts(types, defaults, line) ==
    LET start == [values |-> defaults, pending |-> None, left |-> FALSE,
                  refused |-> FALSE]
        after[i \in 0 .. Len(line)] ==
            IF i = 0 THEN start ELSE Take(types, after[i - 1], line[i])
        end == after[Len(line)]
    IN  [values |-> end.values,
         ok |-> ~ end.refused /\ ~ end.left /\ end.pending = None]
=============================================================================
