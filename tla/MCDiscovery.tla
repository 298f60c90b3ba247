---------------------------- MODULE MCDiscovery ----------------------------
(***************************************************************************)
(* Manifests of one or two tools, with names that coincide once they are   *)
(* sanitized, and one parameter or two.                                    *)
(***************************************************************************)
EXTENDS Discovery

CONSTANTS euro, drop, climb,   \* plain texts
          quoted,              \* "O'Brien": no literal
          pair,                \* "EUR', '..": two members, when it is pasted
          currencies,          \* a plain pattern
          digits,              \* "^\d+$": no literal
          asked                \* "^EUR\?$", which reads as "^EUR?$"

\* "x", "x_y", "x-y", "y", "z", "y_z" and "y-z".
x == <<"x">>
y == <<"y">>
z == <<"z">>
Joined(a, char, b) == a \o <<char>> \o b

Plain == [type |-> "string", enum |-> {}, minimum |-> Unset, maximum |-> Unset,
        pattern |-> Unset, words |-> {}]
Amount == [Plain EXCEPT !.type = "number"]

\* What a parameter may look like.
Schemas ==
  { Plain, Amount,
    [Amount EXCEPT !.minimum = 0, !.maximum = 6],
    [Amount EXCEPT !.minimum = 2],
    [Amount EXCEPT !.maximum = 12],
    [Amount EXCEPT !.words = {"file"}],
    [Plain EXCEPT !.enum = {euro}],
    [Plain EXCEPT !.enum = {euro, quoted}],
    [Plain EXCEPT !.enum = {drop, pair}],
    [Plain EXCEPT !.pattern = asked],
    [Plain EXCEPT !.enum = {euro, climb}, !.pattern = currencies, !.words = {"code", "path"}],
    [Plain EXCEPT !.pattern = digits, !.words = {"sql"}] }

Tool(name, params, schemas) == [name |-> name, properties |-> [p \in params |-> schemas[p]]]

Singles ==
  {<<Tool(x, params, schemas)>> :
     params \in {{}, {y, z}}, schemas \in [{y, z} -> Schemas]}

Pairs ==
  {<<Tool(a, {p}, [i \in {p} |-> s]), Tool(b, {q}, [i \in {q} |-> r])>> :
     a \in {<<>>, x, Joined(x, "-", y)}, p \in {y, Joined(y, "_", z), Joined(y, "-", z)},
     b \in {x, Joined(x, "_", y)}, q \in {y, z},
     s \in {Plain, Amount, [Amount EXCEPT !.minimum = 0], [Plain EXCEPT !.enum = {euro}]},
     r \in {Plain, Amount, [Plain EXCEPT !.enum = {quoted}]}}

SomeManifests == {<<>>} \cup Singles \cup Pairs

SomeValues ==
  {[type |-> "number", value |-> n] : n \in {-3, 0, 1, 2, 3, 6, 7}}
  \cup {[type |-> "string", value |-> s] : s \in {euro, quoted, pair, drop, climb}}
  \cup {[type |-> "array", value |-> euro], [type |-> "other", value |-> euro]}

Accepted == [p \in {currencies, digits, asked} |-> IF p = currencies THEN {euro, climb} ELSE {}]

\* What the members and the patterns read as.
Members(m) == IF m = pair THEN {euro, climb} ELSE {m}

ReadEnums ==
  [enum \in SUBSET Texts |->
     IF quoted \in enum THEN Garbled ELSE Strings(UNION {Members(m) : m \in enum})]

ReadPatterns ==
  [p \in Patterns |->
     CASE p = currencies -> Strings(Accepts[p])
       [] p = digits -> Garbled
       [] p = asked -> Strings({euro})]
=============================================================================
