---------------------------- MODULE ConfigSchema ----------------------------
(***************************************************************************)
(* The host's validator (host/core/config_schema.py).  It knows no setting *)
(* by itself: it is built from the lines of the catalogue the board sends, *)
(* and it repeats in code of its own the board's rules for a text.         *)
(*                                                                         *)
(* A definition marked as a mutant is a bug one could write in place of    *)
(* the definition after it; no other definition uses it.                   *)
(***************************************************************************)
EXTENDS ConfigItems

\* The line of an item: it says nothing of an interlock.
CatalogLine(key, value) ==
    LET item == ItemOf(key) IN
    [key |-> key, vtype |-> item.vtype, cur |-> value, ro |-> item.readonly,
     range |-> item.range, choices |-> item.choices]

CatalogLines(config) == {CatalogLine(key, config[key]) : key \in DOMAIN config}

ParseCatalog(lines) ==
    [key \in {line.key : line \in lines} |->
        CHOOSE line \in lines : line.key = key]

\* Mutant: the numeral 1 is left out.
TrueWordOnly == {TrueWord}

TrueWords  == {TrueWord, IntText(1)}
FalseWords == {FalseWord, IntText(0)}

\* Mutant: a number that is not finite passes both comparisons of a range.
NotFinitePasses(text) == text.form \in {"int", "decimal", "nonfinite"}

IsReal(text) == text.form \in {"int", "decimal"}

HostAccepts(item, text) ==
    \/ item.vtype = "bool" /\ text \in TrueWords \cup FalseWords
    \/ item.vtype = "str"  /\ Clean(text) /\ ~(LengthOf(text) > item.range[2])
    \/ item.vtype = "enum" /\ \E n \in item.choices : text = IntText(n)
    \/ item.vtype = "uint" /\ text.form = "int"
                           /\ ~(text.int < item.range[1] \/ text.int > item.range[2])
    \/ item.vtype = "f32"  /\ IsReal(text)

HostValue(item, text) ==
    CASE item.vtype = "bool" -> Bool(text \in TrueWords)
      [] item.vtype = "str"  -> Str(text)
      [] item.vtype = "f32"  -> Float(IF text.form = "int" THEN 1000 * text.int
                                                           ELSE text.milli)
      [] OTHER               -> Int32(text.int)

Validate(schema, key, text) ==
    IF key \notin DOMAIN schema THEN "UNKNOWN_KEY"
    ELSE IF schema[key].ro THEN "READONLY"
    ELSE IF HostAccepts(schema[key], text) THEN "OK" ELSE "RANGE"
=============================================================================
