---------------------------- MODULE ConfigItems ----------------------------
(***************************************************************************)
(* The board's configuration catalogue: the items default_store() creates, *)
(* how a text is coerced to a value of an item, and what sampling rate a   *)
(* configuration asks of, and gets from, the ADC.                          *)
(*                                                                         *)
(* A key is a pair <<name, channel>> (channel 0 for the board-wide items). *)
(* A value is a record tagged with its Python type; decimals are counted   *)
(* in thousandths.  A text is abstracted to what the parsers make of it:   *)
(* an integer literal, a decimal literal, "nan"/"inf", a true or false     *)
(* word, or any other text with its length and whether every character is  *)
(* allowed in a setting.                                                   *)
(***************************************************************************)
EXTENDS Integers, FiniteSetsExt

CONSTANTS
    Channel,      \* the analog channels, a subset of 0..6
    U32Max,       \* the largest u32 (TLC: the largest integer it holds)
    RateScale     \* rates are counted in 1/RateScale samples per second

ASSUME ChannelAssumption == Channel \subseteq 0..6
ASSUME ScaleAssumption == RateScale \in Nat \ {0} /\ U32Max \in Nat

-----------------------------------------------------------------------------
(* Values and texts *)

Bool(b)  == [type |-> "bool",  bool |-> b]
Int32(n) == [type |-> "int",   int |-> n]
Float(m) == [type |-> "float", milli |-> m]
Str(t)   == [type |-> "str",   text |-> t]

IntText(n)                == [form |-> "int", int |-> n]
DecText(m)                == [form |-> "decimal", milli |-> m]
NotFinite                 == [form |-> "nonfinite"]
TrueWord                  == [form |-> "true"]
FalseWord                 == [form |-> "false"]
OtherText(length, clean) == [form |-> "text", length |-> length, clean |-> clean]

AnyText == [form : {"int"}, int : Int] \cup [form : {"decimal"}, milli : Int]
           \cup {NotFinite, TrueWord, FalseWord}
           \cup [form : {"text"}, length : Nat, clean : BOOLEAN]

-----------------------------------------------------------------------------
(* The catalogue *)

NoRange == <<>>

Item(vtype, default, range) ==
    [vtype |-> vtype, default |-> default, range |-> range,
     choices |-> {}, readonly |-> FALSE, interlocked |-> FALSE]

Choice(default, choices) ==
    [Item("enum", Int32(default), NoRange) EXCEPT !.choices = choices]

Board(name)      == <<name, 0>>
Ain(ch, name)    == <<name, ch>>

DrateChoices ==
    {2, 5, 10, 15, 25, 30, 50, 60, 100, 500, 1000, 2000, 3750, 7500}

DefaultFieldMask == 698       \* bits 1, 3, 4, 5, 7 and 9

BoardItems ==
    [ name \in {"dev.id", "tx.fields", "tx.period_ms", "tx.float_digits",
                "adc.pga", "adc.drate", "pwr.24v", "pwr.14v9", "pwr.5v",
                "pwr.seq_delay_ms"} |->
      CASE name = "dev.id"       -> Item("str", Str(IntText(1)), <<0, 15>>)
        [] name = "tx.fields"    -> Item("uint", Int32(DefaultFieldMask), <<0, U32Max>>)
        [] name = "tx.period_ms" -> Item("uint", Int32(100), <<10, 10000>>)
        [] name = "tx.float_digits" -> Item("uint", Int32(4), <<2, 6>>)
        [] name = "adc.pga"      -> Choice(1, {1, 2, 4, 8, 16, 32, 64})
        [] name = "adc.drate"    -> Choice(60, DrateChoices)
        [] name = "pwr.24v"      -> Item("bool", Bool(FALSE), NoRange)
        [] name = "pwr.14v9"     -> Item("bool", Bool(FALSE), NoRange)
        [] name = "pwr.5v"       -> [Item("bool", Bool(TRUE), NoRange) EXCEPT
                                        !.readonly = TRUE, !.interlocked = TRUE]
        [] name = "pwr.seq_delay_ms" -> Item("uint", Int32(500), <<0, 5000>>) ]

ChannelItem(ch, name) ==
    CASE name = "enabled"   -> Item("bool", Bool(ch = 0), NoRange)
      [] name = "period_ms" -> Item("uint", Int32(100), <<10, 60000>>)
      [] name = "zero"      -> Item("f32", Float(4000), NoRange)
      [] name = "scale"     -> Item("f32", Float(1000), NoRange)
      [] name = "unit"      -> Item("str", Str(OtherText(0, TRUE)), <<0, 7>>)

ChannelNames == {"enabled", "period_ms", "zero", "scale", "unit"}

CatalogKey == ((DOMAIN BoardItems) \X {0}) \cup (ChannelNames \X Channel)

ItemOf(key) == IF key[1] \in ChannelNames THEN ChannelItem(key[2], key[1])
                                          ELSE BoardItems[key[1]]

-----------------------------------------------------------------------------
(* _coerce: which texts an item accepts, and the value each becomes. *)

IsTrueWord(text)  == text = TrueWord  \/ text = IntText(1)
IsFalseWord(text) == text = FalseWord \/ text = IntText(0)

\* The length of a text and whether every character of it may appear in a
\* setting; a numeral of the model is at most five characters long.
LengthOf(text) == CASE text.form = "text" -> text.length
                    [] text.form = "int"  -> IF text.int < 10 THEN 1 ELSE 5
                    [] OTHER              -> 5
Clean(text)    == text.form # "text" \/ text.clean

InRange(item, n) == item.range[1] <= n /\ n <= item.range[2]

ItemAccepts(key, text) ==
    LET item == ItemOf(key) IN
    \/ item.vtype = "bool" /\ (IsTrueWord(text) \/ IsFalseWord(text))
    \/ item.vtype = "str"  /\ Clean(text) /\ LengthOf(text) <= item.range[2]
    \/ item.vtype = "enum" /\ text.form = "int" /\ text.int \in item.choices
    \/ item.vtype = "uint" /\ text.form = "int" /\ InRange(item, text.int)
    \/ item.vtype = "f32"  /\ text.form \in {"int", "decimal"}

ItemValue(key, text) ==
    LET item == ItemOf(key) IN
    CASE item.vtype = "bool"            -> Bool(IsTrueWord(text))
      [] item.vtype = "str"             -> Str(text)
      [] item.vtype \in {"enum", "uint"} -> Int32(text.int)
      [] item.vtype = "f32"             -> Float(IF text.form = "int"
                                                 THEN 1000 * text.int
                                                 ELSE text.milli)

\* _to_raw: the text a value read from the file is validated as.
RawText(value) ==
    CASE value.type = "bool"  -> IF value.bool THEN TrueWord ELSE FalseWord
      [] value.type = "int"   -> IntText(value.int)
      [] value.type = "float" -> DecText(value.milli)
      [] value.type = "str"   -> value.text

-----------------------------------------------------------------------------
(* capacity.py.  Rates are whole numbers of 1/RateScale samples per second; *)
(* a sum of whole numbers exceeds a rate exactly when it exceeds its floor. *)

SettlingMs == 1

\* 1000 / (1000/drate + settling), times the safety margin 0.8.
AvailableRate(config) ==
    LET drate == config[Board("adc.drate")].int
    IN  (RateScale * 800 * drate) \div (1000 + SettlingMs * drate)

RequiredRate(config) ==
    LET enabled == {ch \in Channel : config[Ain(ch, "enabled")].bool}
        rate(ch) == (RateScale * 1000) \div config[Ain(ch, "period_ms")].int
    IN  MapThenSumSet(rate, enabled)
=============================================================================
