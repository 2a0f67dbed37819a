--------------------------- MODULE MCConfigStore ---------------------------
(***************************************************************************)
(* The store of default_store() with the items the capacity and the        *)
(* interlock turn on: two channels of the seven, the data rate and the 5 V *)
(* rail.                                                                   *)
(***************************************************************************)
EXTENDS ConfigStore, ConfigItems

Drate == Board("adc.drate")
Fan == Board("pwr.5v")

MCKey == {Drate, Fan} \cup ({"enabled", "period_ms"} \X Channel)

\* Data rates and periods 30, 60 and 100, a number that is neither, the words of a
\* boolean and a text that is a value of none of these items.  At 60 samples per
\* second two channels of period 30 exceed the capacity together and not alone;
\* at 30 one does.
MCText == {IntText(n) : n \in {7, 30, 60, 100}} \cup
          {TrueWord, FalseWord, OtherText(3, TRUE)}

MCDefault == [key \in MCKey |-> ItemOf(key).default]
MCInterlocked == {key \in MCKey : ItemOf(key).interlocked}
MCReadOnly == {key \in MCKey : ItemOf(key).readonly}

\* What a hand-edited or corrupted file may hold: the fan switched off, a
\* combination out of reach, values out of range, a part of the keys with an
\* unknown one, a value of another type.
MCFileContents ==
    { [MCDefault EXCEPT ![Fan] = Bool(FALSE)],
      [MCDefault EXCEPT ![Drate] = Int32(30), ![Ain(0, "period_ms")] = Int32(30)],
      [MCDefault EXCEPT ![Drate] = Int32(100), ![Ain(0, "period_ms")] = Int32(7)],
      [key \in {Drate, UnknownKey} |-> Int32(100)],
      [key \in {Ain(0, "period_ms")} |-> Str(OtherText(3, TRUE))] }

\* What a store does next does not depend on how its last command ended: no action
\* reads reply, and the one property about it reads reply', which TLC evaluates on
\* every step, also on one into a state it knows.  (The conjunct of TypeOK about
\* reply is evaluated on one state of each class; it is proved for all.)
MCView == <<up, current, dirty, loadFailed, rejected, file, saved, edited>>
=============================================================================
