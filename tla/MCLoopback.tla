----------------------------- MODULE MCLoopback -----------------------------
(***************************************************************************)
(* The loopback with an item of every type of default_store(), and for     *)
(* each the values at the edges of what it accepts.                        *)
(***************************************************************************)
EXTENDS LoopbackSession

Mask == Board("tx.fields")
Period == Board("tx.period_ms")
Drate == Board("adc.drate")
Fan == Board("pwr.5v")

MCKey == {Mask, Period, Drate, Fan} \cup
         ({"enabled", "period_ms", "zero", "unit"} \X Channel)

\* A field mask, a slow board, one channel on and off, a data rate and a channel
\* period beyond the capacity; and texts each type refuses or keeps.
MCAttempts ==
    ({Mask} \X {IntText(0), IntText(DefaultFieldMask), NotFinite}) \cup
    ({Period} \X {IntText(9), IntText(100), IntText(2000), IntText(10001)}) \cup
    ({Drate} \X {IntText(2), IntText(3), IntText(60), DecText(60000)}) \cup
    ({Fan} \X {TrueWord, FalseWord, OtherText(3, TRUE)}) \cup
    ({<<"enabled", 0>>} \X {IntText(1), FalseWord, IntText(2)}) \cup
    ({<<"period_ms", 0>>} \X {IntText(10), IntText(100), IntText(60001)}) \cup
    ({<<"zero", 0>>} \X {NotFinite, IntText(4), OtherText(0, TRUE)}) \cup
    ({<<"unit", 0>>} \X {OtherText(0, TRUE), OtherText(8, TRUE), OtherText(3, FALSE)})
    \cup ({UnknownKey} \X {IntText(1)})

MCText == {attempt[2] : attempt \in MCAttempts}
=============================================================================
