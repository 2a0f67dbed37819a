---------------------------- MODULE MCSerialCall ----------------------------
(***************************************************************************)
(* A call with every argument of at most two characters from those that    *)
(* mean something to the framing, and an answer with every byte damaged    *)
(* into one that does, a digit, one of another case, and half a character. *)
(***************************************************************************)
EXTENDS SerialCall

MCCharacters == {LF, CR, 9, 32, Dollar, Star, Comma, 72, 127, 133, 8232, WideChar}

MCArguments == {<<>>} \cup {<<c>> : c \in MCCharacters}
               \cup {<<c, d>> : c \in MCCharacters, d \in MCCharacters}

MCDamages == {LF, Dollar, Star, 55, 97, 234}

\* Inside the wide character, after the JSON line, before the last byte, and
\* after it.
MCBursts == {2, 7, Len(Answer) - 1, Len(Answer)}
=============================================================================
