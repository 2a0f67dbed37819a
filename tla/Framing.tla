------------------------------ MODULE Framing ------------------------------
(***************************************************************************)
(* Lines and $ frames (host/core/framing.py) and the bytes they travel as. *)
(* A text is a sequence of code points, what a port carries a sequence of  *)
(* bytes.                                                                  *)
(*                                                                         *)
(* A definition marked as a mutant is a bug one could write in place of    *)
(* the definition after it; no other definition uses it.                   *)
(***************************************************************************)
EXTENDS Integers, SequencesExt

LF == 10
CR == 13
Dollar == 36
Star == 42
Comma == 44
Replacement == 65533

\* What str.strip() removes: every character for which str.isspace() holds.
White == (9..13) \cup (28..32) \cup (8192..8202)
         \cup {133, 160, 5760, 8232, 8233, 8239, 8287, 12288}

Strip(text) == LET kept == {i \in DOMAIN text : text[i] \notin White}
               IN  IF kept = {} THEN <<>> ELSE SubSeq(text, Min(kept), Max(kept))

\* The pieces between the separators, each under the length of what is before it.
Pieces(text, separators) ==
    LET cuts == {i \in DOMAIN text : text[i] \in separators}
        end(before) == Min({i \in cuts : i > before} \cup {Len(text) + 1})
    IN  [before \in {0} \cup cuts |-> SubSeq(text, before + 1, end(before) - 1)]

\* The pieces that a separator ends, and the piece that none ends.
Ended(pieces) == Restrict(pieces, DOMAIN pieces \ {Max(DOMAIN pieces)})
Remainder(pieces) == pieces[Max(DOMAIN pieces)]

\* The lines that are not blank.
Lines(pieces) == {Strip(pieces[before]) : before \in DOMAIN pieces} \ {<<>>}

-----------------------------------------------------------------------------
(* UTF-8 *)

\* The characters of at most three bytes; no half of a surrogate pair is one.
Character == (0..65535) \ (55296..57343)

Utf8(c) == IF c < 128 THEN <<c>>
           ELSE IF c < 2048 THEN <<192 + c \div 64, 128 + (c % 64)>>
           ELSE <<224 + c \div 4096, 128 + ((c \div 64) % 64),
                  128 + (c % 64)>>

Encode(text) == FlattenSeq([i \in DOMAIN text |-> Utf8(text[i])])

\* A character of three bytes begins with one and continues with two of these.
Begins(bytes, i) == i \in DOMAIN bytes /\ bytes[i] \in 225..236
Continues(bytes, i) == i \in DOMAIN bytes /\ bytes[i] \in 128..191
IsWhole(bytes, i) == Begins(bytes, i) /\ Continues(bytes, i + 1) /\ Continues(bytes, i + 2)
IsInside(bytes, i) == /\ Continues(bytes, i)
                      /\ \/ Begins(bytes, i - 1)
                         \/ Continues(bytes, i - 1) /\ Begins(bytes, i - 2)

\* decode("utf-8", errors="replace"), for ASCII, the characters that begin with
\* the bytes 225 to 236, and what a damaged or cut one leaves: one replacement
\* character for the bytes that could have begun a character, one for every
\* other.
CharsAt(bytes, i) ==
    IF IsInside(bytes, i) THEN <<>>
    ELSE IF bytes[i] < 128 THEN <<bytes[i]>>
    ELSE IF IsWhole(bytes, i) THEN <<4096 * (bytes[i] - 224) + 64 * (bytes[i + 1] - 128)
                                       + (bytes[i + 2] - 128)>>
    ELSE <<Replacement>>

Decode(bytes) == FlattenSeq([i \in DOMAIN bytes |-> CharsAt(bytes, i)])

-----------------------------------------------------------------------------
(* Frames *)

\* The exclusive or of the bytes: bit by bit, the parity of how many have it.
Checksum(payload) ==
    LET having(bit) == {at \in (DOMAIN payload) \X (1..3) :
                           LET bytes == Utf8(payload[at[1]])
                           IN  /\ at[2] <= Len(bytes)
                               /\ (bytes[at[2]] \div bit) % 2 = 1}
        parity(bit) == Cardinality(having(bit)) % 2
    IN  parity(1) + 2 * parity(2) + 4 * parity(4) + 8 * parity(8) + 16 * parity(16)
        + 32 * parity(32) + 64 * parity(64) + 128 * parity(128)

HexDigit(n) == IF n < 10 THEN 48 + n ELSE 55 + n
Hex(n) == <<HexDigit(n \div 16), HexDigit(n % 16)>>
Upper(text) == [i \in DOMAIN text |-> IF text[i] \in 97..122 THEN text[i] - 32
                                                            ELSE text[i]]

\* Mutant: only the line feed is refused.
IsLineFeed(c) == c = LF

IsControl(c) == c < 32 \/ c = 127

\* build_line refuses a payload a control character would split.
Malformed(payload) == \E i \in DOMAIN payload : IsControl(payload[i])

BuildLine(payload) == <<Dollar>> \o payload \o <<Star>> \o Hex(Checksum(payload))
                      \o <<CR, LF>>

\* The star that ends the payload is the last.
EndOf(line) == Max({0} \cup {i \in DOMAIN line : line[i] = Star})

PayloadOf(line) == SubSeq(line, 2, EndOf(line) - 1)
GivenOf(line) == SubSeq(line, EndOf(line) + 1, Len(line))

\* Mutant: the checksums are compared by their last digit.
LastDigitsAgree(given, expected) ==
    given # <<>> /\ Last(Upper(given)) = Last(expected)

ChecksumsAgree(given, expected) == Upper(given) = expected

\* parse_line returns a command for a (stripped) line.
IsFrame(line) ==
    /\ line # <<>> /\ line[1] = Dollar
    /\ EndOf(line) > 2
    /\ ChecksumsAgree(GivenOf(line), Hex(Checksum(PayloadOf(line))))

Tokens(payload) == Pieces(payload, {Comma})

IsAscii(text) == ToSet(text) \subseteq 0..127

\* The pieces that are frames; there is one, and it holds the payload.
Frames(pieces) == {before \in DOMAIN pieces : IsFrame(Strip(pieces[before]))}
OnlyFrame(pieces, payload) ==
    \E before \in DOMAIN pieces : /\ Frames(pieces) = {before}
                                  /\ PayloadOf(Strip(pieces[before])) = payload

-----------------------------------------------------------------------------
(* What the board (tools/simulator/device_sim.py) makes of a line that is   *)
(* no frame: if its verb can be read it is refused by name.                *)

MaxSalvagedVerb == 12
IsVerb(token) == Len(token) <= MaxSalvagedVerb /\ ToSet(token) \subseteq 65..90

VerbOfBrokenLine(line) == Tokens(PayloadOf(line))[0]
IsSalvageable(line) == /\ line # <<>> /\ line[1] = Dollar /\ EndOf(line) > 0
                       /\ VerbOfBrokenLine(line) # <<>> /\ IsVerb(VerbOfBrokenLine(line))
=============================================================================
