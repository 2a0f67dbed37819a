----------------------------- MODULE SerialCall -----------------------------
(***************************************************************************)
(* One call of BoardService.send over a SerialTransport (host/service/     *)
(* board_service.py), down to the bytes: the command's frame on its way to *)
(* the board's line splitter, the answer, a JSON line with a character of  *)
(* three bytes and an acknowledgement, on its way back, read in chunks as  *)
(* it arrives; at most one byte of it damaged.                             *)
(***************************************************************************)
EXTENDS CallTiming, Framing

CONSTANTS
    Arguments,      \* the texts sent as an argument of the command
    Damages,        \* the bytes a damaged byte may become
    Bursts,         \* after how many bytes the line may pause
    MaxWall         \* bounds the clock, past the end of every call

VARIABLES
    wall, phase, since,   \* as in SendLoop; phase is "writing" before, and
                          \*   "refused" if the command is malformed
    heard,        \* history: what came of the command, whole and with one byte
                  \*   damaged, or None
    damage,       \* the damaged byte of the answer, or None
    arrived,      \* how many bytes of the answer have arrived
    upTo,         \* ... had arrived when in_waiting was looked at
    taken,        \* ... have been read
    buf,          \* SerialTransport._buf
    completeAt,   \* history: when the acknowledgement had arrived, or None
    cut,          \* history: has a read ended inside the wide character?
    record,       \* history: the JSON line was taken in "whole" or "mangled"
    stray         \* history: was a frame accepted that the board did not send?

callVars == <<wall, phase, since>>
vars == <<callVars, heard, damage, arrived, upTo, taken, buf, completeAt, cut,
          record, stray>>

CFG == <<67, 70, 71>>
SACK == <<83, 65, 67, 75>>
OK == <<79, 75>>
Joined(a, b) == a \o <<Comma>> \o b

WideChar == 44032                          \* one syllable of a label
JsonLine == <<123, WideChar, 125>>         \* an object that holds it
AckPayload == Joined(SACK, Joined(CFG, OK))
Answer == Encode(JsonLine \o <<CR, LF>> \o BuildLine(AckPayload))

\* Damaged bytes that Decode knows; no pause outside of the answer.
ASSUME WireAssumption == /\ Arguments \subseteq Seq(Character)
                         /\ Damages \subseteq (0..191) \cup (225..236)
                         /\ Bursts \subseteq 0..Len(Answer)

\* How a byte of the answer may be damaged, and the answer that comes of it.
Damage == {[at |-> at, byte |-> byte] : at \in 1..Len(Answer), byte \in Damages}
Wire == [d \in Damage \cup {None} |->
            IF d = None THEN Answer ELSE [Answer EXCEPT ![d.at] = d.byte]]

Init == /\ wall = 0 /\ since = 0 /\ phase = "writing"
        /\ heard = None /\ damage = None
        /\ arrived = 0 /\ upTo = 0 /\ taken = 0 /\ buf = <<>>
        /\ completeAt = None /\ cut = FALSE /\ record = None /\ stray = FALSE

-----------------------------------------------------------------------------
(* The command *)

\* How str.splitlines cuts a text; what of it build_line lets through.
LineBreaks == (10..13) \cup (28..30) \cup {133, 8232, 8233}
Separators == {133, 8232, 8233}

\* What the server cuts out of the bytes of the command, and how it answers a
\* line that is no frame.
ServerPieces(bytes) == Ended(Pieces(Decode(bytes), {LF}))
ERR == <<69, 82, 82>>
CHECKSUM == <<67, 72, 69, 67, 75, 83, 85, 77>>
Refusal(line) ==
    Joined(SACK, Joined(VerbOfBrokenLine(line), Joined(ERR, CHECKSUM)))

\* Without delimiters of its own a text cannot hold a frame.
IsPlain(text) == IsAscii(text) /\ ToSet(text) \cap {Dollar, Star} = {}

\* With any one byte damaged the command is heard as it was sent or not at all,
\* and every answer to what is left of it can be built and parsed.
HeardOrRefused(payload) ==
    LET bytes == Encode(BuildLine(payload)) IN
    \A at \in DOMAIN bytes, byte \in Damages :
        LET pieces == ServerPieces([bytes EXCEPT ![at] = byte]) IN
        /\ Frames(pieces) = {} \/ OnlyFrame(pieces, payload)
        /\ \A line \in Lines(pieces) : ~IsFrame(line) /\ IsSalvageable(line) =>
               LET reply == Strip(BuildLine(Refusal(line)))
               IN  ~Malformed(Refusal(line)) /\ IsFrame(reply)

Write(argument) ==
    LET payload == Joined(CFG, argument)
        line    == BuildLine(payload)
    IN /\ phase = "writing"
       /\ IF Malformed(payload)
          THEN phase' = "refused" /\ UNCHANGED <<heard, damage>>
          ELSE /\ phase' = "looking"
               /\ heard' = [serial    |-> OnlyFrame(Ended(Pieces(line, {LF})), payload),
                            loopback  |-> OnlyFrame(Pieces(line, LineBreaks), payload),
                            separated |-> ToSet(argument) \cap Separators # {},
                            sound     |-> IsPlain(argument) => HeardOrRefused(payload)]
               /\ damage' \in Damage \cup {None}
       /\ UNCHANGED <<wall, since, arrived, upTo, taken, buf, completeAt, cut,
                      record, stray>>

-----------------------------------------------------------------------------
(* The loop of send *)

Over == phase \in {"answered", "raised", "refused"}

\* Mutant: the deadline is on the device's clock, which stands still.
ExpiredOnDeviceClock == FALSE

Expired == wall >= Timeout

Look == /\ phase = "looking"
        /\ phase' = "reading"
        /\ upTo' = arrived
        /\ UNCHANGED <<wall, since, heard, damage, arrived, taken, buf, completeAt,
                       cut, record, stray>>

\* Mutant: one byte is read, whatever waits.
ReadsOneByte == IF arrived > taken THEN 1 ELSE 0

\* in_waiting or 1: what waited at the look is read; if nothing did, the port is
\* waited on for one byte, in vain if its timeout ends first.
ReadLength == IF upTo > taken THEN upTo - taken
              ELSE IF arrived > taken THEN 1 ELSE 0

\* Mutant: what is left after the last line feed is dropped.
DropsRest(pieces) == <<>>

Rest(pieces) == Remainder(pieces)

\* _ingest: a frame answers the call if it acknowledges its verb.
Acknowledges(line) == /\ IsFrame(line)
                      /\ LET tokens == Tokens(PayloadOf(line))
                             second == Len(SACK) + 1
                         IN  tokens[0] = SACK /\ second \in DOMAIN tokens
                                              /\ tokens[second] = CFG

\* How many bytes of an answer it takes until its acknowledgement can be read;
\* more than there are if that is damaged.
Needed == [d \in Damage \cup {None} |->
    Min({n \in 0..Len(Answer) :
            \E line \in Lines(Ended(Pieces(Decode(SubSeq(Wire[d], 1, n)), {LF}))) :
                Acknowledges(line)} \cup {Len(Answer) + 1})]

IsRecord(line) == /\ line[1] = 123 /\ Last(line) = 125
                  /\ \A i \in DOMAIN line : line[i] >= 32

Read ==
    LET pieces == Pieces(buf \o Decode(SubSeq(Wire[damage], taken + 1, taken + ReadLength)), {LF})
        lines  == Lines(Ended(pieces))
    IN /\ phase = "reading"
       /\ taken' = taken + ReadLength
       /\ buf' = Rest(pieces)
       /\ phase' = IF \E line \in lines : Acknowledges(line) THEN "answered"
                                                             ELSE "checking"
       /\ cut' = (cut \/ taken' \in {2, 3})
       /\ record' = IF \E line \in lines : IsRecord(line)
                    THEN IF JsonLine \in lines THEN "whole" ELSE "mangled"
                    ELSE record
       /\ stray' = (stray \/ \E line \in lines :
                        IsFrame(line) /\ PayloadOf(line) # AckPayload)
       /\ UNCHANGED <<wall, since, heard, damage, arrived, upTo, completeAt>>

rest == <<heard, damage, arrived, upTo, taken, buf, completeAt, cut, record, stray>>

GiveUp == /\ phase = "checking" /\ Expired
          /\ phase' = "raised"
          /\ UNCHANGED <<wall, since, rest>>

Sleep == /\ phase = "checking" /\ ~Expired
         /\ phase' = "sleeping" /\ since' = wall
         /\ UNCHANGED <<wall, rest>>

Wake == /\ phase = "sleeping"
        /\ phase' = "looking" /\ since' = wall
        /\ UNCHANGED <<wall, rest>>

-----------------------------------------------------------------------------
(* The line and the clock *)

BytesArrive(count) ==
    /\ phase # "writing" /\ ~Over
    /\ heard.serial
    /\ arrived < count
    /\ arrived' = count
    /\ completeAt' = IF arrived < Needed[damage] /\ Needed[damage] <= count
                      THEN wall ELSE completeAt
    /\ UNCHANGED <<callVars, heard, damage, upTo, taken, buf, cut, record, stray>>

TimePasses ==
    /\ phase # "writing" /\ ~Over
    /\ wall - since < (IF phase = "sleeping" THEN MaxSleep ELSE MaxPump)
    /\ wall < MaxWall
    /\ wall' = wall + 1
    /\ UNCHANGED <<phase, since, rest>>

HostStep == Look \/ Read \/ GiveUp \/ Sleep \/ Wake

Next == \/ \E argument \in Arguments : Write(argument)
        \/ HostStep \/ TimePasses
        \/ \E count \in Bursts : BytesArrive(count)

\* Mutant: the port is opened without a timeout, and a read may wait for ever.
HostMovesOffPort ==
    /\ phase \in {"looking", "checking", "sleeping"}
    /\ phase' \in {"looking", "reading", "checking", "sleeping", "answered", "raised"} \ {phase}

\* What HostStep, which is possible in these phases and no other, does to the
\* phase.
HostMoves == LET running == {"looking", "reading", "checking", "sleeping"} IN
             /\ phase \in running
             /\ phase' \in (running \cup {"answered", "raised"}) \ {phase}

\* The thread of the call runs, and the clock goes on; the board and the line
\* need not.
Spec == Init /\ [][Next]_vars /\ WF_phase(HostMoves) /\ WF_vars(TimePasses)

-----------------------------------------------------------------------------
(* Properties *)

Loop == INSTANCE SendLoop WITH
    phase  <- IF phase \in {"writing", "refused"} THEN "looking" ELSE phase,
    answer <- completeAt,
    seen   <- upTo >= Needed[damage]

\* The call over the bytes is the loop of SendLoop: wherever the reads cut the
\* answer, it is taken at the first look that finds all of it arrived, or by
\* the read that waited for the byte it lacked; an acknowledgement that is damaged
\* is as good as none.
ImplementsSendLoop == Loop!Init /\ [][Loop!Next]_(Loop!vars)

\* A call ends at the latest one sleep and one pump after its time is up, even
\* if the board says nothing.
WaitBounded == Loop!WaitBounded

\* A call that raises "no answer" has missed no answer that had arrived
\* undamaged one pump before its time was up.
AnsweredInTime == Loop!AnsweredInTime

\* Every call that was written ends.
EveryCallEnds == phase = "looking" ~> Over

\* One damaged byte, a damaged delimiter included, never makes a frame the board
\* did not send.
AcceptedWasSent == ~stray

\* An undamaged JSON line is taken in whatever the chunks are; its wide
\* character is lost exactly if a read ended inside it.
ReadsWhatWasSent ==
    damage = None /\ phase \in {"checking", "answered", "raised"} /\ taken >= 7 =>
        record = (IF cut THEN "mangled" ELSE "whole")

\* A command with one byte damaged, a delimiter included, is carried out as it
\* was sent or refused, and refusing it raises nothing on the board, if its
\* argument is plain.  Beyond ASCII the replacement characters of a damaged
\* command may have the checksum of the original; and a delimiter in the argument
\* may begin a frame of its own: $CFG,J$H*48 with the J damaged into a line feed
\* leaves $H*48.
DamagedCommandRefused == heard # None => heard.sound

\* One call of build_line is one line of the board's serial port and one of
\* LoopbackTransport.write, which cuts also at the line separators of Unicode
\* that build_line does not refuse; that line is the command that was sent.
OneCallOneLine ==
    heard # None => heard.serial /\ (heard.loopback \/ heard.separated)
=============================================================================
