------------------------ MODULE ServiceSessionProofs ------------------------
(***************************************************************************)
(* Theorems about the service and the board on a serial line that loses,   *)
(* damages and delays lines, for every catalogue, every set of calls and   *)
(* every number of commands, records and faults.                           *)
(***************************************************************************)
EXTENDS ServiceSession, FiniteSetTheorems, SequenceTheorems, WellFoundedInduction,
        TLAPS

-----------------------------------------------------------------------------
(* The lines *)

Line == SackLine \cup PayloadLine \cup CatalogLines \cup TelemetryLine \cup {Garbled}

BoardSub == Calls \cup {"HB"}
CommandLine == [id : Number, sub : BoardSub]
               \cup [id : Number, sub : {"garbled"}, was : BoardSub]

\* The lines that answer a command.
Numbered(line) == line.kind \in {"sack", "payload", "catalog"}

\* The verb a command was sent with.
CommandVerb(command) ==
    VerbOf(IF command.sub = "garbled" THEN command.was ELSE command.sub)

LEMMA VerbTypes ==
    /\ \A sub \in Calls : VerbOf(sub) \in {"STAT", "CFG"}
    /\ \A sub \in BoardSub : VerbOf(sub) \in Verb
    /\ \A command \in CommandLine : CommandVerb(command) \in Verb
<1>1. \A sub \in Calls : VerbOf(sub) \in {"STAT", "CFG"}
      BY SessionAssumption DEF VerbOf
<1>2. \A sub \in BoardSub : VerbOf(sub) \in Verb
      BY <1>1 DEF BoardSub, VerbOf, Verb
<1>3. \A command \in CommandLine : CommandVerb(command) \in Verb
  <2>1. "garbled" \notin BoardSub
        BY SessionAssumption DEF BoardSub
  <2>2. ASSUME NEW command \in CommandLine
        PROVE  (IF command.sub = "garbled" THEN command.was ELSE command.sub) \in BoardSub
        BY <2>1 DEF CommandLine
  <2>3. QED
        BY <1>2, <2>2 DEF CommandVerb
<1>4. QED
      BY <1>1, <1>2, <1>3

LEMMA LineTypes ==
    ASSUME NEW line \in Line
    PROVE  /\ line.kind \in {"sack", "payload", "catalog", "telemetry", "garbled"}
           /\ line.kind = "sack" => line \in SackLine
           /\ line.kind = "payload" => line \in PayloadLine
           /\ line.kind = "catalog" => line \in CatalogLines
           /\ line.kind = "telemetry" => line \in TelemetryLine
           /\ line.kind = "garbled" <=> line = Garbled
           /\ Numbered(line) => line.id \in Number
BY DEF Line, SackLine, PayloadLine, CatalogLines, TelemetryLine, Garbled, Numbered

-----------------------------------------------------------------------------
(* What the line leaves of the lines in transit *)

Increasing(f, n, m) ==
    /\ f \in [1..n -> 1..m]
    /\ \A i, j \in 1..n : i < j => f[i] < f[j]

\* t is what is left of s when some of its elements are dropped.
Thinned(t, s) ==
    \E f : /\ Increasing(f, Len(t), Len(s))
          /\ \A i \in 1..Len(t) : t[i] = s[f[i]]

\* t is what is left of the lines s when some are lost and some damaged.
Spoilt(t, s) ==
    \E f : /\ Increasing(f, Len(t), Len(s))
          /\ \A i \in 1..Len(t) : t[i] \in {s[f[i]], Garbled}

\* ... and of the commands s.
SpoiltCommand(c, command) ==
    /\ c.id = command.id /\ CommandVerb(c) = CommandVerb(command)
    /\ c = command \/ c.sub = "garbled"
SpoiltCommands(t, s) ==
    \E f : /\ Increasing(f, Len(t), Len(s))
          /\ \A i \in 1..Len(t) : SpoiltCommand(t[i], s[f[i]])

LEMMA TailKeepsOrder ==
    ASSUME NEW S, NEW s \in Seq(S), s # <<>>
    PROVE  /\ Tail(s) \in Seq(S) /\ Len(Tail(s)) = Len(s) - 1
           /\ \A i \in DOMAIN Tail(s) : Tail(s)[i] = s[i + 1] /\ i + 1 \in DOMAIN s
           /\ \A i \in DOMAIN s : i # 1 => i - 1 \in DOMAIN Tail(s) /\ s[i] = Tail(s)[i - 1]
           /\ 1 \in DOMAIN s /\ Head(s) = s[1] /\ s[1] \in S
OBVIOUS

\* The part of s after its n-th element.
LEMMA SuffixKeepsOrder ==
    ASSUME NEW S, NEW s \in Seq(S), NEW n \in 0..Len(s)
    PROVE  LET rest == SubSeq(s, n + 1, Len(s)) IN
           /\ rest \in Seq(S) /\ Len(rest) = Len(s) - n /\ Thinned(rest, s)
           /\ \A i \in 1..Len(rest) : rest[i] = s[i + n]
<1> DEFINE rest == SubSeq(s, n + 1, Len(s))
           at == [i \in 1..Len(rest) |-> i + n]
<1>1. /\ rest \in Seq(S) /\ Len(rest) = Len(s) - n
      /\ \A i \in 1..Len(rest) : rest[i] = s[i + n]
      OBVIOUS
<1> HIDE DEF rest
<1>2. Increasing(at, Len(rest), Len(s)) /\ \A i \in 1..Len(rest) : rest[i] = s[at[i]]
      BY <1>1 DEF Increasing
<1>3. Thinned(rest, s)
      BY <1>2, Zenon DEF Thinned
<1>4. QED
      BY <1>1, <1>3 DEF rest

\* s without its n-th element.
LEMMA RemoveKeepsOrder ==
    ASSUME NEW S, NEW s \in Seq(S), NEW n \in 1..Len(s)
    PROVE  LET rest == RemoveAt(s, n) IN
           /\ rest \in Seq(S) /\ Len(rest) = Len(s) - 1 /\ Thinned(rest, s)
           /\ \A i \in 1..Len(s) : i # n =>
                 \E j \in 1..Len(rest) : rest[j] = s[i]
<1> DEFINE before == SubSeq(s, 1, n - 1)
           after == SubSeq(s, n + 1, Len(s))
           rest == before \o after
           at == [i \in 1..Len(rest) |-> IF i < n THEN i ELSE i + 1]
<1>1. /\ before \in Seq(S) /\ Len(before) = n - 1
      /\ \A i \in 1..n - 1 : before[i] = s[i]
      OBVIOUS
<1>2. /\ after \in Seq(S) /\ Len(after) = Len(s) - n
      /\ \A i \in 1..Len(s) - n : after[i] = s[i + n]
      OBVIOUS
<1> HIDE DEF before, after
<1>3. /\ rest \in Seq(S) /\ Len(rest) = Len(s) - 1
      /\ \A i \in 1..n - 1 : rest[i] = s[i]
      /\ \A i \in n..Len(s) - 1 : rest[i] = after[i - (n - 1)]
  <2>1. /\ rest \in Seq(S) /\ Len(rest) = Len(before) + Len(after)
        /\ \A i \in 1..Len(before) + Len(after) :
              rest[i] = IF i <= Len(before) THEN before[i] ELSE after[i - Len(before)]
        BY <1>1, <1>2, ConcatProperties, Zenon
  <2>2. Len(before) = n - 1 /\ Len(before) + Len(after) = Len(s) - 1
        BY <1>1, <1>2
  <2>3. QED
        BY <1>1, <2>1, <2>2
<1>4. \A i \in n..Len(s) - 1 : rest[i] = s[i + 1]
  <2> SUFFICES ASSUME NEW i \in n..Len(s) - 1 PROVE rest[i] = s[i + 1]
      OBVIOUS
  <2>1. i - (n - 1) \in 1..Len(s) - n /\ i - (n - 1) + n = i + 1
        OBVIOUS
  <2>2. QED
        BY <1>2, <1>3, <2>1
<1> HIDE DEF rest
<1>5. \A i \in 1..Len(s) : i # n => \E j \in 1..Len(rest) : rest[j] = s[i]
  <2> SUFFICES ASSUME NEW i \in 1..Len(s), i # n
               PROVE  \E j \in 1..Len(rest) : rest[j] = s[i]
      OBVIOUS
  <2>1. CASE i < n
        BY <1>3, <2>1
  <2>2. CASE i > n
    <3>1. i - 1 \in n..Len(s) - 1 /\ (i - 1) + 1 = i
          BY <2>2
    <3>2. rest[i - 1] = s[i] /\ i - 1 \in 1..Len(rest)
          BY <1>3, <1>4, <3>1
    <3>3. QED
          BY <3>2
  <2>3. QED
        BY <2>1, <2>2
<1>6. Increasing(at, Len(rest), Len(s)) /\ \A i \in 1..Len(rest) : rest[i] = s[at[i]]
      BY <1>3, <1>4 DEF Increasing
<1>7. Thinned(rest, s)
      BY <1>6, Zenon DEF Thinned
<1>8. RemoveAt(s, n) = rest
      BY DEF RemoveAt, rest, before, after
<1>9. QED
      BY <1>3, <1>5, <1>7, <1>8

LEMMA ThinnedIsSpoilt ==
    /\ \A t, s : Thinned(t, s) => Spoilt(t, s)
    /\ \A t, s : Thinned(t, s) => SpoiltCommands(t, s)
<1>1. \A c : SpoiltCommand(c, c)
      BY DEF SpoiltCommand
<1>2. QED
      BY <1>1, Zenon DEF Thinned, Spoilt, SpoiltCommands

LEMMA LossSpoils ==
    ASSUME NEW s \in Seq(Line)
    PROVE  /\ \A n \in 0..Len(s) : /\ SubSeq(s, n + 1, Len(s)) \in Seq(Line)
                                   /\ Spoilt(SubSeq(s, n + 1, Len(s)), s)
           /\ \A n \in 1..Len(s) : /\ RemoveAt(s, n) \in Seq(Line)
                                   /\ Spoilt(RemoveAt(s, n), s)
           /\ \A n \in 1..Len(s) : /\ [s EXCEPT ![n] = Garbled] \in Seq(Line)
                                   /\ Spoilt([s EXCEPT ![n] = Garbled], s)
<1>1. ASSUME NEW n \in 0..Len(s)
      PROVE  SubSeq(s, n + 1, Len(s)) \in Seq(Line) /\ Spoilt(SubSeq(s, n + 1, Len(s)), s)
      BY SuffixKeepsOrder, ThinnedIsSpoilt
<1>2. ASSUME NEW n \in 1..Len(s)
      PROVE  RemoveAt(s, n) \in Seq(Line) /\ Spoilt(RemoveAt(s, n), s)
      BY RemoveKeepsOrder, ThinnedIsSpoilt
<1>3. ASSUME NEW n \in 1..Len(s)
      PROVE  /\ [s EXCEPT ![n] = Garbled] \in Seq(Line)
             /\ Spoilt([s EXCEPT ![n] = Garbled], s)
  <2> DEFINE t == [s EXCEPT ![n] = Garbled]
             at == [i \in 1..Len(s) |-> i]
  <2>1. Garbled \in Line
        BY DEF Line
  <2>2. /\ t \in Seq(Line) /\ Len(t) = Len(s)
        /\ \A i \in 1..Len(s) : t[i] \in {s[i], Garbled}
        BY <2>1
  <2>3. Increasing(at, Len(s), Len(s))
        BY DEF Increasing
  <2> HIDE DEF t
  <2>4. Increasing(at, Len(t), Len(s)) /\ \A i \in 1..Len(t) : t[i] \in {s[at[i]], Garbled}
        BY <2>2, <2>3
  <2>5. Spoilt(t, s)
        BY <2>4, Zenon DEF Spoilt
  <2>6. QED
        BY <2>2, <2>5 DEF t
<1>4. QED
      BY <1>1, <1>2, <1>3

LEMMA LossSpoilsCommands ==
    ASSUME NEW s \in Seq(CommandLine), NEW n \in 1..Len(s)
    PROVE  /\ RemoveAt(s, n) \in Seq(CommandLine) /\ SpoiltCommands(RemoveAt(s, n), s)
           /\ LET garbled == [s EXCEPT ![n] = [id |-> @.id, sub |-> "garbled",
                                               was |-> @.sub]]
              IN  s[n].sub # "garbled" =>
                     garbled \in Seq(CommandLine) /\ SpoiltCommands(garbled, s)
<1>1. RemoveAt(s, n) \in Seq(CommandLine) /\ SpoiltCommands(RemoveAt(s, n), s)
      BY RemoveKeepsOrder, ThinnedIsSpoilt
<1>2. ASSUME s[n].sub # "garbled"
      PROVE  LET garbled == [s EXCEPT ![n] = [id |-> s[n].id, sub |-> "garbled",
                                              was |-> s[n].sub]]
             IN  garbled \in Seq(CommandLine) /\ SpoiltCommands(garbled, s)
  <2> DEFINE c == [id |-> s[n].id, sub |-> "garbled", was |-> s[n].sub]
             t == [s EXCEPT ![n] = c]
             at == [i \in 1..Len(s) |-> i]
  <2>1. c \in CommandLine
        BY <1>2 DEF CommandLine
  <2>2. SpoiltCommand(c, s[n])
        BY <1>2 DEF SpoiltCommand, CommandVerb
  <2> HIDE DEF c
  <2>3. /\ t \in Seq(CommandLine) /\ Len(t) = Len(s)
        /\ \A i \in 1..Len(s) : t[i] = IF i = n THEN c ELSE s[i]
        BY <2>1
  <2>4. Increasing(at, Len(s), Len(s))
        BY DEF Increasing
  <2> HIDE DEF t
  <2>5. \A i \in 1..Len(s) : SpoiltCommand(t[i], s[i])
        BY <2>2, <2>3 DEF SpoiltCommand
  <2>6. Increasing(at, Len(t), Len(s)) /\ \A i \in 1..Len(t) : SpoiltCommand(t[i], s[at[i]])
        BY <2>3, <2>4, <2>5
  <2>7. SpoiltCommands(t, s)
        BY <2>6, Zenon DEF SpoiltCommands
  <2>8. QED
        BY <2>3, <2>7 DEF t, c
<1>3. QED
      BY <1>1, <1>2

-----------------------------------------------------------------------------
(* The answers of the board *)

LEMMA EntriesInOrder ==
    /\ Cardinality(Entry) \in Nat
    /\ SetToSeq(Entry) \in [1..Cardinality(Entry) -> Entry]
<1>1. IsFiniteSet(Entry)
      BY SessionAssumption
<1>2. Cardinality(Entry) \in Nat /\ ExistsBijection(1..Cardinality(Entry), Entry)
      BY <1>1, FS_CardinalityType
<1>3. \E f \in [1..Cardinality(Entry) -> Entry] : IsInjective(f)
      BY <1>2 DEF ExistsBijection, Bijection, Injection, IsInjective
<1>4. SetToSeq(Entry) \in [1..Cardinality(Entry) -> Entry]
      BY <1>3, Zenon DEF SetToSeq
<1>5. QED
      BY <1>2, <1>4

\* What the lines of an answer have in common.
AnswerTo(answer, command) ==
    /\ answer \in Seq(Line)
    /\ command.sub = "HB" => answer = <<>>
    /\ \A i \in 1..Len(answer) :
          /\ Numbered(answer[i]) /\ answer[i].id = command.id
          /\ answer[i].kind = "sack" =>
                i = Len(answer) /\ answer[i].verb = CommandVerb(command)
          /\ answer[i].kind \in {"payload", "catalog"} => command.sub # "garbled"
          /\ command.sub = "GET" /\ answer[i].kind = "sack" /\ answer[i].ok =>
                \E j \in 1..i - 1 : answer[j].kind = "payload"

LEMMA AnswerLines ==
    ASSUME NEW command \in CommandLine
    PROVE  LET id == command.id
               verb == CommandVerb(command)
           IN  /\ id \in Number /\ verb \in Verb
               /\ \A ok \in BOOLEAN : Sack(id, verb, ok) \in Line
               /\ Payload(id) \in Line
               /\ \A entry \in Entry \cup {End} : CatalogLine(id, entry) \in Line
<1>1. command.id \in Number
      BY DEF CommandLine
<1>2. CommandVerb(command) \in Verb
      BY VerbTypes
<1>3. QED
      BY <1>1, <1>2
      DEF Line, Sack, SackLine, Payload, PayloadLine, CatalogLine, CatalogLines

LEMMA AppendPair ==
    ASSUME NEW S, NEW first \in S, NEW second \in S
    PROVE  Append(<<first>>, second) = <<first, second>>
<1> DEFINE appended == Append(<<first>>, second)
           pair == <<first, second>>
<1>1. appended \in Seq(S) /\ Len(appended) = 2 /\ appended[1] = first
      /\ appended[2] = second
      OBVIOUS
<1>2. pair \in Seq(S) /\ Len(pair) = 2 /\ pair[1] = first /\ pair[2] = second
      OBVIOUS
<1> HIDE DEF appended, pair
<1>3. appended = pair
      BY <1>1, <1>2, SeqEqual
<1>4. QED
      BY <1>3 DEF appended, pair

\* An answer is some payloads and then an acknowledgement.
LEMMA SackLast ==
    ASSUME NEW command \in CommandLine, command.sub # "HB", NEW ok \in BOOLEAN,
           NEW payloads \in Seq(Line),
           \A i \in 1..Len(payloads) : /\ payloads[i].kind \in {"payload", "catalog"}
                                       /\ payloads[i].id = command.id,
           payloads # <<>> => command.sub # "garbled",
           command.sub = "GET" /\ ok => payloads # <<>> /\ payloads[1].kind = "payload"
    PROVE  AnswerTo(Append(payloads, Sack(command.id, CommandVerb(command), ok)), command)
<1> DEFINE sack == Sack(command.id, CommandVerb(command), ok)
           answer == Append(payloads, sack)
           n == Len(payloads)
<1>1. /\ sack \in Line /\ sack.kind = "sack" /\ sack.id = command.id
      /\ sack.verb = CommandVerb(command)
      BY AnswerLines DEF Sack
<1>2. sack.ok = ok
      BY Zenon DEF Sack
<1> HIDE DEF sack
<1>3. /\ answer \in Seq(Line) /\ Len(answer) = n + 1 /\ n \in Nat
      /\ answer[n + 1] = sack /\ \A i \in 1..n : answer[i] = payloads[i]
      BY <1>1
<1>4. n > 0 <=> payloads # <<>>
      OBVIOUS
<1> HIDE DEF answer, n
<1>5. ASSUME NEW i \in 1..n + 1, i # n + 1
      PROVE  /\ answer[i].kind \in {"payload", "catalog"} /\ answer[i].id = command.id
             /\ command.sub # "garbled"
  <2>1. i \in 1..n
        BY <1>3, <1>5
  <2>2. QED
        BY <1>3, <1>4, <2>1 DEF n
<1>6. ASSUME command.sub = "GET", answer[n + 1].ok
      PROVE  \E j \in 1..n : answer[j].kind = "payload"
  <2>1. ok
        BY <1>2, <1>3, <1>6, Zenon
  <2>2. QED
        BY <1>3, <1>4, <1>6, <2>1
<1>7. n + 1 - 1 = n
      BY <1>3
<1>8. ASSUME NEW i \in 1..Len(answer)
      PROVE  /\ Numbered(answer[i]) /\ answer[i].id = command.id
             /\ answer[i].kind = "sack" =>
                   i = Len(answer) /\ answer[i].verb = CommandVerb(command)
             /\ answer[i].kind \in {"payload", "catalog"} => command.sub # "garbled"
             /\ command.sub = "GET" /\ answer[i].kind = "sack" /\ answer[i].ok =>
                   \E j \in 1..i - 1 : answer[j].kind = "payload"
  <2>1. CASE i = n + 1
        BY <1>1, <1>3, <1>6, <1>7, <2>1 DEF Numbered
  <2>2. CASE i # n + 1
        BY <1>3, <1>5, <2>2 DEF Numbered
  <2>3. QED
        BY <2>1, <2>2
<1>9. AnswerTo(answer, command)
      BY <1>3, <1>8 DEF AnswerTo
<1>10. QED
      BY <1>9 DEF answer, sack

LEMMA AnswerShape ==
    ASSUME NEW command \in CommandLine, NEW answer \in Answers(command)
    PROVE  AnswerTo(answer, command)
<1> DEFINE id == command.id
           verb == CommandVerb(command)
           refused == Sack(id, verb, FALSE)
           done == Sack(id, verb, TRUE)
<1>1. Payload(id).kind = "payload" /\ Payload(id).id = id /\ Payload(id) \in Line
      BY AnswerLines DEF Payload
<1>2. ASSUME command.sub # "HB", NEW ok \in BOOLEAN, command.sub = "GET" => ~ok
      PROVE  AnswerTo(<<Sack(id, verb, ok)>>, command)
  <2> DEFINE none == <<>>
  <2>1. none \in Seq(Line) /\ Len(none) = 0 /\ none = <<>>
        OBVIOUS
  <2>2. ~(command.sub = "GET" /\ ok)
        BY <1>2
  <2> HIDE DEF none
  <2>3. \A i \in 1..Len(none) : none[i].kind \in {"payload", "catalog"}
                                /\ none[i].id = command.id
        BY <2>1
  <2>4. AnswerTo(Append(none, Sack(id, verb, ok)), command)
        BY <1>2, <2>1, <2>2, <2>3, SackLast, Zenon
  <2>5. Append(<<>>, Sack(id, verb, ok)) = <<Sack(id, verb, ok)>>
        OBVIOUS
  <2>6. QED
        BY <2>1, <2>4, <2>5, Zenon
<1>3. ASSUME command.sub \notin {"HB", "garbled"}
      PROVE  AnswerTo(<<Payload(id), done>>, command)
  <2> DEFINE payloads == <<Payload(id)>>
  <2>1. /\ payloads \in Seq(Line) /\ Len(payloads) = 1 /\ payloads # <<>>
        /\ payloads[1] = Payload(id)
        BY <1>1
  <2>2. \A d \in Line : Append(payloads, d) = <<Payload(id), d>>
        BY <1>1, AppendPair
  <2> HIDE DEF payloads
  <2>3. \A i \in 1..Len(payloads) : payloads[i].kind \in {"payload", "catalog"}
                                    /\ payloads[i].id = command.id
        BY <1>1, <2>1
  <2>4. AnswerTo(Append(payloads, done), command)
        BY <1>1, <1>3, <2>1, <2>3, SackLast
  <2>5. done \in Line
        BY AnswerLines
  <2>6. QED
        BY <2>2, <2>4, <2>5
<1>4. CASE command.sub = "HB"
      BY <1>4 DEF Answers, AnswerTo
<1>5. CASE command.sub = "STAT"
  <2>1. answer = <<Payload(id), done>>
        BY <1>5 DEF Answers, CommandVerb
  <2>2. QED
        BY <1>3, <1>5, <2>1
<1>6. CASE command.sub = "GET"
  <2>1. answer \in {<<Payload(id), done>>, <<refused>>}
        BY <1>6 DEF Answers, CommandVerb
  <2>2. QED
        BY <1>2, <1>3, <1>6, <2>1
<1>7. CASE command.sub = "SET"
  <2>1. answer \in {<<done>>, <<refused>>}
        BY <1>7 DEF Answers, CommandVerb
  <2>2. QED
        BY <1>2, <1>7, <2>1
<1>8. CASE command.sub = "LIST"
  <2> DEFINE n == Cardinality(Entry)
             lines == [i \in 1..n |-> CatalogLine(id, SetToSeq(Entry)[i])]
             all == Append(lines, CatalogLine(id, End))
  <2>1. answer = lines \o <<CatalogLine(id, End), done>>
        BY <1>8 DEF Answers, CommandVerb
  <2>2. n \in Nat /\ lines \in Seq(Line) /\ Len(lines) = n
    <3>1. \A i \in 1..n : CatalogLine(id, SetToSeq(Entry)[i]) \in Line
          BY EntriesInOrder, AnswerLines
    <3>2. n \in Nat /\ lines \in [1..n -> Line]
          BY <3>1, EntriesInOrder
    <3>3. QED
          BY <3>2
  <2>3. \A i \in 1..n : lines[i].kind = "catalog" /\ lines[i].id = id
        BY DEF CatalogLine
  <2>4. /\ CatalogLine(id, End) \in Line /\ CatalogLine(id, End).kind = "catalog"
        /\ CatalogLine(id, End).id = id
        BY AnswerLines DEF CatalogLine
  <2>5. done \in Line
        BY AnswerLines
  <2> HIDE DEF n, lines, done
  <2>6. /\ all \in Seq(Line) /\ Len(all) = n + 1
        /\ \A i \in 1..n : all[i] = lines[i]
        /\ all[n + 1] = CatalogLine(id, End)
        BY <2>2, <2>4
  <2>7. Append(all, done) = lines \o <<CatalogLine(id, End), done>>
        BY <2>2, <2>4, <2>5
  <2> HIDE DEF all
  <2>8. \A i \in 1..Len(all) : all[i].kind = "catalog" /\ all[i].id = id
        BY <2>2, <2>3, <2>4, <2>6
  <2>9. AnswerTo(Append(all, done), command)
        BY <1>8, <2>6, <2>8, SackLast DEF done
  <2>10. QED
        BY <2>1, <2>7, <2>9
<1>9. CASE command.sub = "garbled"
  <2>1. answer \in {<<>>, <<refused>>}
        BY <1>9 DEF Answers, CommandVerb
  <2>2. CASE answer = <<>>
        BY <1>9, <2>2 DEF AnswerTo
  <2>3. QED
        BY <1>2, <1>9, <2>1, <2>2
<1>10. command.sub \in {"HB", "STAT", "GET", "SET", "LIST", "garbled"}
      BY SessionAssumption DEF CommandLine, BoardSub
<1>11. QED
      BY <1>4, <1>5, <1>6, <1>7, <1>8, <1>9, <1>10

-----------------------------------------------------------------------------
(* The inductive invariant *)

TypeInv == TypeOK /\ toBoard \in Seq(CommandLine)

\* The numbers grow along the way of a command and its answer: through what the
\* board has not read, what the host has not read, and the acknowledgements; a
\* call in progress is the last command written; and an acknowledgement is the
\* last line of its answer.
InOrder ==
    /\ call # None => call.id = written
    /\ \A i \in 1..Len(toBoard) : toBoard[i].id <= written
    /\ \A i \in 1..Len(toHost) : Numbered(toHost[i]) => toHost[i].id <= written
    /\ \A i \in 1..Len(acks) : acks[i].id <= written
    /\ \A i, j \in 1..Len(toBoard) : i < j => toBoard[i].id < toBoard[j].id
    /\ \A i \in 1..Len(toHost), j \in 1..Len(toBoard) :
          Numbered(toHost[i]) => toHost[i].id < toBoard[j].id
    /\ \A i, j \in 1..Len(toHost) :
          i < j /\ toHost[i].kind = "sack" /\ Numbered(toHost[j]) =>
              toHost[i].id < toHost[j].id
    /\ \A i \in 1..Len(acks), j \in 1..Len(toHost) :
          Numbered(toHost[j]) => acks[i].id < toHost[j].id
    /\ \A i \in 1..Len(acks), j \in 1..Len(toBoard) : acks[i].id < toBoard[j].id

\* Of a verb no call with which has been given up there is nothing under way
\* but the command of the present call and its answer.
Own(id, verb) ==
    verb \in {"STAT", "CFG"} \ expired =>
        call # None /\ id = call.id /\ verb = VerbOf(call.sub)

OnlyOwn ==
    /\ \A i \in 1..Len(toBoard) : Own(toBoard[i].id, CommandVerb(toBoard[i]))
    /\ \A i \in 1..Len(toHost) :
          toHost[i].kind = "sack" => Own(toHost[i].id, toHost[i].verb)
    /\ call # None => \A i \in 1..Len(acks) : Own(acks[i].id, acks[i].verb)

\* ... and the same of payloads and catalogues, which bear no verb, as long as
\* no call at all has been given up.
OwnPayloads ==
    expired = {} =>
        /\ \A i \in 1..Len(toHost) :
              toHost[i].kind \in {"payload", "catalog"} =>
                  call # None /\ toHost[i].id = call.id
        /\ call # None => lastPayload \in {call.id, None}
        /\ call # None /\ call.sub = "LIST" =>
              \A i \in 1..Len(catalog) : catalog[i].id = call.id

\* Without a fault no command is damaged.
Intact ==
    /\ faults = 0 => \A i \in 1..Len(toBoard) : toBoard[i].sub # "garbled"
    /\ expired = {} =>
          \A i \in 1..Len(toBoard) :
              toBoard[i].sub \notin {"garbled", "HB"} => toBoard[i] = call

\* Without a fault an OK to GET comes after the value.
ValueFirst ==
    faults = 0 /\ expired = {} /\ call # None /\ call.sub = "GET" =>
        /\ \A i \in 1..Len(toHost) :
              toHost[i].kind = "sack" /\ toHost[i].verb = "CFG" /\ toHost[i].ok =>
                  \/ lastPayload = call.id
                  \/ \E j \in 1..i - 1 : toHost[j].kind = "payload"
        /\ \A i \in 1..Len(acks) :
              acks[i].verb = "CFG" /\ acks[i].ok => lastPayload = call.id

\* The records in the host and then those in transit are in order.
TelemetryOrder ==
    /\ \A i, j \in 1..Len(toHost) :
          i < j /\ toHost[i].kind = "telemetry" /\ toHost[j].kind = "telemetry" =>
              toHost[i].seq < toHost[j].seq
    /\ \A i \in 1..Len(records), j \in 1..Len(toHost) :
          toHost[j].kind = "telemetry" => records[i] < toHost[j].seq
    /\ \A i \in 1..Len(toHost) : toHost[i].kind = "telemetry" => toHost[i].seq <= sent
    /\ \A i \in 1..Len(records) : records[i] <= sent

\* A fault damages one line.
GarbledAt(lines) == {i \in 1..Len(lines) : lines[i] = Garbled}
DamageCounted == corruptTotal + Cardinality(GarbledAt(toHost)) <= faults

Exchange == TypeInv /\ InOrder /\ OnlyOwn /\ OwnPayloads /\ Intact /\ ValueFirst

SessionInv == /\ Exchange /\ TelemetryOrder /\ TelemetryConserved /\ DamageCounted
              /\ AnswersMatch /\ PayloadMatches /\ SchemaMatches /\ CliTellsTruth

LEMMA Typed ==
    ASSUME TypeInv
    PROVE  /\ toHost \in Seq(Line) /\ toBoard \in Seq(CommandLine)
           /\ acks \in Seq(SackLine) /\ catalog \in Seq(CatalogLines)
           /\ records \in Seq(1..MaxRecords)
           /\ call # None => call.id \in Number /\ call.sub \in Calls
           /\ written \in Nat /\ sent \in Nat /\ faults \in Nat /\ corruptTotal \in Nat
           /\ Number \in SUBSET Nat
BY SessionAssumption DEF TypeInv, TypeOK, Line, Number

LEMMA Ids ==
    ASSUME TypeInv
    PROVE  /\ \A i \in 1..Len(toBoard) : toBoard[i].id \in Nat
           /\ \A i \in 1..Len(toHost) : Numbered(toHost[i]) => toHost[i].id \in Nat
           /\ \A i \in 1..Len(acks) : acks[i].id \in Nat
<1>1. Number \in SUBSET Nat
      BY Typed
<1>2. ASSUME NEW i \in 1..Len(acks) PROVE acks[i].id \in Nat
  <2>1. acks[i] \in SackLine
        BY Typed
  <2>2. QED
        BY <1>1, <2>1 DEF SackLine
<1>3. ASSUME NEW i \in 1..Len(toHost), Numbered(toHost[i]) PROVE toHost[i].id \in Nat
  <2>1. toHost[i] \in Line
        BY Typed
  <2>2. QED
        BY <1>1, <1>3, <2>1, LineTypes
<1>4. ASSUME NEW i \in 1..Len(toBoard) PROVE toBoard[i].id \in Nat
  <2>1. toBoard[i] \in CommandLine
        BY Typed
  <2>2. QED
        BY <1>1, <2>1 DEF CommandLine
<1>5. QED
      BY <1>2, <1>3, <1>4

LEMMA SpoiltReflexive ==
    /\ \A s : Len(s) \in Nat => Spoilt(s, s)
    /\ \A s : Len(s) \in Nat => SpoiltCommands(s, s)
<1>1. ASSUME NEW s, Len(s) \in Nat PROVE Thinned(s, s)
  <2> DEFINE at == [i \in 1..Len(s) |-> i]
  <2>1. Increasing(at, Len(s), Len(s)) /\ \A i \in 1..Len(s) : s[i] = s[at[i]]
        BY <1>1 DEF Increasing
  <2>2. QED
        BY <2>1, Zenon DEF Thinned
<1>2. QED
      BY <1>1, ThinnedIsSpoilt

-----------------------------------------------------------------------------
(* What a loss keeps *)

LEMMA LossKeepsOrder ==
    ASSUME TypeInv, InOrder, TypeInv', Spoilt(toHost', toHost),
           SpoiltCommands(toBoard', toBoard), written' = written,
           call' \in {call, None}, acks' \in {acks, <<>>}
    PROVE  InOrder'
<1>1. PICK f : /\ Increasing(f, Len(toHost'), Len(toHost))
               /\ \A i \in 1..Len(toHost') : toHost'[i] \in {toHost[f[i]], Garbled}
      BY Zenon DEF Spoilt
<1>2. PICK g : /\ Increasing(g, Len(toBoard'), Len(toBoard))
               /\ \A i \in 1..Len(toBoard') : SpoiltCommand(toBoard'[i], toBoard[g[i]])
      BY Zenon DEF SpoiltCommands
<1>3. /\ \A i \in 1..Len(toHost') :
            f[i] \in 1..Len(toHost) /\ (Numbered(toHost'[i]) => toHost'[i] = toHost[f[i]])
      /\ \A i, j \in 1..Len(toHost') : i < j => f[i] < f[j]
      BY <1>1 DEF Increasing, Garbled, Numbered
<1>4. /\ \A i \in 1..Len(toBoard') :
            g[i] \in 1..Len(toBoard) /\ toBoard'[i].id = toBoard[g[i]].id
      /\ \A i, j \in 1..Len(toBoard') : i < j => g[i] < g[j]
      BY <1>2 DEF Increasing, SpoiltCommand
<1>5. \A line : line.kind = "sack" => Numbered(line)
      BY DEF Numbered
<1>6. \A i \in 1..Len(acks') : acks'[i] = acks[i] /\ i \in 1..Len(acks)
  <2>1. CASE acks' = acks
        BY <2>1
  <2>2. CASE acks' = <<>>
        BY <2>2
  <2>3. QED
        BY <2>1, <2>2
<1>7. call' # None => call'.id = written'
      BY DEF InOrder
<1>8. /\ \A i \in 1..Len(toBoard') : toBoard'[i].id <= written'
      /\ \A i \in 1..Len(toHost') : Numbered(toHost'[i]) => toHost'[i].id <= written'
      /\ \A i \in 1..Len(acks') : acks'[i].id <= written'
      BY <1>3, <1>4, <1>6 DEF InOrder
<1>9. \A i, j \in 1..Len(toBoard') : i < j => toBoard'[i].id < toBoard'[j].id
      BY <1>4 DEF InOrder
<1>10. \A i \in 1..Len(toHost'), j \in 1..Len(toBoard') :
          Numbered(toHost'[i]) => toHost'[i].id < toBoard'[j].id
      BY <1>3, <1>4 DEF InOrder
<1>11. \A i, j \in 1..Len(toHost') :
          i < j /\ toHost'[i].kind = "sack" /\ Numbered(toHost'[j]) =>
              toHost'[i].id < toHost'[j].id
      BY <1>3, <1>5 DEF InOrder
<1>12. /\ \A i \in 1..Len(acks'), j \in 1..Len(toHost') :
             Numbered(toHost'[j]) => acks'[i].id < toHost'[j].id
       /\ \A i \in 1..Len(acks'), j \in 1..Len(toBoard') : acks'[i].id < toBoard'[j].id
      BY <1>3, <1>4, <1>6 DEF InOrder
<1>13. QED
      BY <1>7, <1>8, <1>9, <1>10, <1>11, <1>12, Zenon DEF InOrder, Numbered

LEMMA LossKeepsExchange ==
    ASSUME Exchange, TypeInv', Spoilt(toHost', toHost),
           SpoiltCommands(toBoard', toBoard), serviceVars' = serviceVars,
           written' = written, faults' = faults + 1, expired' = expired
    PROVE  InOrder' /\ OnlyOwn' /\ OwnPayloads' /\ Intact' /\ ValueFirst'
<1> USE DEF Exchange
<1>1. /\ call' = call /\ acks' = acks /\ catalog' = catalog /\ lastPayload' = lastPayload
      BY DEF serviceVars
<1>2. InOrder'
      BY <1>1, LossKeepsOrder
<1>3. PICK f : /\ Increasing(f, Len(toHost'), Len(toHost))
               /\ \A i \in 1..Len(toHost') : toHost'[i] \in {toHost[f[i]], Garbled}
      BY Zenon DEF Spoilt
<1>4. PICK g : /\ Increasing(g, Len(toBoard'), Len(toBoard))
               /\ \A i \in 1..Len(toBoard') : SpoiltCommand(toBoard'[i], toBoard[g[i]])
      BY Zenon DEF SpoiltCommands
<1>5. \A i \in 1..Len(toHost') :
          f[i] \in 1..Len(toHost) /\ (Numbered(toHost'[i]) => toHost'[i] = toHost[f[i]])
      BY <1>3 DEF Increasing, Garbled, Numbered
<1>6. \A i \in 1..Len(toBoard') :
          /\ g[i] \in 1..Len(toBoard) /\ toBoard'[i].id = toBoard[g[i]].id
          /\ CommandVerb(toBoard'[i]) = CommandVerb(toBoard[g[i]])
          /\ toBoard'[i] = toBoard[g[i]] \/ toBoard'[i].sub = "garbled"
      BY <1>4 DEF Increasing, SpoiltCommand
<1>7. \A i \in 1..Len(toBoard') : Own(toBoard'[i].id, CommandVerb(toBoard'[i]))
      BY <1>6 DEF OnlyOwn
<1>8. OnlyOwn'
  <2>1. \A i \in 1..Len(toHost') :
            toHost'[i].kind = "sack" => Own(toHost'[i].id, toHost'[i].verb)
        BY <1>5 DEF OnlyOwn, Numbered
  <2>2. call # None => \A i \in 1..Len(acks) : Own(acks[i].id, acks[i].verb)
        BY DEF OnlyOwn
  <2>3. QED
        BY <1>1, <1>7, <2>1, <2>2 DEF OnlyOwn, Own, CommandVerb
<1>9. OwnPayloads'
      BY <1>1, <1>5 DEF OwnPayloads, Numbered
<1>10. faults' # 0
      BY Typed
<1>11. Intact'
      BY <1>1, <1>6, <1>10 DEF Intact
<1>12. ValueFirst'
      BY <1>10 DEF ValueFirst
<1>13. QED
      BY <1>2, <1>8, <1>9, <1>11, <1>12

\* A call that is given up, be it by the process that ends, takes its verb with
\* it: nothing under way is anybody's any more.
LEMMA GivingUpKeepsExchange ==
    ASSUME Exchange, TypeInv', Spoilt(toHost', toHost), toBoard' = toBoard,
           written' = written, faults' \in {faults, faults + 1},
           call' = None, acks' \in {acks, <<>>},
           expired' = IF call = None THEN expired ELSE expired \cup {VerbOf(call.sub)}
    PROVE  InOrder' /\ OnlyOwn' /\ OwnPayloads' /\ Intact' /\ ValueFirst'
<1> USE DEF Exchange
<1>1. Len(toBoard) \in Nat
      BY Typed
<1>2. InOrder'
      BY <1>1, SpoiltReflexive, LossKeepsOrder
<1>3. PICK f : /\ Increasing(f, Len(toHost'), Len(toHost))
               /\ \A i \in 1..Len(toHost') : toHost'[i] \in {toHost[f[i]], Garbled}
      BY Zenon DEF Spoilt
<1>4. \A i \in 1..Len(toHost') :
          f[i] \in 1..Len(toHost) /\ (Numbered(toHost'[i]) => toHost'[i] = toHost[f[i]])
      BY <1>3 DEF Increasing, Garbled, Numbered
<1>5. ASSUME NEW id, NEW verb, Own(id, verb)
      PROVE  verb \notin {"STAT", "CFG"} \ expired'
      BY <1>5 DEF Own
<1>6. OnlyOwn'
  <2>1. \A i \in 1..Len(toBoard') :
            CommandVerb(toBoard'[i]) \notin {"STAT", "CFG"} \ expired'
        BY <1>5 DEF OnlyOwn
  <2>2. \A i \in 1..Len(toHost') :
            toHost'[i].kind = "sack" => toHost'[i].verb \notin {"STAT", "CFG"} \ expired'
        BY <1>4, <1>5 DEF OnlyOwn, Numbered
  <2>3. QED
        BY <2>1, <2>2 DEF OnlyOwn, Own, CommandVerb
<1>7. expired' = {} => call = None /\ expired = {}
      OBVIOUS
<1>8. OwnPayloads'
      BY <1>4, <1>7 DEF OwnPayloads, Numbered
<1>9. Intact'
  <2>1. faults' = 0 => faults = 0
        BY Typed
  <2>2. ASSUME expired' = {}, NEW i \in 1..Len(toBoard),
               toBoard[i].sub \notin {"garbled", "HB"}
        PROVE  FALSE
    <3>1. toBoard[i] \in CommandLine
          BY Typed
    <3>2. toBoard[i].sub \in Calls
          BY <2>2, <3>1 DEF CommandLine, BoardSub
    <3>3. CommandVerb(toBoard[i]) \in {"STAT", "CFG"}
          BY <2>2, <3>2, VerbTypes DEF CommandVerb
    <3>4. QED
          BY <1>7, <2>2, <3>3 DEF OnlyOwn, Own
  <2>3. QED
        BY <2>1, <2>2 DEF Intact
<1>10. ValueFirst'
      BY DEF ValueFirst
<1>11. QED
      BY <1>2, <1>6, <1>8, <1>9, <1>10

\* When the answer to a call has been read nothing else that answers a command
\* is under way.
LEMMA NothingElse ==
    ASSUME Exchange, call # None, NEW i \in 1..Len(acks), acks[i].id = call.id
    PROVE  /\ \A j \in 1..Len(toBoard) : FALSE
           /\ \A j \in 1..Len(toHost) : ~Numbered(toHost[j])
<1>1. acks[i].id = written /\ written \in Nat
      BY Typed DEF Exchange, InOrder
<1>2. ASSUME NEW j \in 1..Len(toBoard) PROVE FALSE
  <2>1. toBoard[j].id \in Nat
        BY Typed DEF Exchange, CommandLine
  <2>2. toBoard[j].id <= written /\ acks[i].id < toBoard[j].id
        BY DEF Exchange, InOrder
  <2>3. QED
        BY <1>1, <2>1, <2>2
<1>3. ASSUME NEW j \in 1..Len(toHost), Numbered(toHost[j]) PROVE FALSE
  <2>1. toHost[j].id \in Nat
        BY <1>3, Typed, LineTypes DEF Exchange
  <2>2. toHost[j].id <= written /\ acks[i].id < toHost[j].id
        BY <1>3 DEF Exchange, InOrder
  <2>3. QED
        BY <1>1, <2>1, <2>2
<1>4. QED
      BY <1>2, <1>3

LEMMA ReturnKeepsExchange ==
    ASSUME Exchange, TypeInv', HostReturns
    PROVE  InOrder' /\ OnlyOwn' /\ OwnPayloads' /\ Intact' /\ ValueFirst'
<1> USE DEF Exchange
<1>1. /\ call # None /\ call' = None
      /\ \E i \in 1..Len(acks) : acks[i].verb = VerbOf(call.sub)
      /\ acks' = acks /\ toBoard' = toBoard /\ toHost' = toHost
      /\ written' = written /\ faults' = faults /\ expired' = expired
  <2>1. Return /\ UNCHANGED lineVars
        BY DEF HostReturns
  <2>2. DOMAIN acks = 1..Len(acks)
        BY Typed
  <2>3. QED
        BY <2>1, <2>2 DEF Return, Matches, lineVars
<1>2. Len(toBoard) \in Nat /\ Len(toHost) \in Nat
      BY Typed
<1>3. InOrder'
      BY <1>1, <1>2, SpoiltReflexive, LossKeepsOrder
<1>4. PICK i \in 1..Len(acks) : acks[i].verb = VerbOf(call.sub)
      BY <1>1
<1>5. VerbOf(call.sub) \in {"STAT", "CFG"}
      BY <1>1, Typed, VerbTypes
<1>6. VerbOf(call.sub) \notin expired => acks[i].id = call.id
      BY <1>1, <1>4, <1>5 DEF OnlyOwn, Own
<1>7. VerbOf(call.sub) \notin expired =>
          /\ \A j \in 1..Len(toBoard) : FALSE
          /\ \A j \in 1..Len(toHost) : ~Numbered(toHost[j])
      BY <1>1, <1>6, NothingElse
<1>8. OnlyOwn'
  <2>1. CASE VerbOf(call.sub) \notin expired
        BY <1>1, <1>7, <2>1 DEF OnlyOwn, Numbered
  <2>2. CASE VerbOf(call.sub) \in expired
        BY <1>1, <2>2 DEF OnlyOwn, Own, CommandVerb
  <2>3. QED
        BY <2>1, <2>2
<1>9. OwnPayloads'
      BY <1>1, <1>7 DEF OwnPayloads, Numbered
<1>10. Intact'
      BY <1>1, <1>7 DEF Intact
<1>11. ValueFirst'
      BY <1>1 DEF ValueFirst
<1>12. QED
      BY <1>3, <1>8, <1>9, <1>10, <1>11

-----------------------------------------------------------------------------
(* What a new command keeps *)

LEMMA NothingAsked ==
    ASSUME Exchange, call = None, expired = {}
    PROVE  /\ \A i \in 1..Len(toBoard) : toBoard[i].sub \in {"garbled", "HB"}
           /\ \A i \in 1..Len(toHost) : toHost[i].kind = "sack" => toHost[i].verb # "CFG"
<1>1. ASSUME NEW i \in 1..Len(toBoard), toBoard[i].sub \notin {"garbled", "HB"}
      PROVE  FALSE
  <2>1. toBoard[i] \in CommandLine
        BY Typed DEF Exchange
  <2>2. toBoard[i].sub \in Calls
        BY <1>1, <2>1 DEF CommandLine, BoardSub
  <2>3. CommandVerb(toBoard[i]) \in {"STAT", "CFG"}
        BY <1>1, <2>2, VerbTypes DEF CommandVerb
  <2>4. QED
        BY <2>3 DEF Exchange, OnlyOwn, Own
<1>2. QED
      BY <1>1 DEF Exchange, OnlyOwn, Own

LEMMA NewCommandOrder ==
    ASSUME Exchange, TypeInv', NEW c \in CommandLine, c.id = written + 1,
           toBoard' = Append(toBoard, c), written' = written + 1, toHost' = toHost,
           acks' \in {acks, <<>>}, call' \in {None, c}, call = None
    PROVE  InOrder'
<1> DEFINE n == Len(toBoard)
<1>1. /\ n \in Nat /\ Len(toBoard') = n + 1 /\ toBoard'[n + 1] = c
      /\ \A i \in 1..n : toBoard'[i] = toBoard[i]
      BY Typed DEF Exchange
<1> HIDE DEF n
<1>2. /\ \A i \in 1..n : toBoard[i].id \in Nat /\ toBoard[i].id <= written
      /\ written \in Nat
      BY Typed DEF Exchange, InOrder, CommandLine, n
<1>3. \A i \in 1..Len(toHost) :
          Numbered(toHost[i]) => toHost[i].id \in Nat /\ toHost[i].id <= written
      BY Typed, LineTypes DEF Exchange, InOrder
<1>4. \A i \in 1..Len(acks') : acks'[i] = acks[i] /\ i \in 1..Len(acks)
  <2>1. CASE acks' = acks
        BY <2>1
  <2>2. CASE acks' = <<>>
        BY <2>2
  <2>3. QED
        BY <2>1, <2>2
<1>5. \A i \in 1..n + 1 : i # n + 1 => i \in 1..n
      BY <1>1
<1>6. call' # None => call'.id = written'
      OBVIOUS
<1>7. \A i \in 1..n + 1 : toBoard'[i].id <= written'
      BY <1>1, <1>2, <1>5
<1>8. \A i \in 1..Len(toHost') : Numbered(toHost'[i]) => toHost'[i].id <= written'
      BY <1>2, <1>3
<1>9. \A i, j \in 1..n + 1 : i < j => toBoard'[i].id < toBoard'[j].id
  <2>1. \A i, j \in 1..n : i < j => toBoard[i].id < toBoard[j].id
        BY DEF Exchange, InOrder, n
  <2>2. ASSUME NEW i \in 1..n + 1, NEW j \in 1..n + 1, i < j
        PROVE  toBoard'[i].id < toBoard'[j].id
    <3>1. i \in 1..n
          BY <1>1, <2>2
    <3>2. CASE j = n + 1
          BY <1>1, <1>2, <3>1, <3>2
    <3>3. CASE j # n + 1
          BY <1>1, <1>5, <2>1, <2>2, <3>1, <3>3
    <3>4. QED
          BY <3>2, <3>3
  <2>3. QED
        BY <2>2
<1>10. \A i \in 1..Len(toHost'), j \in 1..n + 1 :
           Numbered(toHost'[i]) => toHost'[i].id < toBoard'[j].id
  <2>1. \A i \in 1..Len(toHost), j \in 1..n :
            Numbered(toHost[i]) => toHost[i].id < toBoard[j].id
        BY DEF Exchange, InOrder, n
  <2>2. QED
        BY <1>1, <1>2, <1>3, <1>5, <2>1
<1>11. \A i \in 1..Len(acks') : acks'[i].id \in Nat /\ acks'[i].id <= written
      BY <1>4, Ids DEF Exchange, InOrder
<1>12. \A i \in 1..Len(acks'), j \in 1..n + 1 : acks'[i].id < toBoard'[j].id
  <2>1. \A i \in 1..Len(acks), j \in 1..n : acks[i].id < toBoard[j].id
        BY DEF Exchange, InOrder, n
  <2>2. QED
        BY <1>1, <1>2, <1>4, <1>5, <1>11, <2>1
<1>13. /\ \A i, j \in 1..Len(toHost') :
             i < j /\ toHost'[i].kind = "sack" /\ Numbered(toHost'[j]) =>
                 toHost'[i].id < toHost'[j].id
       /\ \A i \in 1..Len(acks'), j \in 1..Len(toHost') :
             Numbered(toHost'[j]) => acks'[i].id < toHost'[j].id
      BY <1>4 DEF Exchange, InOrder
<1>14. \A i \in 1..Len(acks') : acks'[i].id <= written'
      BY <1>2, <1>11
<1>15. QED
      BY <1>1, <1>6, <1>7, <1>8, <1>9, <1>10, <1>12, <1>13, <1>14 DEF InOrder, Numbered

LEMMA NewCommandKeepsExchange ==
    ASSUME Exchange, TypeInv', NEW sub \in BoardSub, call = None,
           toBoard' = Append(toBoard, Command(written + 1, sub)),
           written' = written + 1, toHost' = toHost, faults' = faults,
           expired' = expired,
           \/ sub = "HB" /\ serviceVars' = serviceVars
           \/ sub \in Calls /\ StartCall(Command(written + 1, sub))
    PROVE  InOrder' /\ OnlyOwn' /\ OwnPayloads' /\ Intact' /\ ValueFirst'
<1> DEFINE c == Command(written + 1, sub)
           n == Len(toBoard)
<1>1. /\ c.id = written + 1 /\ c.sub = sub /\ CommandVerb(c) = VerbOf(sub)
      /\ sub # "garbled" /\ (sub \in Calls => sub # "HB")
      BY SessionAssumption DEF Command, CommandVerb, BoardSub
<1>2. /\ toBoard' \in Seq(CommandLine) /\ n \in Nat /\ toBoard \in Seq(CommandLine)
      BY Typed DEF Exchange, TypeInv
<1>3. Len(toBoard') = n + 1 /\ toBoard'[n + 1] = c /\ \A i \in 1..n : toBoard'[i] = toBoard[i]
      BY <1>2 DEF Command
<1>4. c \in CommandLine
      BY <1>2, <1>3
<1>5. \/ call' = None /\ sub = "HB" /\ acks' = acks
      \/ /\ sub \in Calls /\ call' = c /\ acks' = <<>> /\ lastPayload' = None
         /\ sub = "LIST" => catalog' = <<>>
      BY <1>1 DEF serviceVars, StartCall
<1> HIDE DEF c, n
<1>6. InOrder'
  <2>1. toBoard' = Append(toBoard, c)
        BY DEF c
  <2>2. QED
        BY <1>1, <1>4, <1>5, <2>1, NewCommandOrder
<1>7. \A i \in 1..n + 1 : i # n + 1 => i \in 1..n
      BY <1>2
<1>8. \A i \in 1..n : CommandVerb(toBoard[i]) \notin {"STAT", "CFG"} \ expired
      BY DEF Exchange, OnlyOwn, Own, n
<1>9. \A i \in 1..Len(toHost) :
          toHost[i].kind = "sack" => toHost[i].verb \notin {"STAT", "CFG"} \ expired
      BY DEF Exchange, OnlyOwn, Own
<1>10. OnlyOwn'
  <2>1. ASSUME NEW i \in 1..n + 1, CommandVerb(toBoard'[i]) \in {"STAT", "CFG"} \ expired'
        PROVE  /\ call' # None /\ toBoard'[i].id = call'.id
               /\ CommandVerb(toBoard'[i]) = VerbOf(call'.sub)
    <3>1. i = n + 1
          BY <1>3, <1>7, <1>8, <2>1
    <3>2. VerbOf(sub) \in {"STAT", "CFG"}
          BY <1>1, <1>3, <2>1, <3>1
    <3>3. sub # "HB"
          BY <3>2 DEF VerbOf
    <3>4. call' = c /\ c # None
      <4>1. call' = c
            BY <1>5, <3>3
      <4>2. c # None
        <5>1. written + 1 \in Nat /\ sub \in Calls
              BY <3>3, Typed DEF Exchange, BoardSub
        <5>2. c \in [id : Nat, sub : Calls]
              BY <5>1 DEF c, Command
        <5>3. QED
              BY <5>2, SessionAssumption
      <4>3. QED
            BY <4>1, <4>2
    <3>5. QED
          BY <1>1, <1>3, <3>1, <3>4
  <2>2. call' # None => acks' = <<>>
        BY <1>5
  <2>3. QED
        BY <1>3, <1>9, <2>1, <2>2 DEF OnlyOwn, Own, CommandVerb
<1>11. OwnPayloads'
  <2>1. expired = {} => \A i \in 1..Len(toHost) :
                            toHost[i].kind \notin {"payload", "catalog"}
        BY DEF Exchange, OwnPayloads
  <2>2. call' # None => lastPayload' = None /\ (call'.sub = "LIST" => catalog' = <<>>)
        BY <1>1, <1>5
  <2>3. QED
        BY <2>1, <2>2 DEF OwnPayloads
<1>12. Intact'
  <2>1. ASSUME expired = {}, NEW i \in 1..n + 1, toBoard'[i].sub \notin {"garbled", "HB"}
        PROVE  toBoard'[i] = call'
    <3>1. i = n + 1
          BY <1>3, <1>7, <2>1, NothingAsked DEF n
    <3>2. QED
          BY <1>1, <1>3, <1>5, <2>1, <3>1
  <2>2. faults = 0 => \A i \in 1..n + 1 : toBoard'[i].sub # "garbled"
        BY <1>1, <1>3, <1>7 DEF Exchange, Intact, n
  <2>3. QED
        BY <1>3, <2>1, <2>2 DEF Intact
<1>13. ValueFirst'
  <2>1. call' # None => acks' = <<>>
        BY <1>5
  <2>2. QED
        BY <2>1, NothingAsked DEF ValueFirst
<1>14. QED
      BY <1>6, <1>10, <1>11, <1>12, <1>13

-----------------------------------------------------------------------------
(* What an answer of the board keeps *)

LEMMA AnswerOrder ==
    ASSUME Exchange, TypeInv', toBoard # <<>>, toBoard' = Tail(toBoard),
           NEW answer, AnswerTo(answer, toBoard[1]), toHost' = toHost \o answer,
           call' = call, acks' = acks, written' = written
    PROVE  InOrder'
<1> DEFINE n == Len(toHost)
           m == Len(answer)
           k == Len(toBoard)
           id == toBoard[1].id
<1>1. /\ n \in Nat /\ m \in Nat /\ Len(toHost') = n + m
      /\ \A i \in 1..n : toHost'[i] = toHost[i]
      /\ \A i \in 1..n + m : i > n => i - n \in 1..m /\ toHost'[i] = answer[i - n]
      BY Typed DEF Exchange, AnswerTo
<1>2. /\ k \in Nat /\ Len(toBoard') = k - 1 /\ k >= 1
      /\ \A i \in 1..k - 1 : toBoard'[i] = toBoard[i + 1] /\ i + 1 \in 1..k
      BY Typed DEF Exchange
<1>3. \A i \in 1..m : /\ answer[i].id = id
                      /\ answer[i].kind = "sack" => i = m
      BY DEF AnswerTo
<1> HIDE DEF n, m, k, id
<1>4. \A i \in 1..n + m : i \in 1..n \/ i > n
      BY <1>1
<1>5. id \in Nat /\ id <= written /\ written \in Nat
      BY <1>2, Ids, Typed DEF Exchange, InOrder, id, k
<1>6. \A j \in 2..k : id < toBoard[j].id
      BY <1>2 DEF Exchange, InOrder, id, k
<1>7. \A i \in 1..n : Numbered(toHost[i]) => toHost[i].id < id
      BY <1>2 DEF Exchange, InOrder, id, k, n
<1>8. \A i \in 1..Len(acks) : acks[i].id < id
      BY <1>2 DEF Exchange, InOrder, id, k
<1>9. \A i \in 1..k - 1 : i + 1 \in 2..k
      BY <1>2
<1>10. \A i \in 1..n + m : Numbered(toHost'[i]) => toHost'[i].id <= written'
      BY <1>1, <1>3, <1>4, <1>5 DEF Exchange, InOrder, n
<1>11. /\ \A i \in 1..k - 1 : toBoard'[i].id <= written'
       /\ \A i, j \in 1..k - 1 : i < j => toBoard'[i].id < toBoard'[j].id
       /\ \A i \in 1..Len(acks'), j \in 1..k - 1 : acks'[i].id < toBoard'[j].id
      BY <1>2 DEF Exchange, InOrder, k
<1>12. \A i \in 1..n + m, j \in 1..k - 1 :
           Numbered(toHost'[i]) => toHost'[i].id < toBoard'[j].id
  <2>1. \A i \in 1..n, j \in 1..k : Numbered(toHost[i]) => toHost[i].id < toBoard[j].id
        BY DEF Exchange, InOrder, n, k
  <2>2. QED
        BY <1>1, <1>2, <1>3, <1>4, <1>6, <1>9, <2>1
<1>13. ASSUME NEW i \in 1..n + m, NEW j \in 1..n + m, i < j,
              toHost'[i].kind = "sack", Numbered(toHost'[j])
       PROVE  toHost'[i].id < toHost'[j].id
  <2>1. CASE j \in 1..n
    <3>1. i \in 1..n
          BY <1>1, <1>13, <2>1
    <3>2. \A x, y \in 1..n : x < y /\ toHost[x].kind = "sack" /\ Numbered(toHost[y])
                                => toHost[x].id < toHost[y].id
          BY DEF Exchange, InOrder, n
    <3>3. QED
          BY <1>1, <1>13, <2>1, <3>1, <3>2
  <2>2. CASE j > n /\ i \in 1..n
    <3>1. Numbered(toHost[i]) /\ toHost'[i] = toHost[i]
          BY <1>1, <1>13, <2>2 DEF Numbered
    <3>2. QED
          BY <1>1, <1>3, <1>7, <2>2, <3>1
  <2>3. CASE j > n /\ i > n
    <3>1. i - n \in 1..m /\ j - n \in 1..m /\ i - n < j - n
          BY <1>1, <1>13, <2>3
    <3>2. i - n = m
          BY <1>1, <1>3, <1>13, <2>3
    <3>3. QED
          BY <1>1, <3>1, <3>2
  <2>4. QED
        BY <1>4, <2>1, <2>2, <2>3
<1>14. \A i \in 1..Len(acks'), j \in 1..n + m :
           Numbered(toHost'[j]) => acks'[i].id < toHost'[j].id
  <2>1. \A i \in 1..Len(acks), j \in 1..n :
            Numbered(toHost[j]) => acks[i].id < toHost[j].id
        BY DEF Exchange, InOrder, n
  <2>2. QED
        BY <1>1, <1>3, <1>4, <1>8, <2>1
<1>15. /\ call' # None => call'.id = written'
       /\ \A i \in 1..Len(acks') : acks'[i].id <= written'
      BY DEF Exchange, InOrder
<1>16. QED
      BY <1>1, <1>2, <1>10, <1>11, <1>12, <1>13, <1>14, <1>15 DEF InOrder, Numbered

LEMMA AnswerKeepsExchange ==
    ASSUME Exchange, TypeInv', BoardAnswers
    PROVE  InOrder' /\ OnlyOwn' /\ OwnPayloads' /\ Intact' /\ ValueFirst'
<1> DEFINE command == toBoard[1]
           n == Len(toHost)
<1>1. /\ toBoard # <<>> /\ toBoard' = Tail(toBoard)
      /\ call' = call /\ acks' = acks /\ lastPayload' = lastPayload /\ catalog' = catalog
      /\ written' = written /\ faults' = faults /\ expired' = expired
      BY DEF BoardAnswers, serviceVars
<1>2. command \in CommandLine /\ Head(toBoard) = command /\ 1 \in 1..Len(toBoard)
      BY <1>1, Typed DEF Exchange
<1>3. PICK answer \in Answers(command) : toHost' = toHost \o answer
      BY <1>2 DEF BoardAnswers
<1>4. AnswerTo(answer, command)
      BY <1>2, <1>3, AnswerShape
<1> DEFINE m == Len(answer)
<1>5. InOrder'
      BY <1>1, <1>3, <1>4, AnswerOrder
<1>6. /\ n \in Nat /\ m \in Nat /\ Len(toHost') = n + m
      /\ \A i \in 1..n : toHost'[i] = toHost[i]
      /\ \A i \in 1..m : i + n \in 1..n + m /\ toHost'[i + n] = answer[i]
      /\ \A i \in 1..n + m :
            \/ i \in 1..n
            \/ i - n \in 1..m /\ toHost'[i] = answer[i - n]
      BY <1>3, <1>4, Typed DEF Exchange, AnswerTo
<1>7. /\ Len(toBoard) \in Nat /\ Len(toBoard') = Len(toBoard) - 1
      /\ \A i \in 1..Len(toBoard') :
            toBoard'[i] = toBoard[i + 1] /\ i + 1 \in 1..Len(toBoard)
      BY <1>1, Typed DEF Exchange
<1>8. \A i \in 1..m :
          /\ answer[i].id = command.id
          /\ answer[i].kind = "sack" => answer[i].verb = CommandVerb(command)
          /\ answer[i].kind \in {"payload", "catalog"} => command.sub # "garbled"
          /\ command.sub = "GET" /\ answer[i].kind = "sack" /\ answer[i].ok =>
                \E j \in 1..i - 1 : answer[j].kind = "payload"
          /\ command.sub # "HB"
      BY <1>4 DEF AnswerTo
<1> HIDE DEF n, m, command
<1>9. Own(command.id, CommandVerb(command))
      BY <1>2 DEF Exchange, OnlyOwn, command
<1>10. OnlyOwn'
  <2>1. \A i \in 1..n + m :
            toHost'[i].kind = "sack" => Own(toHost'[i].id, toHost'[i].verb)
        BY <1>6, <1>8, <1>9 DEF Exchange, OnlyOwn, n
  <2>2. \A i \in 1..Len(toBoard') : Own(toBoard'[i].id, CommandVerb(toBoard'[i]))
        BY <1>7 DEF Exchange, OnlyOwn
  <2>3. call # None => \A i \in 1..Len(acks) : Own(acks[i].id, acks[i].verb)
        BY DEF Exchange, OnlyOwn
  <2>4. QED
        BY <1>1, <1>6, <2>1, <2>2, <2>3 DEF OnlyOwn, Own, CommandVerb
<1>11. expired = {} /\ command.sub \notin {"garbled", "HB"} =>
           command = call /\ call # None
  <2>1. SUFFICES ASSUME expired = {}, command.sub \notin {"garbled", "HB"}
                 PROVE  command = call /\ call # None
        OBVIOUS
  <2>2. command = call
        BY <1>2, <2>1 DEF Exchange, Intact, command
  <2>3. command.sub \in Calls
        BY <1>2, <2>1 DEF CommandLine, BoardSub
  <2>4. CommandVerb(command) \in {"STAT", "CFG"}
        BY <2>1, <2>3, VerbTypes DEF CommandVerb
  <2>5. QED
        BY <1>9, <2>1, <2>2, <2>4 DEF Own
<1>12. OwnPayloads'
  <2>1. expired = {} =>
            \A i \in 1..n + m :
                toHost'[i].kind \in {"payload", "catalog"} =>
                    call # None /\ toHost'[i].id = call.id
        BY <1>6, <1>8, <1>11 DEF Exchange, OwnPayloads, n
  <2>2. QED
        BY <1>1, <1>6, <2>1 DEF Exchange, OwnPayloads
<1>13. Intact'
      BY <1>1, <1>7 DEF Exchange, Intact
<1>14. ValueFirst'
  <2>1. SUFFICES ASSUME faults = 0, expired = {}, call # None, call.sub = "GET"
                 PROVE  /\ \A i \in 1..n + m :
                              /\ toHost'[i].kind = "sack" /\ toHost'[i].verb = "CFG"
                              /\ toHost'[i].ok
                              => \/ lastPayload = call.id
                                 \/ \E j \in 1..i - 1 : toHost'[j].kind = "payload"
                        /\ \A i \in 1..Len(acks) :
                              acks[i].verb = "CFG" /\ acks[i].ok => lastPayload = call.id
        BY <1>1, <1>6 DEF ValueFirst
  <2>2. /\ \A i \in 1..n :
              toHost[i].kind = "sack" /\ toHost[i].verb = "CFG" /\ toHost[i].ok =>
                  \/ lastPayload = call.id
                  \/ \E j \in 1..i - 1 : toHost[j].kind = "payload"
        /\ \A i \in 1..Len(acks) :
              acks[i].verb = "CFG" /\ acks[i].ok => lastPayload = call.id
        BY <2>1 DEF Exchange, ValueFirst, n
  <2>3. ASSUME NEW i \in 1..n + m, toHost'[i].kind = "sack", toHost'[i].verb = "CFG",
               toHost'[i].ok, lastPayload # call.id
        PROVE  \E j \in 1..i - 1 : toHost'[j].kind = "payload"
    <3>1. CASE i \in 1..n
      <4>1. PICK j \in 1..i - 1 : toHost[j].kind = "payload"
            BY <1>6, <2>2, <2>3, <3>1
      <4>2. j \in 1..n
            BY <1>6, <3>1
      <4>3. QED
            BY <1>6, <4>1, <4>2
    <3>2. CASE i - n \in 1..m /\ toHost'[i] = answer[i - n]
      <4>1. command.sub # "garbled"
            BY <1>2, <2>1 DEF Exchange, Intact, command
      <4>2. command.sub = "GET"
            BY <1>8, <1>11, <2>1, <3>2, <4>1
      <4>3. PICK j \in 1..i - n - 1 : answer[j].kind = "payload"
            BY <1>8, <2>3, <3>2, <4>2
      <4>4. j \in 1..m /\ j + n \in 1..i - 1
            BY <1>6, <3>2
      <4>5. QED
            BY <1>6, <4>3, <4>4
    <3>3. QED
          BY <1>6, <3>1, <3>2
  <2>4. QED
        BY <2>2, <2>3
<1>15. QED
      BY <1>5, <1>10, <1>12, <1>13, <1>14

LEMMA EmitKeepsExchange ==
    ASSUME Exchange, TypeInv', BoardEmits
    PROVE  InOrder' /\ OnlyOwn' /\ OwnPayloads' /\ Intact' /\ ValueFirst'
<1> DEFINE n == Len(toHost)
<1>1. /\ toBoard' = toBoard /\ toHost' = Append(toHost, Telemetry(sent'))
      /\ call' = call /\ acks' = acks /\ lastPayload' = lastPayload /\ catalog' = catalog
      /\ written' = written /\ faults' = faults /\ expired' = expired
      BY DEF BoardEmits, serviceVars
<1>2. /\ n \in Nat /\ Len(toHost') = n + 1 /\ toHost'[n + 1] = Telemetry(sent')
      /\ \A i \in 1..n : toHost'[i] = toHost[i]
      /\ \A i \in 1..n + 1 : i \in 1..n \/ i = n + 1
      BY <1>1, Typed DEF Exchange
<1>3. Telemetry(sent').kind = "telemetry"
      BY DEF Telemetry
<1> HIDE DEF n
<1>4. \A i \in 1..n + 1 :
          toHost'[i].kind # "telemetry" => i \in 1..n /\ toHost'[i] = toHost[i]
      BY <1>2, <1>3
<1>5. \A line : Numbered(line) => line.kind # "telemetry"
      BY DEF Numbered
<1>6. InOrder'
  <2>1. /\ call' # None => call'.id = written'
        /\ \A i \in 1..Len(toBoard') : toBoard'[i].id <= written'
        /\ \A i \in 1..Len(acks') : acks'[i].id <= written'
        /\ \A i, j \in 1..Len(toBoard') : i < j => toBoard'[i].id < toBoard'[j].id
        /\ \A i \in 1..Len(acks'), j \in 1..Len(toBoard') : acks'[i].id < toBoard'[j].id
        BY <1>1 DEF Exchange, InOrder
  <2>2. /\ \A i \in 1..n + 1 : Numbered(toHost'[i]) => toHost'[i].id <= written'
        /\ \A i \in 1..n + 1, j \in 1..Len(toBoard') :
              Numbered(toHost'[i]) => toHost'[i].id < toBoard'[j].id
        /\ \A i, j \in 1..n + 1 :
              i < j /\ toHost'[i].kind = "sack" /\ Numbered(toHost'[j]) =>
                  toHost'[i].id < toHost'[j].id
        /\ \A i \in 1..Len(acks'), j \in 1..n + 1 :
              Numbered(toHost'[j]) => acks'[i].id < toHost'[j].id
        BY <1>1, <1>4, <1>5 DEF Exchange, InOrder, n
  <2>3. QED
        BY <1>2, <2>1, <2>2 DEF InOrder, Numbered
<1>7. OnlyOwn'
  <2>1. \A i \in 1..n + 1 :
            toHost'[i].kind = "sack" => Own(toHost'[i].id, toHost'[i].verb)
        BY <1>4 DEF Exchange, OnlyOwn, n
  <2>2. QED
        BY <1>1, <1>2, <2>1 DEF Exchange, OnlyOwn, Own, CommandVerb
<1>8. OwnPayloads'
  <2>1. expired = {} =>
            \A i \in 1..n + 1 :
                toHost'[i].kind \in {"payload", "catalog"} =>
                    call # None /\ toHost'[i].id = call.id
        BY <1>4 DEF Exchange, OwnPayloads, n
  <2>2. QED
        BY <1>1, <1>2, <2>1 DEF Exchange, OwnPayloads
<1>9. Intact'
      BY <1>1 DEF Exchange, Intact
<1>10. ValueFirst'
  <2>1. SUFFICES ASSUME faults = 0, expired = {}, call # None, call.sub = "GET",
                        NEW i \in 1..n + 1, toHost'[i].kind = "sack",
                        toHost'[i].verb = "CFG", toHost'[i].ok, lastPayload # call.id
                 PROVE  \E j \in 1..i - 1 : toHost'[j].kind = "payload"
        BY <1>1, <1>2 DEF Exchange, ValueFirst
  <2>2. i \in 1..n /\ toHost'[i] = toHost[i]
        BY <1>4, <2>1
  <2>3. PICK j \in 1..i - 1 : toHost[j].kind = "payload"
        BY <2>1, <2>2 DEF Exchange, ValueFirst, n
  <2>4. j \in 1..n
        BY <1>2, <2>2
  <2>5. QED
        BY <1>2, <2>3, <2>4
<1>11. QED
      BY <1>6, <1>7, <1>8, <1>9, <1>10

-----------------------------------------------------------------------------
(* What a line taken in by the host keeps *)

LEMMA ReadOrder ==
    ASSUME Exchange, TypeInv', HostReads
    PROVE  InOrder'
<1> DEFINE line == toHost[1]
           n == Len(toHost)
           m == Len(acks)
<1>1. /\ n \in Nat /\ 1 \in 1..n /\ Len(toHost') = n - 1 /\ Head(toHost) = line
      /\ \A i \in 1..n - 1 : toHost'[i] = toHost[i + 1] /\ i + 1 \in 2..n /\ i + 1 \in 1..n
      /\ toBoard' = toBoard /\ written' = written /\ call' = call
      BY Typed DEF HostReads, Exchange, Ingest
<1>2. acks' = IF line.kind = "sack" THEN Append(acks, line) ELSE acks
      BY <1>1 DEF HostReads, Ingest
<1>3. /\ m \in Nat
      /\ \A i \in 1..Len(acks') :
            \/ i \in 1..m /\ acks'[i] = acks[i]
            \/ line.kind = "sack" /\ acks'[i] = line
  <2>1. line.kind = "sack" => line \in SackLine
        BY <1>1, Typed, LineTypes DEF Exchange
  <2>2. QED
        BY <1>2, <2>1, Typed DEF Exchange
<1> HIDE DEF line, n, m
<1>4. Numbered(line) => line.id <= written
      BY <1>1 DEF Exchange, InOrder, line, n
<1>5. line.kind = "sack" =>
          /\ Numbered(line)
          /\ \A j \in 2..n : Numbered(toHost[j]) => line.id < toHost[j].id
          /\ \A j \in 1..Len(toBoard) : line.id < toBoard[j].id
  <2>1. \A j \in 2..n : j \in 1..n /\ 1 < j
        OBVIOUS
  <2>2. line.kind = "sack" => Numbered(line)
        BY DEF Numbered
  <2>3. QED
        BY <1>1, <2>1, <2>2 DEF Exchange, InOrder, line, n
<1>6. \A i \in 1..Len(acks') : acks'[i].id <= written'
      BY <1>1, <1>3, <1>4, <1>5 DEF Exchange, InOrder, m
<1>7. \A i \in 1..Len(acks'), j \in 1..Len(toBoard') : acks'[i].id < toBoard'[j].id
      BY <1>1, <1>3, <1>5 DEF Exchange, InOrder, m
<1>8. \A i \in 1..Len(acks'), j \in 1..n - 1 :
          Numbered(toHost'[j]) => acks'[i].id < toHost'[j].id
  <2>1. \A i \in 1..m, j \in 1..n : Numbered(toHost[j]) => acks[i].id < toHost[j].id
        BY DEF Exchange, InOrder, m, n
  <2>2. QED
        BY <1>1, <1>3, <1>5, <2>1
<1>9. /\ \A i \in 1..n - 1 : Numbered(toHost'[i]) => toHost'[i].id <= written'
      /\ \A i \in 1..n - 1, j \in 1..Len(toBoard') :
            Numbered(toHost'[i]) => toHost'[i].id < toBoard'[j].id
      BY <1>1 DEF Exchange, InOrder, n
<1>10. \A i, j \in 1..n - 1 :
           i < j /\ toHost'[i].kind = "sack" /\ Numbered(toHost'[j]) =>
               toHost'[i].id < toHost'[j].id
  <2>1. \A i, j \in 1..n :
            i < j /\ toHost[i].kind = "sack" /\ Numbered(toHost[j]) =>
                toHost[i].id < toHost[j].id
        BY DEF Exchange, InOrder, n
  <2>2. \A i, j \in 1..n - 1 : i < j => i + 1 < j + 1
        OBVIOUS
  <2>3. QED
        BY <1>1, <2>1, <2>2
<1>11. /\ call' # None => call'.id = written'
       /\ \A i \in 1..Len(toBoard') : toBoard'[i].id <= written'
       /\ \A i, j \in 1..Len(toBoard') : i < j => toBoard'[i].id < toBoard'[j].id
      BY <1>1 DEF Exchange, InOrder
<1>12. QED
      BY <1>1, <1>6, <1>7, <1>8, <1>9, <1>10, <1>11 DEF InOrder, Numbered

LEMMA ReadKeepsExchange ==
    ASSUME Exchange, TypeInv', HostReads
    PROVE  InOrder' /\ OnlyOwn' /\ OwnPayloads' /\ Intact' /\ ValueFirst'
<1> DEFINE line == toHost[1]
           n == Len(toHost)
           m == Len(acks)
           k == Len(catalog)
<1>1. /\ n \in Nat /\ 1 \in 1..n /\ Len(toHost') = n - 1 /\ Head(toHost) = line
      /\ \A i \in 1..n - 1 : toHost'[i] = toHost[i + 1] /\ i + 1 \in 1..n
      /\ toBoard' = toBoard /\ call' = call /\ faults' = faults /\ expired' = expired
      BY Typed DEF HostReads, Exchange, Ingest
<1>2. /\ acks' = IF line.kind = "sack" THEN Append(acks, line) ELSE acks
      /\ catalog' = IF TakesCatalogLine(line) THEN Append(catalog, line) ELSE catalog
      /\ lastPayload' = IF line.kind \in {"payload", "catalog"} /\ ~TakesCatalogLine(line)
                        THEN line.id ELSE lastPayload
      BY <1>1 DEF HostReads, Ingest
<1>3. /\ line.kind = "sack" => line \in SackLine
      /\ line.kind = "catalog" => line \in CatalogLines
      BY <1>1, Typed, LineTypes DEF Exchange
<1>4. \A i \in 1..Len(acks') :
          \/ i \in 1..m /\ acks'[i] = acks[i]
          \/ line.kind = "sack" /\ acks'[i] = line
      BY <1>2, <1>3, Typed DEF Exchange
<1>5. \A i \in 1..Len(catalog') :
          \/ i \in 1..k /\ catalog'[i] = catalog[i]
          \/ line.kind = "catalog" /\ catalog'[i] = line
  <2>1. TakesCatalogLine(line) => line.kind = "catalog"
        BY DEF TakesCatalogLine
  <2>2. QED
        BY <1>2, <1>3, <2>1, Typed DEF Exchange
<1> HIDE DEF line, n, m, k
<1>6. InOrder'
      BY ReadOrder
<1>7. OnlyOwn'
  <2>1. \A i \in 1..n - 1 :
            toHost'[i].kind = "sack" => Own(toHost'[i].id, toHost'[i].verb)
        BY <1>1 DEF Exchange, OnlyOwn, n
  <2>2. line.kind = "sack" => Own(line.id, line.verb)
        BY <1>1 DEF Exchange, OnlyOwn, n, line
  <2>3. call # None => \A i \in 1..Len(acks') : Own(acks'[i].id, acks'[i].verb)
        BY <1>4, <2>2 DEF Exchange, OnlyOwn, m
  <2>4. QED
        BY <1>1, <2>1, <2>3 DEF Exchange, OnlyOwn, Own, CommandVerb
<1>8. expired = {} /\ line.kind \in {"payload", "catalog"} =>
          call # None /\ line.id = call.id
      BY <1>1 DEF Exchange, OwnPayloads, n, line
<1>9. OwnPayloads'
  <2>1. SUFFICES ASSUME expired = {} PROVE OwnPayloads'
        BY <1>1 DEF OwnPayloads
  <2>2. \A i \in 1..n - 1 :
            toHost'[i].kind \in {"payload", "catalog"} =>
                call # None /\ toHost'[i].id = call.id
        BY <1>1, <2>1 DEF Exchange, OwnPayloads, n
  <2>3. call # None => lastPayload' \in {call.id, None}
        BY <1>2, <1>8, <2>1 DEF Exchange, OwnPayloads
  <2>4. call # None /\ call.sub = "LIST" =>
            \A i \in 1..Len(catalog') : catalog'[i].id = call.id
        BY <1>5, <1>8, <2>1 DEF Exchange, OwnPayloads, k
  <2>5. QED
        BY <1>1, <2>2, <2>3, <2>4 DEF OwnPayloads
<1>10. Intact'
      BY <1>1 DEF Exchange, Intact
<1>11. ValueFirst'
  <2>1. SUFFICES ASSUME faults = 0, expired = {}, call # None, call.sub = "GET"
                 PROVE  /\ \A i \in 1..n - 1 :
                              /\ toHost'[i].kind = "sack" /\ toHost'[i].verb = "CFG"
                              /\ toHost'[i].ok
                              => \/ lastPayload' = call.id
                                 \/ \E j \in 1..i - 1 : toHost'[j].kind = "payload"
                        /\ \A i \in 1..Len(acks') :
                              acks'[i].verb = "CFG" /\ acks'[i].ok =>
                                  lastPayload' = call.id
        BY <1>1 DEF ValueFirst
  <2>2. lastPayload = call.id => lastPayload' = call.id
        BY <1>2, <1>8, <2>1
  <2>3. line.kind = "payload" => lastPayload' = call.id
        BY <1>2, <1>8, <2>1 DEF TakesCatalogLine
  <2>4. ASSUME NEW i \in 1..n, toHost[i].kind = "sack", toHost[i].verb = "CFG",
               toHost[i].ok, lastPayload' # call.id
        PROVE  \E j \in 2..i - 1 : toHost[j].kind = "payload"
    <3>1. PICK j \in 1..i - 1 : toHost[j].kind = "payload"
          BY <2>1, <2>2, <2>4 DEF Exchange, ValueFirst, n
    <3>2. j # 1
          BY <2>3, <2>4, <3>1 DEF line
    <3>3. QED
          BY <3>1, <3>2
  <2>5. ASSUME NEW i \in 1..n - 1, toHost'[i].kind = "sack", toHost'[i].verb = "CFG",
               toHost'[i].ok, lastPayload' # call.id
        PROVE  \E j \in 1..i - 1 : toHost'[j].kind = "payload"
    <3>1. i + 1 \in 1..n /\ toHost'[i] = toHost[i + 1] /\ (i + 1) - 1 = i
          BY <1>1
    <3>2. PICK j \in 2..i : toHost[j].kind = "payload"
          BY <2>4, <2>5, <3>1
    <3>3. /\ j - 1 \in 1..i - 1 /\ j - 1 \in 1..n - 1 /\ (j - 1) + 1 = j
          BY <1>1
    <3>4. toHost'[j - 1] = toHost[j]
          BY <1>1, <3>3
    <3>5. QED
          BY <3>2, <3>3, <3>4
  <2>6. line.kind = "sack" /\ line.verb = "CFG" /\ line.ok => lastPayload' = call.id
        BY <1>1, <2>4 DEF line
  <2>7. \A i \in 1..m : acks[i].verb = "CFG" /\ acks[i].ok => lastPayload = call.id
        BY <2>1 DEF Exchange, ValueFirst, m
  <2>8. QED
        BY <1>4, <2>2, <2>5, <2>6, <2>7
<1>12. QED
      BY <1>6, <1>7, <1>9, <1>10, <1>11

-----------------------------------------------------------------------------
(* Damaged lines *)

LEMMA GarbledFinite ==
    ASSUME NEW s \in Seq(Line)
    PROVE  IsFiniteSet(GarbledAt(s)) /\ Cardinality(GarbledAt(s)) \in Nat
<1>1. 1 \in Int /\ Len(s) \in Int
      OBVIOUS
<1>2. IsFiniteSet(1..Len(s))
      BY <1>1, FS_Interval
<1>3. GarbledAt(s) \in SUBSET (1..Len(s))
      BY DEF GarbledAt
<1>4. QED
      BY <1>2, <1>3, FS_Subset, FS_CardinalityType

LEMMA FewerGarbled ==
    ASSUME NEW s \in Seq(Line), NEW t, Thinned(t, s)
    PROVE  Cardinality(GarbledAt(t)) <= Cardinality(GarbledAt(s))
<1>1. PICK f : /\ Increasing(f, Len(t), Len(s))
               /\ \A i \in 1..Len(t) : t[i] = s[f[i]]
      BY Zenon DEF Thinned
<1> DEFINE g == [i \in GarbledAt(t) |-> f[i]]
<1>2. \A i \in GarbledAt(t) : i \in 1..Len(t) /\ f[i] \in GarbledAt(s)
      BY <1>1 DEF GarbledAt, Increasing
<1>3. \A i, j \in GarbledAt(t) : f[i] = f[j] => i = j
  <2>1. ASSUME NEW i \in 1..Len(t), NEW j \in 1..Len(t), f[i] = f[j], i # j
        PROVE  FALSE
    <3>1. i < j \/ j < i
          BY <2>1
    <3>2. f[i] \in Int /\ f[j] \in Int
          BY <1>1, <2>1 DEF Increasing
    <3>3. QED
          BY <1>1, <2>1, <3>1, <3>2 DEF Increasing
  <2>2. QED
        BY <1>2, <2>1
<1>4. g \in Injection(GarbledAt(t), GarbledAt(s))
      BY <1>2, <1>3 DEF Injection, IsInjective
<1>5. QED
      BY <1>4, GarbledFinite, FS_Injection

LEMMA OneGarbledRead ==
    ASSUME NEW s \in Seq(Line), s # <<>>
    PROVE  Cardinality(GarbledAt(Tail(s)))
               <= Cardinality(GarbledAt(s)) - (IF s[1] = Garbled THEN 1 ELSE 0)
<1> DEFINE rest == GarbledAt(s) \ {1}
           g == [i \in GarbledAt(Tail(s)) |-> i + 1]
<1>1. /\ IsFiniteSet(rest)
      /\ Cardinality(rest) = IF 1 \in GarbledAt(s) THEN Cardinality(GarbledAt(s)) - 1
                                                   ELSE Cardinality(GarbledAt(s))
      BY GarbledFinite, FS_RemoveElement
<1>2. 1 \in GarbledAt(s) <=> s[1] = Garbled
      BY DEF GarbledAt
<1>3. \A i \in GarbledAt(Tail(s)) : i \in Nat \ {0} /\ i + 1 \in GarbledAt(s)
      BY DEF GarbledAt
<1>4. g \in Injection(GarbledAt(Tail(s)), rest)
  <2>1. \A i \in GarbledAt(Tail(s)) : i + 1 \in rest
        BY <1>3
  <2>2. \A i, j \in GarbledAt(Tail(s)) : i + 1 = j + 1 => i = j
        BY <1>3
  <2> HIDE DEF rest
  <2>3. QED
        BY <2>1, <2>2 DEF Injection, IsInjective
<1> HIDE DEF rest
<1>5. Cardinality(GarbledAt(Tail(s))) <= Cardinality(rest)
      BY <1>1, <1>4, FS_Injection
<1>6. Cardinality(GarbledAt(s)) \in Nat
      BY GarbledFinite
<1>7. QED
      BY <1>1, <1>2, <1>5, <1>6

LEMMA NoneGarbledAdded ==
    ASSUME NEW s \in Seq(Line), NEW t \in Seq(Line),
           \A i \in 1..Len(t) : t[i] # Garbled
    PROVE  GarbledAt(s \o t) = GarbledAt(s)
<1> DEFINE both == s \o t
<1>1. /\ Len(both) = Len(s) + Len(t) /\ Len(s) \in Nat /\ Len(t) \in Nat
      /\ \A i \in 1..Len(s) : both[i] = s[i]
      /\ \A i \in 1..Len(s) + Len(t) :
            i \notin 1..Len(s) => i - Len(s) \in 1..Len(t) /\ both[i] = t[i - Len(s)]
      OBVIOUS
<1> HIDE DEF both
<1>2. GarbledAt(both) = GarbledAt(s)
      BY <1>1 DEF GarbledAt
<1>3. QED
      BY <1>2 DEF both

LEMMA OneGarbled ==
    ASSUME NEW s \in Seq(Line), NEW n \in 1..Len(s)
    PROVE  Cardinality(GarbledAt([s EXCEPT ![n] = Garbled]))
               <= Cardinality(GarbledAt(s)) + 1
<1> DEFINE S == GarbledAt(s)
<1>1. GarbledAt([s EXCEPT ![n] = Garbled]) = S \cup {n}
      BY DEF GarbledAt
<1>2. IsFiniteSet(S) /\ Cardinality(S) \in Nat
      BY GarbledFinite
<1> HIDE DEF S
<1>3. Cardinality(S \cup {n}) = IF n \in S THEN Cardinality(S) ELSE Cardinality(S) + 1
      BY <1>2, FS_AddElement, Zenon
<1>4. Cardinality(S \cup {n}) <= Cardinality(S) + 1
      BY <1>2, <1>3
<1>5. QED
      BY <1>1, <1>4 DEF S

\* A line is counted as damaged once, when the host takes it in.
LEMMA DamageStep ==
    ASSUME TypeInv, DamageCounted, [Next]_vars
    PROVE  DamageCounted'
<1> DEFINE g == Cardinality(GarbledAt(toHost))
<1>1. g \in Nat /\ corruptTotal \in Nat /\ faults \in Nat /\ toHost \in Seq(Line)
      BY Typed, GarbledFinite
<1>2. corruptTotal + g <= faults
      BY DEF DamageCounted
<1>3. ASSUME UNCHANGED <<toHost, corruptTotal, faults>> PROVE DamageCounted'
      BY <1>3 DEF DamageCounted, GarbledAt
<1>4. CASE \/ \E sub \in Calls : Send(sub)
           \/ HostReturns \/ HostExpires \/ Heartbeat
           \/ UNCHANGED vars
      BY <1>3, <1>4
      DEF Send, StartCall, HostReturns, Return, HostExpires, Expire, Heartbeat,
          vars, serviceVars, lineVars
<1>5. CASE HostReads
  <2>1. /\ toHost # <<>> /\ toHost' = Tail(toHost) /\ faults' = faults
        /\ Head(toHost) = toHost[1] /\ toHost[1] \in Line
        /\ corruptTotal' = IF toHost[1].kind = "garbled" THEN corruptTotal + 1
                                                         ELSE corruptTotal
        BY <1>1, <1>5 DEF HostReads, Ingest
  <2>2. toHost[1].kind = "garbled" <=> toHost[1] = Garbled
        BY <2>1, LineTypes
  <2>3. Cardinality(GarbledAt(Tail(toHost)))
            <= g - (IF toHost[1] = Garbled THEN 1 ELSE 0)
        BY <1>1, <2>1, OneGarbledRead
  <2>4. Cardinality(GarbledAt(Tail(toHost))) \in Nat
    <3>1. Tail(toHost) \in Seq(Line)
          BY <1>1, <2>1
    <3>2. QED
          BY <3>1, GarbledFinite
  <2> HIDE DEF g
  <2>5. corruptTotal' + Cardinality(GarbledAt(Tail(toHost))) <= faults'
        BY <1>1, <1>2, <2>1, <2>2, <2>3, <2>4
  <2>6. QED
        BY <2>1, <2>5 DEF DamageCounted
<1>6. CASE HostRestarts
  <2>1. PICK n \in 0..Len(toHost) :
            toHost' = SubSeq(toHost, n + 1, Len(toHost))
        BY <1>6 DEF HostRestarts
  <2>2. corruptTotal' = 0 /\ faults' = faults + 1
        BY <1>6 DEF HostRestarts, Fault
  <2>3. Cardinality(GarbledAt(toHost')) <= g /\ toHost' \in Seq(Line)
        BY <1>1, <2>1, SuffixKeepsOrder, FewerGarbled
  <2>4. Cardinality(GarbledAt(toHost')) \in Nat
        BY <2>3, GarbledFinite
  <2> HIDE DEF g
  <2>5. 0 + Cardinality(GarbledAt(toHost')) <= faults + 1
        BY <1>1, <1>2, <2>3, <2>4
  <2>6. QED
        BY <2>2, <2>5 DEF DamageCounted, GarbledAt
<1>7. CASE LoseLine
  <2>1. PICK n \in 1..Len(toHost) : toHost' = RemoveAt(toHost, n)
        BY <1>1, <1>7 DEF LoseLine
  <2>2. corruptTotal' = corruptTotal /\ faults' = faults + 1
        BY <1>7 DEF LoseLine, Fault, serviceVars
  <2>3. Cardinality(GarbledAt(toHost')) <= g /\ toHost' \in Seq(Line)
        BY <1>1, <2>1, RemoveKeepsOrder, FewerGarbled
  <2>4. Cardinality(GarbledAt(toHost')) \in Nat
        BY <2>3, GarbledFinite
  <2> HIDE DEF g
  <2>5. corruptTotal + Cardinality(GarbledAt(toHost')) <= faults + 1
        BY <1>1, <1>2, <2>3, <2>4
  <2>6. QED
        BY <2>2, <2>5 DEF DamageCounted, GarbledAt
<1>8. CASE GarbleLine
  <2>1. PICK n \in 1..Len(toHost) : toHost' = [toHost EXCEPT ![n] = Garbled]
    <3>1. DOMAIN toHost = 1..Len(toHost)
          BY <1>1
    <3>2. \E i \in DOMAIN toHost : toHost' = [toHost EXCEPT ![i] = Garbled]
          BY <1>8, Zenon DEF GarbleLine
    <3>3. QED
          BY <3>1, <3>2, Zenon
  <2>2. corruptTotal' = corruptTotal /\ faults' = faults + 1
        BY <1>8 DEF GarbleLine, Fault, serviceVars
  <2>3. Cardinality(GarbledAt(toHost')) <= g + 1 /\ toHost' \in Seq(Line)
        BY <1>1, <2>1, OneGarbled, LossSpoils
  <2>4. Cardinality(GarbledAt(toHost')) \in Nat
        BY <2>3, GarbledFinite
  <2> HIDE DEF g
  <2>5. corruptTotal + Cardinality(GarbledAt(toHost')) <= faults + 1
        BY <1>1, <1>2, <2>3, <2>4
  <2>6. QED
        BY <2>2, <2>5 DEF DamageCounted, GarbledAt
<1>9. CASE LoseCommand \/ GarbleCommand
  <2>1. corruptTotal' = corruptTotal /\ faults' = faults + 1 /\ toHost' = toHost
        BY <1>9 DEF LoseCommand, GarbleCommand, Fault, serviceVars
  <2> HIDE DEF g
  <2>2. corruptTotal + g <= faults + 1
        BY <1>1, <1>2
  <2>3. QED
        BY <2>1, <2>2 DEF DamageCounted, GarbledAt, g
<1>10. CASE BoardAnswers
  <2>1. /\ toBoard # <<>> /\ corruptTotal' = corruptTotal /\ faults' = faults
        /\ Head(toBoard) \in CommandLine
        BY <1>10, Typed DEF BoardAnswers, serviceVars
  <2>2. PICK answer \in Answers(Head(toBoard)) : toHost' = toHost \o answer
        BY <1>10 DEF BoardAnswers
  <2>3. /\ answer \in Seq(Line)
        /\ \A i \in 1..Len(answer) : answer[i] # Garbled
    <3>1. AnswerTo(answer, Head(toBoard))
          BY <2>1, <2>2, AnswerShape
    <3>2. \A line : Numbered(line) => line # Garbled
          BY DEF Numbered, Garbled
    <3>3. QED
          BY <3>1, <3>2 DEF AnswerTo
  <2>4. GarbledAt(toHost \o answer) = GarbledAt(toHost)
        BY <1>1, <2>3, NoneGarbledAdded
  <2>5. QED
        BY <2>1, <2>2, <2>4 DEF DamageCounted
<1>11. CASE BoardEmits
  <2>1. /\ corruptTotal' = corruptTotal /\ faults' = faults
        /\ toHost' = Append(toHost, Telemetry(sent')) /\ sent' \in 1..MaxRecords
        BY <1>11, Typed, SessionAssumption DEF BoardEmits, serviceVars
  <2>2. Telemetry(sent') \in Line /\ Telemetry(sent') # Garbled
        BY <2>1 DEF Telemetry, Garbled, Line, TelemetryLine
  <2>3. GarbledAt(toHost') = GarbledAt(toHost)
        BY <1>1, <2>1, <2>2 DEF GarbledAt
  <2>4. QED
        BY <2>1, <2>3 DEF DamageCounted, GarbledAt
<1>12. QED
      BY <1>4, <1>5, <1>6, <1>7, <1>8, <1>9, <1>10, <1>11 DEF Next

-----------------------------------------------------------------------------
(* Types *)

LEMMA CommandTyped ==
    ASSUME TypeInv, NEW sub \in BoardSub, Write(Command(written + 1, sub))
    PROVE  /\ Command(written + 1, sub) \in CommandLine
           /\ toBoard' \in Seq(CommandLine) /\ written' \in 0..MaxCommands
           /\ toBoard' = Append(toBoard, Command(written + 1, sub))
           /\ written' = written + 1
<1>1. /\ written < MaxCommands /\ written' = written + 1
      /\ toBoard' = Append(toBoard, Command(written + 1, sub))
      BY DEF Write
<1>2. written + 1 \in Number /\ written' \in 0..MaxCommands
      BY <1>1, SessionAssumption DEF TypeInv, TypeOK, Number
<1>3. Command(written + 1, sub) \in CommandLine
      BY <1>2 DEF Command, CommandLine
<1>4. toBoard' \in Seq(CommandLine)
      BY <1>1, <1>3, Typed
<1>5. QED
      BY <1>1, <1>2, <1>3, <1>4

\* The lines in transit and the counters.
LEMMA LinesTyped ==
    ASSUME TypeInv, [Next]_vars
    PROVE  /\ toHost' \in Seq(Line) /\ toBoard' \in Seq(CommandLine)
           /\ written' \in 0..MaxCommands /\ sent' \in 0..MaxRecords
           /\ faults' \in 0..MaxFaults /\ corruptTotal' \in Nat
<1> DEFINE Good == /\ toHost' \in Seq(Line) /\ toBoard' \in Seq(CommandLine)
                   /\ written' \in 0..MaxCommands /\ sent' \in 0..MaxRecords
                   /\ faults' \in 0..MaxFaults /\ corruptTotal' \in Nat
<1>1. /\ toHost \in Seq(Line) /\ toBoard \in Seq(CommandLine)
      /\ written \in 0..MaxCommands /\ sent \in 0..MaxRecords
      /\ faults \in 0..MaxFaults /\ corruptTotal \in Nat
      BY Typed DEF TypeInv, TypeOK
<1>2. ASSUME Fault PROVE faults' \in 0..MaxFaults
      BY <1>1, <1>2, SessionAssumption DEF Fault
<1>3. CASE \E sub \in Calls : Send(sub)
  <2>1. PICK sub \in Calls : Send(sub)
        BY <1>3
  <2>2. toBoard' \in Seq(CommandLine) /\ written' \in 0..MaxCommands
        BY <2>1, CommandTyped DEF Send, BoardSub
  <2>3. QED
        BY <1>1, <2>1, <2>2 DEF Send, StartCall
<1>4. CASE Heartbeat
  <2>1. toBoard' \in Seq(CommandLine) /\ written' \in 0..MaxCommands
        BY <1>4, CommandTyped DEF Heartbeat, BoardSub
  <2>2. QED
        BY <1>1, <1>4, <2>1 DEF Heartbeat, serviceVars
<1>5. CASE HostReads
      BY <1>1, <1>5 DEF HostReads, Ingest
<1>6. CASE HostReturns \/ HostExpires \/ UNCHANGED vars
      BY <1>1, <1>6
      DEF HostReturns, Return, HostExpires, Expire, vars, serviceVars, lineVars
<1>7. CASE HostRestarts
  <2>1. PICK n \in 0..Len(toHost) : toHost' = SubSeq(toHost, n + 1, Len(toHost))
        BY <1>7 DEF HostRestarts
  <2>2. toHost' \in Seq(Line)
        BY <1>1, <2>1, LossSpoils
  <2>3. QED
        BY <1>1, <1>2, <1>7, <2>2 DEF HostRestarts
<1>8. CASE BoardAnswers
  <2>1. toBoard # <<>> /\ Head(toBoard) \in CommandLine /\ toBoard' = Tail(toBoard)
        BY <1>1, <1>8 DEF BoardAnswers
  <2>2. PICK answer \in Answers(Head(toBoard)) : toHost' = toHost \o answer
        BY <1>8 DEF BoardAnswers
  <2>3. answer \in Seq(Line)
        BY <2>1, <2>2, AnswerShape DEF AnswerTo
  <2>4. toHost' \in Seq(Line) /\ toBoard' \in Seq(CommandLine)
        BY <1>1, <2>1, <2>2, <2>3
  <2>5. QED
        BY <1>1, <1>8, <2>4 DEF BoardAnswers, serviceVars
<1>9. CASE BoardEmits
  <2>1. sent' \in 1..MaxRecords /\ toHost' = Append(toHost, Telemetry(sent'))
        BY <1>1, <1>9, SessionAssumption DEF BoardEmits
  <2>2. Telemetry(sent') \in Line
        BY <2>1 DEF Telemetry, Line, TelemetryLine
  <2>3. QED
        BY <1>1, <1>9, <2>1, <2>2 DEF BoardEmits, serviceVars
<1>10. CASE LoseLine
  <2>1. PICK n \in 1..Len(toHost) : toHost' = RemoveAt(toHost, n)
        BY <1>1, <1>10 DEF LoseLine
  <2>2. toHost' \in Seq(Line)
        BY <1>1, <2>1, LossSpoils
  <2>3. QED
        BY <1>1, <1>2, <1>10, <2>2 DEF LoseLine, serviceVars
<1>11. CASE GarbleLine
  <2>1. \E n \in DOMAIN toHost : toHost' = [toHost EXCEPT ![n] = Garbled]
        BY <1>11, Zenon DEF GarbleLine
  <2>2. toHost' \in Seq(Line)
        BY <1>1, <2>1, LossSpoils
  <2>3. QED
        BY <1>1, <1>2, <1>11, <2>2 DEF GarbleLine, serviceVars
<1>12. CASE LoseCommand
  <2>1. PICK n \in 1..Len(toBoard) : toBoard' = RemoveAt(toBoard, n)
        BY <1>1, <1>12 DEF LoseCommand
  <2>2. toBoard' \in Seq(CommandLine)
        BY <1>1, <2>1, LossSpoilsCommands
  <2>3. QED
        BY <1>1, <1>2, <1>12, <2>2 DEF LoseCommand, serviceVars
<1>13. CASE GarbleCommand
  <2>1. PICK n \in DOMAIN toBoard :
            /\ toBoard[n].sub # "garbled"
            /\ toBoard' = [toBoard EXCEPT ![n] =
                              [id |-> @.id, sub |-> "garbled", was |-> @.sub]]
        BY <1>13, Zenon DEF GarbleCommand
  <2>2. toBoard' \in Seq(CommandLine)
        BY <1>1, <2>1, LossSpoilsCommands
  <2>3. QED
        BY <1>1, <1>2, <1>13, <2>2 DEF GarbleCommand, serviceVars
<1>14. QED
       BY <1>3, <1>4, <1>5, <1>6, <1>7, <1>8, <1>9, <1>10, <1>11, <1>12, <1>13 DEF Next

LEMMA PartOfBound ==
    ASSUME NEW m \in Nat, NEW f \in 0..m, NEW c \in Nat, NEW g \in Nat, c + g <= f
    PROVE  c \in 0..m
OBVIOUS

\* The rest; that no more lines are counted as damaged than there have been
\* faults is what DamageCounted says.
LEMMA TypeStep ==
    ASSUME TypeInv, DamageCounted, [Next]_vars
    PROVE  TypeInv'
<1>1. /\ toHost' \in Seq(Line) /\ toBoard' \in Seq(CommandLine)
      /\ written' \in 0..MaxCommands /\ sent' \in 0..MaxRecords
      /\ faults' \in 0..MaxFaults /\ corruptTotal' \in Nat
      BY LinesTyped
<1>2. corruptTotal' \in 0..MaxFaults
  <2>1. Cardinality(GarbledAt(toHost')) \in Nat
        BY <1>1, GarbledFinite
  <2>2. corruptTotal' + Cardinality(GarbledAt(toHost')) <= faults'
        BY DamageStep DEF DamageCounted, GarbledAt
  <2> DEFINE g == Cardinality(GarbledAt(toHost'))
  <2> HIDE DEF g
  <2>3. g \in Nat /\ corruptTotal' + g <= faults' /\ MaxFaults \in Nat
        BY <2>1, <2>2, SessionAssumption DEF g
  <2>4. corruptTotal' \in Nat /\ faults' \in 0..MaxFaults
        BY <1>1
  <2>5. QED
        BY <2>3, <2>4, PartOfBound
<1>3. /\ call \in [id : Number, sub : Calls] \cup {None}
      /\ acks \in Seq(SackLine) /\ lastPayload \in Number \cup {None}
      /\ catalog \in Seq(CatalogLines) /\ records \in Seq(1..MaxRecords)
      /\ result # None => result.id \in Number /\ result.sub \in Calls
      /\ spoilt \subseteq 1..MaxRecords /\ expired \subseteq Verb
      /\ toHost \in Seq(Line)
      BY DEF TypeInv, TypeOK, Line
<1>4. call # None => VerbOf(call.sub) \in Verb
      BY <1>3, VerbTypes DEF BoardSub
<1>5. ASSUME /\ call' \in [id : Number, sub : Calls] \cup {None}
             /\ acks' \in Seq(SackLine) /\ lastPayload' \in Number \cup {None}
             /\ catalog' \in Seq(CatalogLines) /\ records' \in Seq(1..MaxRecords)
             /\ result' # None => result'.id \in Number /\ result'.sub \in Calls
             /\ spoilt' \subseteq 1..MaxRecords /\ expired' \subseteq Verb
      PROVE  TypeInv'
      BY <1>1, <1>2, <1>5 DEF TypeInv, TypeOK, Line
<1>6. CASE \E sub \in Calls : Send(sub)
  <2>1. PICK sub \in Calls : Send(sub)
        BY <1>6
  <2>2. /\ written < MaxCommands
        /\ call' = Command(written + 1, sub) /\ acks' = <<>> /\ lastPayload' = None
        /\ catalog' \in {<<>>, catalog} /\ records' = records /\ result' = result
        /\ spoilt' = spoilt /\ expired' = expired
        BY <2>1 DEF Send, StartCall, Write
  <2>3. call' \in [id : Number, sub : Calls]
        BY <2>2, Typed, SessionAssumption DEF Command, Number
  <2>4. acks' \in Seq(SackLine)
        BY <2>2
  <2>5. catalog' \in Seq(CatalogLines)
    <3>1. <<>> \in Seq(CatalogLines)
          OBVIOUS
    <3>2. QED
          BY <1>3, <2>2, <3>1, Zenon
  <2>6. QED
        BY <1>3, <1>5, <2>2, <2>3, <2>4, <2>5
<1>7. CASE HostReads
  <2> DEFINE line == toHost[1]
  <2>1. toHost # <<>> /\ Head(toHost) = line /\ line \in Line
        BY <1>3, <1>7 DEF HostReads
  <2>2. /\ call' = call /\ result' = result /\ spoilt' = spoilt /\ expired' = expired
        /\ acks' = IF line.kind = "sack" THEN Append(acks, line) ELSE acks
        /\ catalog' = IF TakesCatalogLine(line) THEN Append(catalog, line) ELSE catalog
        /\ lastPayload' = IF line.kind \in {"payload", "catalog"} /\ ~TakesCatalogLine(line)
                          THEN line.id ELSE lastPayload
        /\ records' = IF line.kind = "telemetry" /\ ~TakesCatalogLine(line)
                      THEN Append(records, line.seq) ELSE records
        BY <1>7, <2>1 DEF HostReads, Ingest
  <2> HIDE DEF line
  <2>3. /\ line.kind = "sack" => line \in SackLine
        /\ line.kind \in {"payload", "catalog"} => line.id \in Number
        /\ TakesCatalogLine(line) => line \in CatalogLines
        /\ line.kind = "telemetry" => line.seq \in 1..MaxRecords
        BY <2>1, LineTypes DEF TakesCatalogLine, Numbered, TelemetryLine
  <2>4. acks' \in Seq(SackLine) /\ catalog' \in Seq(CatalogLines)
        BY <1>3, <2>2, <2>3
  <2>5. lastPayload' \in Number \cup {None} /\ records' \in Seq(1..MaxRecords)
    <3>1. lastPayload' \in Number \cup {None}
          BY <1>3, <2>2, <2>3
    <3>2. CASE line.kind = "telemetry" /\ ~TakesCatalogLine(line)
      <4>1. records' = Append(records, line.seq) /\ line.seq \in 1..MaxRecords
            BY <2>2, <2>3, <3>2
      <4>2. QED
            BY <1>3, <3>1, <4>1
    <3>3. QED
          BY <1>3, <2>2, <3>1, <3>2
  <2>6. QED
        BY <1>3, <1>5, <2>2, <2>4, <2>5
<1>8. CASE HostReturns
  <2>1. /\ call # None /\ call' = None /\ acks' = acks /\ lastPayload' = lastPayload
        /\ catalog' = catalog /\ records' = records
        /\ spoilt' = spoilt /\ expired' = expired
        BY <1>8 DEF HostReturns, Return, lineVars
  <2>2. result'.id = call.id /\ result'.sub = call.sub
        BY <1>8 DEF HostReturns, Return, Raised, Returned
  <2>3. QED
        BY <1>3, <1>5, <2>1, <2>2
<1>9. CASE HostExpires
  <2>1. /\ call # None /\ call' = None /\ acks' = acks /\ lastPayload' = lastPayload
        /\ catalog' = catalog /\ records' = records /\ spoilt' = spoilt
        /\ expired' = expired \cup {VerbOf(call.sub)}
        /\ result'.id = call.id /\ result'.sub = call.sub
        BY <1>9 DEF HostExpires, Expire, Raised
  <2>2. QED
        BY <1>3, <1>4, <1>5, <2>1
<1>10. CASE HostRestarts
  <2>1. PICK n \in 0..Len(toHost) :
            spoilt' = spoilt \cup ToSet(records) \cup Records(SubSeq(toHost, 1, n))
        BY <1>10 DEF HostRestarts
  <2>2. /\ call' = None /\ acks' = <<>> /\ lastPayload' = None /\ catalog' = <<>>
        /\ records' = <<>> /\ result' = None
        /\ expired' = IF call = None THEN expired ELSE expired \cup {VerbOf(call.sub)}
        BY <1>10 DEF HostRestarts
  <2>3. Records(SubSeq(toHost, 1, n)) \subseteq 1..MaxRecords
    <3>1. \A i \in DOMAIN SubSeq(toHost, 1, n) : SubSeq(toHost, 1, n)[i] \in Line
          BY <1>3
    <3>2. QED
          BY <3>1, LineTypes DEF Records, TelemetryLine
  <2>4. ToSet(records) \subseteq 1..MaxRecords
    <3> DEFINE Seqs == 1..MaxRecords
    <3>1. records \in Seq(Seqs)
          BY <1>3
    <3> HIDE DEF Seqs
    <3>2. \A i \in DOMAIN records : records[i] \in Seqs
          BY <3>1
    <3>3. ToSet(records) \subseteq Seqs
          BY <3>2, Zenon DEF ToSet
    <3>4. QED
          BY <3>3 DEF Seqs
  <2>5. acks' \in Seq(SackLine) /\ catalog' \in Seq(CatalogLines)
        /\ records' \in Seq(1..MaxRecords)
        BY <2>2
  <2>6. spoilt' \subseteq 1..MaxRecords
        BY <1>3, <2>1, <2>3, <2>4
  <2>7. QED
        BY <1>3, <1>4, <1>5, <2>2, <2>5, <2>6
<1>11. CASE LoseLine \/ GarbleLine
  <2>1. PICK n \in DOMAIN toHost : Spoil(toHost[n])
        BY <1>11 DEF LoseLine, GarbleLine
  <2>2. serviceVars' = serviceVars /\ expired' = expired
        BY <1>11 DEF LoseLine, GarbleLine
  <2>3. toHost[n] \in Line
        BY <1>3
  <2>4. spoilt' \subseteq 1..MaxRecords
        BY <1>3, <2>1, <2>3, LineTypes DEF Spoil, TelemetryLine
  <2>5. QED
        BY <1>3, <1>5, <2>2, <2>4 DEF serviceVars
<1>12. CASE \/ Heartbeat \/ BoardAnswers \/ BoardEmits
            \/ LoseCommand \/ GarbleCommand \/ UNCHANGED vars
  <2>1. serviceVars' = serviceVars /\ spoilt' = spoilt /\ expired' = expired
        BY <1>12
        DEF Heartbeat, BoardAnswers, BoardEmits, LoseCommand, GarbleCommand, vars, lineVars
  <2>2. QED
        BY <1>3, <1>5, <2>1 DEF serviceVars
<1>13. QED
       BY <1>6, <1>7, <1>8, <1>9, <1>10, <1>11, <1>12 DEF Next

-----------------------------------------------------------------------------
(* Commands, answers and payloads *)

LEMMA ExchangeStep ==
    ASSUME Exchange, TypeInv', [Next]_vars
    PROVE  Exchange'
<1> SUFFICES InOrder' /\ OnlyOwn' /\ OwnPayloads' /\ Intact' /\ ValueFirst'
    BY DEF Exchange
<1>1. TypeInv
      BY DEF Exchange
<1>2. toHost \in Seq(Line) /\ toBoard \in Seq(CommandLine)
      BY <1>1, Typed
<1>3. Spoilt(toHost, toHost) /\ SpoiltCommands(toBoard, toBoard)
      BY <1>2, SpoiltReflexive
<1>4. CASE \E sub \in Calls : Send(sub)
  <2>1. PICK sub \in Calls : Send(sub)
        BY <1>4
  <2>2. /\ Write(Command(written + 1, sub)) /\ StartCall(Command(written + 1, sub))
        /\ toHost' = toHost /\ faults' = faults /\ expired' = expired
        BY <2>1 DEF Send
  <2>3. call = None /\ sub \in BoardSub
        BY <2>2 DEF StartCall, BoardSub
  <2>4. /\ toBoard' = Append(toBoard, Command(written + 1, sub))
        /\ written' = written + 1
        BY <1>1, <2>2, <2>3, CommandTyped
  <2>5. QED
        BY <2>2, <2>3, <2>4, NewCommandKeepsExchange
<1>5. CASE Heartbeat
  <2>1. /\ Write(Command(written + 1, "HB")) /\ call = None
        /\ toHost' = toHost /\ faults' = faults /\ expired' = expired
        /\ serviceVars' = serviceVars
        BY <1>5 DEF Heartbeat
  <2>2. "HB" \in BoardSub
        BY DEF BoardSub
  <2>3. /\ toBoard' = Append(toBoard, Command(written + 1, "HB"))
        /\ written' = written + 1
        BY <1>1, <2>1, <2>2, CommandTyped
  <2>4. QED
        BY <2>1, <2>2, <2>3, NewCommandKeepsExchange
<1>6. CASE HostReads
      BY <1>6, ReadKeepsExchange
<1>7. CASE HostReturns
      BY <1>7, ReturnKeepsExchange
<1>8. CASE HostExpires
  <2>1. /\ call # None /\ call' = None /\ acks' = acks
        /\ toHost' = toHost /\ toBoard' = toBoard /\ written' = written
        /\ faults' = faults /\ expired' = expired \cup {VerbOf(call.sub)}
        BY <1>8 DEF HostExpires, Expire
  <2>2. QED
        BY <1>3, <2>1, GivingUpKeepsExchange
<1>9. CASE HostRestarts
  <2>1. PICK n \in 0..Len(toHost) : toHost' = SubSeq(toHost, n + 1, Len(toHost))
        BY <1>9 DEF HostRestarts
  <2>2. /\ call' = None /\ acks' = <<>> /\ toBoard' = toBoard /\ written' = written
        /\ faults' = faults + 1
        /\ expired' = IF call = None THEN expired ELSE expired \cup {VerbOf(call.sub)}
        BY <1>9 DEF HostRestarts, Fault
  <2>3. Spoilt(toHost', toHost)
        BY <1>2, <2>1, LossSpoils
  <2>4. QED
        BY <2>2, <2>3, GivingUpKeepsExchange
<1>10. CASE BoardAnswers
       BY <1>10, AnswerKeepsExchange
<1>11. CASE BoardEmits
       BY <1>11, EmitKeepsExchange
<1>12. CASE LoseLine
  <2>1. PICK n \in 1..Len(toHost) : toHost' = RemoveAt(toHost, n)
        BY <1>2, <1>12 DEF LoseLine
  <2>2. /\ toBoard' = toBoard /\ written' = written /\ faults' = faults + 1
        /\ expired' = expired /\ serviceVars' = serviceVars
        BY <1>12 DEF LoseLine, Fault
  <2>3. Spoilt(toHost', toHost)
        BY <1>2, <2>1, LossSpoils
  <2>4. QED
        BY <1>3, <2>2, <2>3, LossKeepsExchange
<1>13. CASE GarbleLine
  <2>1. PICK n \in DOMAIN toHost : toHost' = [toHost EXCEPT ![n] = Garbled]
        BY <1>13, Zenon DEF GarbleLine
  <2>2. /\ toBoard' = toBoard /\ written' = written /\ faults' = faults + 1
        /\ expired' = expired /\ serviceVars' = serviceVars
        BY <1>13 DEF GarbleLine, Fault
  <2>3. n \in 1..Len(toHost)
        BY <1>2
  <2>4. Spoilt([toHost EXCEPT ![n] = Garbled], toHost)
        BY <1>2, <2>3, LossSpoils
  <2>5. Spoilt(toHost', toHost)
        BY <2>1, <2>4, Zenon
  <2>6. QED
        BY <1>3, <2>2, <2>5, LossKeepsExchange
<1>14. CASE LoseCommand
  <2>1. PICK n \in 1..Len(toBoard) : toBoard' = RemoveAt(toBoard, n)
        BY <1>2, <1>14 DEF LoseCommand
  <2>2. /\ toHost' = toHost /\ written' = written /\ faults' = faults + 1
        /\ expired' = expired /\ serviceVars' = serviceVars
        BY <1>14 DEF LoseCommand, Fault
  <2>3. SpoiltCommands(toBoard', toBoard)
        BY <1>2, <2>1, LossSpoilsCommands
  <2>4. QED
        BY <1>3, <2>2, <2>3, LossKeepsExchange
<1>15. CASE GarbleCommand
  <2>1. PICK n \in DOMAIN toBoard :
            /\ toBoard[n].sub # "garbled"
            /\ toBoard' = [toBoard EXCEPT ![n] =
                              [id |-> @.id, sub |-> "garbled", was |-> @.sub]]
        BY <1>15, Zenon DEF GarbleCommand
  <2>2. /\ toHost' = toHost /\ written' = written /\ faults' = faults + 1
        /\ expired' = expired /\ serviceVars' = serviceVars
        BY <1>15 DEF GarbleCommand, Fault
  <2> DEFINE garbled == [toBoard EXCEPT ![n] =
                            [id |-> @.id, sub |-> "garbled", was |-> @.sub]]
  <2>3. n \in 1..Len(toBoard)
        BY <1>2
  <2>4. SpoiltCommands(garbled, toBoard)
        BY <1>2, <2>1, <2>3, LossSpoilsCommands
  <2>5. SpoiltCommands(toBoard', toBoard)
        BY <2>1, <2>4, Zenon
  <2>6. QED
        BY <1>3, <2>2, <2>5, LossKeepsExchange
<1>16. CASE UNCHANGED vars
  <2>1. /\ toHost' = toHost /\ toBoard' = toBoard /\ written' = written
        /\ faults' = faults /\ expired' = expired
        /\ call' = call /\ acks' = acks /\ lastPayload' = lastPayload
        /\ catalog' = catalog
        BY <1>16 DEF vars, lineVars, serviceVars
  <2>2. InOrder'
        BY <1>1, <1>3, <2>1, LossKeepsOrder DEF Exchange
  <2>3. OnlyOwn'
        BY <2>1 DEF Exchange, OnlyOwn, Own, CommandVerb
  <2>4. OwnPayloads' /\ Intact' /\ ValueFirst'
        BY <2>1 DEF Exchange, OwnPayloads, Intact, ValueFirst
  <2>5. QED
        BY <2>2, <2>3, <2>4
<1>17. QED
       BY <1>4, <1>5, <1>6, <1>7, <1>8, <1>9, <1>10, <1>11, <1>12, <1>13, <1>14,
          <1>15, <1>16
       DEF Next

-----------------------------------------------------------------------------
(* Telemetry *)

LEMMA RecordsOf ==
    ASSUME NEW lines \in Seq(Line)
    PROVE  \A x : x \in Records(lines) <=>
              \E i \in 1..Len(lines) : lines[i].kind = "telemetry" /\ x = lines[i].seq
<1>1. DOMAIN lines = 1..Len(lines)
      OBVIOUS
<1>2. QED
      BY <1>1, Zenon DEF Records

LEMMA SetOf ==
    ASSUME NEW S, NEW s \in Seq(S)
    PROVE  \A x : x \in ToSet(s) <=> \E i \in 1..Len(s) : x = s[i]
<1>1. DOMAIN s = 1..Len(s)
      OBVIOUS
<1>2. QED
      BY <1>1, Zenon DEF ToSet

LEMMA RecordNumbers ==
    ASSUME TypeInv
    PROVE  /\ \A i \in 1..Len(toHost) :
                 toHost[i].kind = "telemetry" => toHost[i].seq \in Nat
           /\ \A i \in 1..Len(records) : records[i] \in Nat
<1>1. 1..MaxRecords \in SUBSET Nat
      BY SessionAssumption
<1>2. ASSUME NEW i \in 1..Len(toHost), toHost[i].kind = "telemetry"
      PROVE  toHost[i].seq \in Nat
  <2>1. toHost[i] \in TelemetryLine
        BY <1>2, Typed, LineTypes
  <2>2. QED
        BY <1>1, <2>1 DEF TelemetryLine
<1>3. ASSUME NEW i \in 1..Len(records) PROVE records[i] \in Nat
  <2> DEFINE S == 1..MaxRecords
  <2>1. records \in Seq(S) /\ S \in SUBSET Nat
        BY <1>1, Typed
  <2> HIDE DEF S
  <2>2. records[i] \in S
        BY <2>1
  <2>3. QED
        BY <2>1, <2>2
<1>4. QED
      BY <1>2, <1>3

LEMMA LossKeepsTelemetryOrder ==
    ASSUME TelemetryOrder, Spoilt(toHost', toHost), records' \in {records, <<>>},
           sent' = sent
    PROVE  TelemetryOrder'
<1>1. PICK f : /\ Increasing(f, Len(toHost'), Len(toHost))
               /\ \A i \in 1..Len(toHost') : toHost'[i] \in {toHost[f[i]], Garbled}
      BY Zenon DEF Spoilt
<1>2. /\ \A i \in 1..Len(toHost') :
            /\ f[i] \in 1..Len(toHost)
            /\ toHost'[i].kind = "telemetry" => toHost'[i] = toHost[f[i]]
      /\ \A i, j \in 1..Len(toHost') : i < j => f[i] < f[j]
      BY <1>1 DEF Increasing, Garbled
<1>3. \A i \in 1..Len(records') : i \in 1..Len(records) /\ records'[i] = records[i]
  <2>1. CASE records' = <<>>
        BY <2>1
  <2>2. QED
        BY <2>1
<1>4. \A i, j \in 1..Len(toHost') :
          i < j /\ toHost'[i].kind = "telemetry" /\ toHost'[j].kind = "telemetry" =>
              toHost'[i].seq < toHost'[j].seq
      BY <1>2 DEF TelemetryOrder
<1>5. \A i \in 1..Len(records'), j \in 1..Len(toHost') :
          toHost'[j].kind = "telemetry" => records'[i] < toHost'[j].seq
      BY <1>2, <1>3 DEF TelemetryOrder
<1>6. /\ \A i \in 1..Len(toHost') :
             toHost'[i].kind = "telemetry" => toHost'[i].seq <= sent'
      /\ \A i \in 1..Len(records') : records'[i] <= sent'
      BY <1>2, <1>3 DEF TelemetryOrder
<1>7. QED
      BY <1>4, <1>5, <1>6 DEF TelemetryOrder

LEMMA TelemetryOrderStep ==
    ASSUME TypeInv, TypeInv', TelemetryOrder, [Next]_vars
    PROVE  TelemetryOrder'
<1> DEFINE n == Len(toHost)
<1>1. /\ toHost \in Seq(Line) /\ n \in Nat /\ toBoard \in Seq(CommandLine)
      /\ sent \in Nat
      BY Typed
<1>2. Spoilt(toHost, toHost)
      BY <1>1, SpoiltReflexive
<1>3. /\ \A i \in 1..n : toHost[i].kind = "telemetry" => toHost[i].seq \in Nat
      /\ \A i \in 1..Len(records) : records[i] \in Nat
      BY RecordNumbers
<1>4. CASE \/ \E sub \in Calls : Send(sub)
           \/ HostReturns \/ HostExpires \/ Heartbeat
           \/ LoseCommand \/ GarbleCommand \/ UNCHANGED vars
  <2>1. toHost' = toHost /\ records' = records /\ sent' = sent
        BY <1>4
        DEF Send, StartCall, HostReturns, Return, HostExpires, Expire, Heartbeat,
            LoseCommand, GarbleCommand, vars, serviceVars, lineVars
  <2>2. QED
        BY <1>2, <2>1, LossKeepsTelemetryOrder
<1>5. CASE LoseLine
  <2>1. PICK i \in 1..n : toHost' = RemoveAt(toHost, i)
        BY <1>1, <1>5 DEF LoseLine
  <2>2. records' = records /\ sent' = sent
        BY <1>5 DEF LoseLine, serviceVars
  <2>3. QED
        BY <1>1, <2>1, <2>2, LossSpoils, LossKeepsTelemetryOrder
<1>6. CASE GarbleLine
  <2>1. PICK i \in DOMAIN toHost : toHost' = [toHost EXCEPT ![i] = Garbled]
        BY <1>6, Zenon DEF GarbleLine
  <2>2. records' = records /\ sent' = sent
        BY <1>6 DEF GarbleLine, serviceVars
  <2>3. Spoilt([toHost EXCEPT ![i] = Garbled], toHost)
        BY <1>1, LossSpoils
  <2>4. Spoilt(toHost', toHost)
        BY <2>1, <2>3, Zenon
  <2>5. QED
        BY <2>2, <2>4, LossKeepsTelemetryOrder
<1>7. CASE HostRestarts
  <2>1. PICK i \in 0..n : toHost' = SubSeq(toHost, i + 1, Len(toHost))
        BY <1>7 DEF HostRestarts
  <2>2. records' = <<>> /\ sent' = sent
        BY <1>7 DEF HostRestarts
  <2>3. QED
        BY <1>1, <2>1, <2>2, LossSpoils, LossKeepsTelemetryOrder
<1>8. CASE BoardAnswers
  <2>1. /\ toBoard # <<>> /\ Head(toBoard) \in CommandLine
        /\ records' = records /\ sent' = sent
        BY <1>1, <1>8 DEF BoardAnswers, serviceVars
  <2>2. PICK answer \in Answers(Head(toBoard)) : toHost' = toHost \o answer
        BY <1>8 DEF BoardAnswers
  <2> DEFINE m == Len(answer)
  <2>3. AnswerTo(answer, Head(toBoard))
        BY <2>1, <2>2, AnswerShape
  <2>4. /\ m \in Nat /\ Len(toHost') = n + m
        /\ \A i \in 1..n : toHost'[i] = toHost[i]
        /\ \A i \in 1..n + m : i > n => i - n \in 1..m /\ toHost'[i] = answer[i - n]
    <3>1. answer \in Seq(Line)
          BY <2>3 DEF AnswerTo
    <3>2. QED
          BY <1>1, <2>2, <3>1
  <2>5. \A i \in 1..m : answer[i].kind # "telemetry"
        BY <2>3 DEF AnswerTo, Numbered
  <2>6. \A i \in 1..n + m :
            toHost'[i].kind = "telemetry" => i \in 1..n /\ toHost'[i] = toHost[i]
        BY <1>1, <2>4, <2>5
  <2> HIDE DEF n, m
  <2>7. QED
        BY <2>1, <2>4, <2>6 DEF TelemetryOrder, n
<1>9. CASE BoardEmits
  <2>1. /\ sent' = sent + 1 /\ toHost' = Append(toHost, Telemetry(sent'))
        /\ records' = records
        BY <1>9 DEF BoardEmits, serviceVars
  <2>2. /\ Len(toHost') = n + 1 /\ toHost'[n + 1] = Telemetry(sent')
        /\ \A i \in 1..n : toHost'[i] = toHost[i]
        /\ \A i \in 1..n + 1 : i \in 1..n \/ i = n + 1
        BY <1>1, <2>1
  <2>3. Telemetry(sent').seq = sent + 1
        BY <2>1 DEF Telemetry
  <2> HIDE DEF n
  <2>4. /\ \A i \in 1..n : toHost[i].kind = "telemetry" => toHost[i].seq < sent + 1
        /\ \A i \in 1..Len(records) : records[i] < sent + 1
    <3>1. \A x \in Nat : x <= sent => x < sent + 1
          BY <1>1
    <3>2. QED
          BY <1>3, <3>1 DEF TelemetryOrder, n
  <2>5. \A i, j \in 1..n + 1 :
            i < j /\ toHost'[i].kind = "telemetry" /\ toHost'[j].kind = "telemetry" =>
                toHost'[i].seq < toHost'[j].seq
    <3>1. \A i, j \in 1..n + 1 : i < j => i \in 1..n
          BY <1>1
    <3>2. QED
          BY <2>2, <2>3, <2>4, <3>1 DEF TelemetryOrder, n
  <2>6. \A i \in 1..Len(records'), j \in 1..n + 1 :
            toHost'[j].kind = "telemetry" => records'[i] < toHost'[j].seq
        BY <2>1, <2>2, <2>3, <2>4 DEF TelemetryOrder, n
  <2>7. /\ \A i \in 1..n + 1 : toHost'[i].kind = "telemetry" => toHost'[i].seq <= sent'
        /\ \A i \in 1..Len(records') : records'[i] <= sent'
    <3>1. sent + 1 <= sent + 1 /\ \A x \in Nat : x < sent + 1 => x <= sent + 1
          BY <1>1
    <3>2. QED
          BY <1>3, <2>1, <2>2, <2>3, <2>4, <3>1
  <2>8. QED
        BY <2>2, <2>5, <2>6, <2>7 DEF TelemetryOrder
<1>10. CASE HostReads
  <2> DEFINE line == toHost[1]
  <2>1. /\ 1 \in 1..n /\ Len(toHost') = n - 1 /\ Head(toHost) = line
        /\ \A i \in 1..n - 1 : toHost'[i] = toHost[i + 1] /\ i + 1 \in 2..n
        /\ sent' = sent
        BY <1>1, <1>10 DEF HostReads
  <2>2. records' = IF line.kind = "telemetry" THEN Append(records, line.seq) ELSE records
        BY <1>10, <2>1 DEF HostReads, Ingest, TakesCatalogLine
  <2>3. \A i \in 1..Len(records') :
            \/ i \in 1..Len(records) /\ records'[i] = records[i]
            \/ line.kind = "telemetry" /\ records'[i] = line.seq
    <3>1. records \in Seq(1..MaxRecords)
          BY Typed
    <3>2. line.kind = "telemetry" => line.seq \in 1..MaxRecords
          BY <1>1, <2>1, LineTypes DEF TelemetryLine
    <3>3. QED
          BY <2>2, <3>1, <3>2
  <2>4. \A i \in 2..n : i \in 1..n /\ 1 < i
        BY <1>1
  <2> HIDE DEF n, line
  <2>5. \A i, j \in 1..n - 1 :
            i < j /\ toHost'[i].kind = "telemetry" /\ toHost'[j].kind = "telemetry" =>
                toHost'[i].seq < toHost'[j].seq
    <3>1. \A i, j \in 1..n - 1 : i < j => i + 1 < j + 1
          BY <1>1
    <3>2. QED
          BY <2>1, <2>4, <3>1 DEF TelemetryOrder, n
  <2>6. line.kind = "telemetry" =>
            /\ line.seq <= sent
            /\ \A j \in 2..n : toHost[j].kind = "telemetry" => line.seq < toHost[j].seq
        BY <2>1, <2>4 DEF TelemetryOrder, n, line
  <2>7. \A i \in 1..Len(records') :
            /\ records'[i] <= sent
            /\ \A j \in 2..n : toHost[j].kind = "telemetry" => records'[i] < toHost[j].seq
        BY <2>3, <2>4, <2>6 DEF TelemetryOrder, n
  <2>8. \A i \in 1..Len(records'), j \in 1..n - 1 :
            toHost'[j].kind = "telemetry" => records'[i] < toHost'[j].seq
        BY <2>1, <2>7
  <2>9. \A i \in 1..n - 1 : toHost'[i].kind = "telemetry" => toHost'[i].seq <= sent'
        BY <2>1, <2>4 DEF TelemetryOrder, n
  <2>10. QED
        BY <2>1, <2>5, <2>7, <2>8, <2>9 DEF TelemetryOrder
<1>11. QED
       BY <1>4, <1>5, <1>6, <1>7, <1>8, <1>9, <1>10 DEF Next

\* What the line spoils is told; what is left is in transit.
LEMMA LossTold ==
    ASSUME NEW s \in Seq(Line), NEW n \in 1..Len(s)
    PROVE  LET lost == IF s[n].kind = "telemetry" THEN {s[n].seq} ELSE {} IN
           /\ lost \cup Records(RemoveAt(s, n)) = Records(s)
           /\ lost \cup Records([s EXCEPT ![n] = Garbled]) = Records(s)
<1> DEFINE lost == IF s[n].kind = "telemetry" THEN {s[n].seq} ELSE {}
           rest == RemoveAt(s, n)
           garbled == [s EXCEPT ![n] = Garbled]
<1>1. /\ rest \in Seq(Line) /\ Thinned(rest, s)
      /\ \A i \in 1..Len(s) : i # n => \E j \in 1..Len(rest) : rest[j] = s[i]
      BY RemoveKeepsOrder
<1> HIDE DEF rest
<1>2. \A x : x \in Records(s) <=>
              \E i \in 1..Len(s) : s[i].kind = "telemetry" /\ x = s[i].seq
      BY RecordsOf
<1>3. \A x : x \in Records(rest) <=>
              \E i \in 1..Len(rest) : rest[i].kind = "telemetry" /\ x = rest[i].seq
      BY <1>1, RecordsOf
<1>4. \A i \in 1..Len(rest) : \E j \in 1..Len(s) : rest[i] = s[j]
      BY <1>1 DEF Thinned, Increasing
<1>5. lost \cup Records(rest) = Records(s)
  <2>1. ASSUME NEW x \in lost \cup Records(rest) PROVE x \in Records(s)
        BY <1>2, <1>3, <1>4, <2>1
  <2>2. ASSUME NEW x \in Records(s) PROVE x \in lost \cup Records(rest)
        BY <1>1, <1>2, <1>3, <2>2
  <2>3. QED
        BY <2>1, <2>2
<1>6. /\ garbled \in Seq(Line) /\ Len(garbled) = Len(s)
      /\ \A i \in 1..Len(s) : garbled[i] = IF i = n THEN Garbled ELSE s[i]
      BY DEF Line
<1> HIDE DEF garbled
<1>7. \A x : x \in Records(garbled) <=>
              \E i \in 1..Len(s) : garbled[i].kind = "telemetry" /\ x = garbled[i].seq
      BY <1>6, RecordsOf
<1>8. lost \cup Records(garbled) = Records(s)
  <2>1. Garbled.kind # "telemetry"
        BY DEF Garbled
  <2>2. ASSUME NEW x \in lost \cup Records(garbled) PROVE x \in Records(s)
        BY <1>2, <1>6, <1>7, <2>1, <2>2
  <2>3. ASSUME NEW x \in Records(s) PROVE x \in lost \cup Records(garbled)
        BY <1>2, <1>6, <1>7, <2>3
  <2>4. QED
        BY <2>2, <2>3
<1>9. QED
      BY <1>5, <1>8 DEF rest, garbled

LEMMA PartsOfRecords ==
    ASSUME NEW s \in Seq(Line), NEW n \in 0..Len(s)
    PROVE  Records(s) = Records(SubSeq(s, 1, n)) \cup Records(SubSeq(s, n + 1, Len(s)))
<1> DEFINE before == SubSeq(s, 1, n)
           rest == SubSeq(s, n + 1, Len(s))
<1>1. /\ before \in Seq(Line) /\ Len(before) = n /\ \A i \in 1..n : before[i] = s[i]
      OBVIOUS
<1>2. /\ rest \in Seq(Line) /\ Len(rest) = Len(s) - n
      /\ \A i \in 1..Len(rest) : rest[i] = s[i + n]
      BY SuffixKeepsOrder
<1> HIDE DEF before, rest
<1>3. /\ \A i \in 1..Len(s) :
            \/ i \in 1..n
            \/ /\ i - n \in 1..Len(rest)
               /\ (i - n) + n = i
      /\ \A i \in 1..n : i \in 1..Len(s)
      /\ \A i \in 1..Len(rest) : i + n \in 1..Len(s)
      BY <1>2
<1>4. \A x : x \in Records(s) <=>
              \E i \in 1..Len(s) : s[i].kind = "telemetry" /\ x = s[i].seq
      BY RecordsOf
<1>5. \A x : x \in Records(before) <=>
              \E i \in 1..n : before[i].kind = "telemetry" /\ x = before[i].seq
      BY <1>1, RecordsOf
<1>6. \A x : x \in Records(rest) <=>
              \E i \in 1..Len(rest) : rest[i].kind = "telemetry" /\ x = rest[i].seq
      BY <1>2, RecordsOf
<1>7. ASSUME NEW x \in Records(s) PROVE x \in Records(before) \cup Records(rest)
  <2>1. PICK i \in 1..Len(s) : s[i].kind = "telemetry" /\ x = s[i].seq
        BY <1>4, <1>7
  <2>2. CASE i \in 1..n
        BY <1>1, <1>5, <2>1, <2>2
  <2>3. CASE i - n \in 1..Len(rest) /\ (i - n) + n = i
    <3>1. rest[i - n] = s[i]
          BY <1>2, <2>3
    <3>2. QED
          BY <1>6, <2>1, <2>3, <3>1
  <2>4. QED
        BY <1>3, <2>2, <2>3
<1>8. ASSUME NEW x \in Records(before) \cup Records(rest) PROVE x \in Records(s)
  <2>1. CASE x \in Records(before)
        BY <1>1, <1>3, <1>4, <1>5, <2>1
  <2>2. CASE x \in Records(rest)
        BY <1>2, <1>3, <1>4, <1>6, <2>2
  <2>3. QED
        BY <1>8, <2>1, <2>2
<1>9. QED
      BY <1>7, <1>8 DEF before, rest

LEMMA ConservedStep ==
    ASSUME TypeInv, TypeInv', TelemetryOrder, TelemetryConserved, [Next]_vars
    PROVE  TelemetryConserved'
<1> DEFINE inTransit == Records(toHost)
           recorded == ToSet(records)
<1>1. /\ toHost \in Seq(Line) /\ toBoard \in Seq(CommandLine)
      /\ records \in Seq(1..MaxRecords) /\ sent \in Nat /\ Len(toHost) \in Nat
      BY Typed
<1>2. /\ 1..sent = recorded \cup spoilt \cup inTransit
      /\ \A i, j \in DOMAIN records : i < j => records[i] < records[j]
      BY DEF TelemetryConserved
<1>3. CASE \/ \E sub \in Calls : Send(sub)
           \/ HostReturns \/ HostExpires \/ Heartbeat
           \/ LoseCommand \/ GarbleCommand \/ UNCHANGED vars
  <2>1. toHost' = toHost /\ records' = records /\ sent' = sent /\ spoilt' = spoilt
        BY <1>3
        DEF Send, StartCall, HostReturns, Return, HostExpires, Expire, Heartbeat,
            LoseCommand, GarbleCommand, vars, serviceVars, lineVars
  <2>2. QED
        BY <1>2, <2>1 DEF TelemetryConserved, Records
<1>4. CASE LoseLine \/ GarbleLine
  <2>1. records' = records /\ sent' = sent
        BY <1>4 DEF LoseLine, GarbleLine, serviceVars
  <2>2. PICK n \in DOMAIN toHost :
            /\ Spoil(toHost[n])
            /\ \/ toHost' = RemoveAt(toHost, n)
               \/ toHost' = [toHost EXCEPT ![n] = Garbled]
        BY <1>4, Zenon DEF LoseLine, GarbleLine
  <2> DEFINE lost == IF toHost[n].kind = "telemetry" THEN {toHost[n].seq} ELSE {}
  <2>3. spoilt' = spoilt \cup lost
        BY <2>2 DEF Spoil
  <2>4. n \in 1..Len(toHost)
        BY <1>1
  <2>5. lost \cup Records(toHost') = inTransit
        BY <1>1, <2>2, <2>4, LossTold, Zenon
  <2> HIDE DEF lost, inTransit
  <2>6. 1..sent' = ToSet(records') \cup spoilt' \cup Records(toHost')
        BY <1>2, <2>1, <2>3, <2>5
  <2>7. QED
        BY <1>2, <2>1, <2>6 DEF TelemetryConserved, Records
<1>5. CASE HostRestarts
  <2>1. PICK n \in 0..Len(toHost) :
            /\ spoilt' = spoilt \cup recorded \cup Records(SubSeq(toHost, 1, n))
            /\ toHost' = SubSeq(toHost, n + 1, Len(toHost))
        BY <1>5 DEF HostRestarts
  <2>2. records' = <<>> /\ sent' = sent
        BY <1>5 DEF HostRestarts
  <2>3. inTransit = Records(SubSeq(toHost, 1, n)) \cup Records(toHost')
        BY <1>1, <2>1, PartsOfRecords
  <2> HIDE DEF inTransit, recorded
  <2>4. 1..sent' = ToSet(records') \cup spoilt' \cup Records(toHost')
    <3>1. ToSet(records') = {}
          BY <2>2 DEF ToSet
    <3>2. QED
          BY <1>2, <2>1, <2>2, <2>3, <3>1
  <2>5. \A i, j \in DOMAIN records' : i < j => records'[i] < records'[j]
        BY <2>2
  <2>6. QED
        BY <2>4, <2>5 DEF TelemetryConserved, Records
<1>6. CASE BoardAnswers
  <2>1. /\ toBoard # <<>> /\ Head(toBoard) \in CommandLine
        /\ records' = records /\ sent' = sent /\ spoilt' = spoilt
        BY <1>1, <1>6 DEF BoardAnswers, serviceVars
  <2>2. PICK answer \in Answers(Head(toBoard)) : toHost' = toHost \o answer
        BY <1>6 DEF BoardAnswers
  <2>3. AnswerTo(answer, Head(toBoard))
        BY <2>1, <2>2, AnswerShape
  <2>4. answer \in Seq(Line) /\ \A i \in 1..Len(answer) : answer[i].kind # "telemetry"
        BY <2>3 DEF AnswerTo, Numbered
  <2>5. Records(toHost') = inTransit
    <3> DEFINE both == toHost \o answer
               n == Len(toHost)
    <3>1. /\ both \in Seq(Line)
          /\ \A i \in 1..n : i \in 1..Len(both) /\ both[i] = toHost[i]
          /\ \A i \in 1..Len(both) :
                \/ i \in 1..n
                \/ i - n \in 1..Len(answer) /\ both[i] = answer[i - n]
          BY <1>1, <2>4
    <3> HIDE DEF both, n
    <3>2. \A x : x \in Records(both) <=>
                  \E i \in 1..Len(both) : both[i].kind = "telemetry" /\ x = both[i].seq
          BY <3>1, RecordsOf
    <3>3. \A x : x \in Records(toHost) <=>
                  \E i \in 1..n : toHost[i].kind = "telemetry" /\ x = toHost[i].seq
          BY <1>1, RecordsOf DEF n
    <3>4. \A x : x \in Records(both) <=> x \in Records(toHost)
          BY <2>4, <3>1, <3>2, <3>3
    <3>5. QED
          BY <2>2, <3>4 DEF both
  <2>6. QED
        BY <1>2, <2>1, <2>5 DEF TelemetryConserved, Records
<1>7. CASE BoardEmits
  <2>1. /\ sent' = sent + 1 /\ toHost' = Append(toHost, Telemetry(sent'))
        /\ records' = records /\ spoilt' = spoilt /\ toHost' \in Seq(Line)
        BY <1>7, Typed, LinesTyped DEF BoardEmits, serviceVars
  <2>2. Telemetry(sent').kind = "telemetry" /\ Telemetry(sent').seq = sent + 1
        BY <2>1 DEF Telemetry
  <2>3. Records(toHost') = inTransit \cup {sent + 1}
    <3> DEFINE n == Len(toHost)
    <3>1. /\ Len(toHost') = n + 1 /\ toHost'[n + 1] = Telemetry(sent')
          /\ \A i \in 1..n : i \in 1..n + 1 /\ toHost'[i] = toHost[i]
          /\ \A i \in 1..n + 1 : i \in 1..n \/ i = n + 1
          /\ n + 1 \in 1..n + 1
          BY <1>1, <2>1
    <3> HIDE DEF n
    <3>2. \A x : x \in Records(toHost') <=>
                  \E i \in 1..n + 1 : toHost'[i].kind = "telemetry" /\ x = toHost'[i].seq
      <4>1. \A x : x \in Records(toHost') <=>
                    \E i \in 1..Len(toHost') :
                        toHost'[i].kind = "telemetry" /\ x = toHost'[i].seq
            BY <2>1, RecordsOf, Zenon
      <4>2. QED
            BY <3>1, <4>1, Zenon
    <3>3. \A x : x \in Records(toHost) <=>
                  \E i \in 1..n : toHost[i].kind = "telemetry" /\ x = toHost[i].seq
          BY <1>1, RecordsOf DEF n
    <3>4. \A x : x \in Records(toHost') <=> x \in Records(toHost) \/ x = sent + 1
          BY <2>2, <3>1, <3>2, <3>3
    <3>5. QED
          BY <3>4
  <2>4. 1..sent' = (1..sent) \cup {sent + 1}
        BY <1>1, <2>1
  <2> HIDE DEF inTransit, recorded
  <2>5. 1..sent' = recorded \cup spoilt \cup Records(toHost')
        BY <1>2, <2>3, <2>4
  <2>6. QED
        BY <1>2, <2>1, <2>5 DEF TelemetryConserved, Records, recorded
<1>8. CASE HostReads
  <2> DEFINE line == toHost[1]
             n == Len(toHost)
             m == Len(records)
             taken == IF line.kind = "telemetry" THEN {line.seq} ELSE {}
  <2>1. /\ toHost # <<>> /\ toHost' = Tail(toHost) /\ Head(toHost) = line
        /\ sent' = sent /\ spoilt' = spoilt
        BY <1>1, <1>8 DEF HostReads
  <2>2. records' = IF line.kind = "telemetry" THEN Append(records, line.seq) ELSE records
        BY <1>8, <2>1 DEF HostReads, Ingest, TakesCatalogLine
  <2>3. /\ toHost' \in Seq(Line) /\ 1 \in 1..n /\ line \in Line
        /\ \A i \in 1..Len(toHost') : toHost'[i] = toHost[i + 1] /\ i + 1 \in 1..n
        /\ \A i \in 1..n : i # 1 => i - 1 \in 1..Len(toHost') /\ toHost'[i - 1] = toHost[i]
        BY <1>1, <2>1
  <2>4. inTransit = taken \cup Records(toHost')
    <3> HIDE DEF n
    <3>1. \A x : x \in Records(toHost') <=>
                  \E i \in 1..Len(toHost') :
                      toHost'[i].kind = "telemetry" /\ x = toHost'[i].seq
          BY <2>3, RecordsOf
    <3>2. \A x : x \in Records(toHost) <=>
                  \E i \in 1..n : toHost[i].kind = "telemetry" /\ x = toHost[i].seq
          BY <1>1, RecordsOf DEF n
    <3>3. ASSUME NEW x \in Records(toHost) PROVE x \in taken \cup Records(toHost')
          BY <2>3, <3>1, <3>2, <3>3
    <3>4. ASSUME NEW x \in taken \cup Records(toHost') PROVE x \in Records(toHost)
          BY <2>3, <3>1, <3>2, <3>4
    <3>5. QED
          BY <3>3, <3>4
  <2> HIDE DEF line, inTransit
  <2>5. CASE line.kind # "telemetry"
    <3>1. records' = records /\ taken = {}
          BY <2>2, <2>5
    <3>2. 1..sent' = ToSet(records') \cup spoilt' \cup Records(toHost')
          BY <1>2, <2>1, <2>4, <3>1
    <3>3. QED
          BY <1>2, <3>1, <3>2 DEF TelemetryConserved, Records
  <2>6. CASE line.kind = "telemetry"
    <3>1. records' = Append(records, line.seq) /\ line.seq \in 1..MaxRecords
          BY <2>2, <2>3, <2>6, LineTypes DEF TelemetryLine
    <3>2. /\ records' \in Seq(1..MaxRecords) /\ Len(records') = m + 1
          /\ records'[m + 1] = line.seq
          /\ \A i \in 1..m : i \in 1..m + 1 /\ records'[i] = records[i]
          /\ \A i \in 1..m + 1 : i \in 1..m \/ i = m + 1
          /\ m \in Nat /\ m + 1 \in 1..m + 1 /\ DOMAIN records' = 1..m + 1
          /\ DOMAIN records = 1..m
          BY <1>1, <3>1
    <3> HIDE DEF m
    <3>3. \A x : x \in ToSet(records') <=> \E i \in 1..m + 1 : x = records'[i]
          BY <3>2, SetOf
    <3>4. \A x : x \in recorded <=> \E i \in 1..m : x = records[i]
          BY <1>1, SetOf DEF m
    <3>5. ToSet(records') = recorded \cup taken
      <4>1. \A x : x \in ToSet(records') <=> x \in recorded \/ x = line.seq
            BY <3>2, <3>3, <3>4
      <4>2. QED
            BY <2>6, <4>1
    <3> HIDE DEF recorded, taken
    <3>6. 1..sent' = ToSet(records') \cup spoilt' \cup Records(toHost')
          BY <1>2, <2>1, <2>4, <3>5
    <3>7. \A i \in 1..m : records[i] < line.seq
          BY <2>3, <2>6 DEF TelemetryOrder, line, m, n
    <3>8. ASSUME NEW i \in 1..m + 1, NEW j \in 1..m + 1, i < j
          PROVE  records'[i] < records'[j]
      <4>1. i \in 1..m
            BY <3>2, <3>8
      <4>2. CASE j = m + 1
            BY <3>2, <3>7, <4>1, <4>2
      <4>3. CASE j \in 1..m
            BY <1>2, <3>2, <3>8, <4>1, <4>3
      <4>4. QED
            BY <3>2, <4>2, <4>3
    <3>9. QED
          BY <3>2, <3>6, <3>8 DEF TelemetryConserved, Records
  <2>7. QED
        BY <2>5, <2>6
<1>9. QED
      BY <1>3, <1>4, <1>5, <1>6, <1>7, <1>8 DEF Next

-----------------------------------------------------------------------------
(* Results *)

LEMMA MaxExists ==
    ASSUME NEW n \in Nat, NEW S \in SUBSET (1..n), S # {}
    PROVE  Max(S) \in S
<1> DEFINE less == {pair \in Nat \X Nat : pair[1] < pair[2]}
           distances == {n - x : x \in S}
<1>1. \A x, y \in Nat : <<x, y>> \in less <=> x < y
      OBVIOUS
<1>2. IsWellFoundedOn(less, Nat)
      BY NatLessThanWellFounded DEF OpToRel
<1>3. distances \subseteq Nat /\ distances # {}
  <2>1. \A x \in S : n - x \in Nat
        OBVIOUS
  <2>2. PICK x : x \in S
        OBVIOUS
  <2>3. n - x \in distances
        BY <2>2
  <2>4. QED
        BY <2>1, <2>3
<1> HIDE DEF less
<1>4. PICK d \in distances : \A e \in distances : ~ (<<e, d>> \in less)
      BY <1>2, <1>3, WFMin
<1>5. PICK x \in S : d = n - x
      BY <1>4
<1>6. \A y \in S : ~(n - y < n - x)
      BY <1>1, <1>3, <1>4, <1>5
<1>7. \A y \in S : x >= y
      BY <1>6
<1>8. QED
      BY <1>5, <1>7, Zenon DEF Max

\* What a call is told, whether send returns it or fetch_schema makes of it.
LEMMA ReturnStep ==
    ASSUME Exchange, TypeInv', HostReturns
    PROVE  AnswersMatch' /\ PayloadMatches' /\ SchemaMatches' /\ CliTellsTruth'
<1> USE DEF Exchange
<1>1. /\ call # None /\ expired' = expired /\ faults' = faults
      /\ DOMAIN acks = 1..Len(acks) /\ acks \in Seq(SackLine)
      BY Typed DEF HostReturns, Return, lineVars
<1>2. PICK i \in 1..Len(acks) :
          /\ acks[i].verb = VerbOf(call.sub)
          /\ result' = IF call.sub = "LIST" /\ ~Whole(catalog)
                       THEN Raised ELSE Returned(acks[i])
      BY <1>1 DEF HostReturns, Return, Matches
<1>3. VerbOf(call.sub) \in {"STAT", "CFG"} /\ call.id \in Nat /\ None \notin Nat
      BY <1>1, Typed, VerbTypes, SessionAssumption
<1>4. VerbOf(call.sub) \notin expired => acks[i].id = call.id
      BY <1>1, <1>2, <1>3 DEF OnlyOwn, Own
<1>5. expired = {} => acks[i].id = call.id /\ lastPayload \in {call.id, None}
      BY <1>1, <1>4 DEF OwnPayloads
<1>6. CASE call.sub = "LIST" /\ ~Whole(catalog)
  <2>1. result' = Raised /\ result'.raised = TRUE
        BY <1>2, <1>6 DEF Raised
  <2>2. ~HasReturned' /\ Exit(result') = "2"
        BY <2>1 DEF HasReturned, Exit
  <2>3. QED
        BY <2>2 DEF AnswersMatch, PayloadMatches, SchemaMatches, CliTellsTruth
<1>7. CASE ~(call.sub = "LIST" /\ ~Whole(catalog))
  <2>1. result' = Returned(acks[i])
        BY <1>2, <1>7
  <2>2. /\ result'.id = call.id /\ result'.sub = call.sub /\ result'.raised = FALSE
        /\ result'.ack = acks[i].id /\ result'.payload = lastPayload
        BY <2>1 DEF Returned
  <2>3. result'.ok = acks[i].ok
        BY <2>1, Zenon DEF Returned
  <2>4. call.sub = "LIST" => result'.schema = Schema(catalog)
        BY <2>1 DEF Returned
  <2>5. AnswersMatch'
        BY <1>1, <1>4, <2>2 DEF AnswersMatch
  <2>6. PayloadMatches'
        BY <1>1, <1>5, <2>2 DEF PayloadMatches
  <2>7. SchemaMatches'
    <3>1. SUFFICES ASSUME call.sub = "LIST", expired = {}, NEW entry \in Entry
                   PROVE  result'.schema[entry] = call.id
          BY <1>1, <2>2 DEF SchemaMatches
    <3>2. Len(catalog) \in Nat /\ DOMAIN catalog = 1..Len(catalog)
          BY Typed
    <3> DEFINE places == {j \in DOMAIN catalog : catalog[j].entry = entry}
    <3>3. entry \in Received(catalog)
          BY <1>7, <3>1 DEF Whole
    <3>4. places # {}
          BY <3>3 DEF Received
    <3>5. places \in SUBSET (1..Len(catalog))
          BY <3>2
    <3> HIDE DEF places
    <3>6. Max(places) \in places
          BY <3>2, <3>4, <3>5, MaxExists
    <3>7. catalog[Max(places)].id = call.id
          BY <1>1, <3>1, <3>5, <3>6 DEF OwnPayloads
    <3>8. Schema(catalog)[entry] = catalog[Max(places)].id
          BY Zenon DEF Schema, LatestLine, places
    <3>9. QED
          BY <2>4, <3>1, <3>7, <3>8
  <2>8. CliTellsTruth'
    <3>1. SUFFICES ASSUME expired = {}
                   PROVE  /\ Exit(result') = "0" /\ result'.sub = "GET" =>
                                Printed(result') = result'.id
                          /\ Exit(result') = "traceback" => faults > 0
                          /\ Exit(result') = "1" => result'.ack = result'.id
          BY <1>1 DEF CliTellsTruth
    <3>2. Exit(result') = "1" => result'.ack = result'.id
          BY <1>5, <2>2, <3>1
    <3>3. Exit(result') = "0" /\ result'.sub = "GET" => Printed(result') = result'.id
      <4>1. Exit(result') = "0" /\ result'.sub = "GET" => result'.payload # None
            BY <2>2 DEF Exit, Prints
      <4>2. QED
            BY <1>5, <2>2, <3>1, <4>1 DEF Printed
    <3>4. Exit(result') = "traceback" => faults > 0
      <4>1. SUFFICES ASSUME Exit(result') = "traceback", faults = 0 PROVE FALSE
        <5>1. faults \in Nat
              BY Typed
        <5>2. faults = 0 \/ faults > 0
              BY <5>1
        <5>3. QED
              BY <5>2, Zenon
      <4>2. result'.sub = "GET" /\ result'.ok /\ result'.payload = None
            BY <4>1 DEF Exit, Prints
      <4>3. call.sub = "GET" /\ acks[i].verb = "CFG" /\ acks[i].ok
            BY <1>2, <2>2, <2>3, <4>2 DEF VerbOf
      <4>4. lastPayload = call.id
            BY <1>1, <3>1, <4>1, <4>3 DEF ValueFirst
      <4>5. QED
            BY <1>3, <2>2, <4>2, <4>4
    <3>5. QED
          BY <3>2, <3>3, <3>4
  <2>9. QED
        BY <2>5, <2>6, <2>7, <2>8
<1>8. QED
      BY <1>6, <1>7

LEMMA ResultStep ==
    ASSUME SessionInv, TypeInv', [Next]_vars
    PROVE  AnswersMatch' /\ PayloadMatches' /\ SchemaMatches' /\ CliTellsTruth'
<1>1. Exchange /\ faults \in Nat
      BY Typed DEF SessionInv, Exchange
<1>2. CASE HostReturns
      BY <1>1, <1>2, ReturnStep
<1>3. CASE HostExpires
  <2>1. result' = Raised /\ expired' # {} /\ Raised.raised = TRUE
        BY <1>3 DEF HostExpires, Expire, Raised
  <2>2. ~HasReturned'
        BY <2>1 DEF HasReturned
  <2>3. QED
        BY <2>1, <2>2 DEF AnswersMatch, PayloadMatches, SchemaMatches, CliTellsTruth
<1>4. CASE HostRestarts
  <2>1. result' = None
        BY <1>4 DEF HostRestarts
  <2>2. QED
        BY <2>1
        DEF AnswersMatch, PayloadMatches, SchemaMatches, CliTellsTruth, HasReturned
<1>5. ASSUME result' = result, expired' = expired, faults' \in {faults, faults + 1}
      PROVE  AnswersMatch' /\ PayloadMatches' /\ SchemaMatches' /\ CliTellsTruth'
  <2>1. faults > 0 => faults' > 0
        BY <1>1, <1>5
  <2>2. AnswersMatch' /\ PayloadMatches' /\ SchemaMatches'
        BY <1>5
        DEF SessionInv, AnswersMatch, PayloadMatches, SchemaMatches, HasReturned
  <2>3. CliTellsTruth'
        BY <1>5, <2>1 DEF SessionInv, CliTellsTruth
  <2>4. QED
        BY <2>2, <2>3
<1>6. CASE \/ \E sub \in Calls : Send(sub)
           \/ HostReads \/ Heartbeat \/ BoardAnswers \/ BoardEmits
           \/ LoseLine \/ GarbleLine \/ LoseCommand \/ GarbleCommand
           \/ UNCHANGED vars
  <2>1. result' = result /\ expired' = expired /\ faults' \in {faults, faults + 1}
        BY <1>6
        DEF Send, StartCall, HostReads, Ingest, Heartbeat, BoardAnswers, BoardEmits,
            LoseLine, GarbleLine, LoseCommand, GarbleCommand, Fault,
            vars, serviceVars, lineVars
  <2>2. QED
        BY <1>5, <2>1
<1>7. QED
      BY <1>2, <1>3, <1>4, <1>6 DEF Next

-----------------------------------------------------------------------------
(* The theorems *)

LEMMA InvInit == Init => SessionInv
<1> SUFFICES ASSUME Init PROVE SessionInv
    OBVIOUS
<1>1. /\ call = None /\ acks = <<>> /\ lastPayload = None /\ catalog = <<>>
      /\ records = <<>> /\ corruptTotal = 0 /\ result = None
      /\ toBoard = <<>> /\ toHost = <<>>
      /\ written = 0 /\ sent = 0 /\ faults = 0 /\ spoilt = {} /\ expired = {}
      BY DEF Init, ServiceInit
<1>2. TypeInv
  <2>1. 0 \in 0..MaxCommands /\ 0 \in 0..MaxRecords /\ 0 \in 0..MaxFaults
        BY SessionAssumption
  <2>2. QED
        BY <1>1, <2>1 DEF TypeInv, TypeOK
<1>3. InOrder /\ OnlyOwn /\ OwnPayloads /\ Intact /\ ValueFirst
      BY <1>1 DEF InOrder, OnlyOwn, OwnPayloads, Intact, ValueFirst
<1>4. TelemetryOrder
      BY <1>1 DEF TelemetryOrder
<1>5. TelemetryConserved
  <2>1. ToSet(records) = {} /\ Records(toHost) = {}
        BY <1>1 DEF ToSet, Records
  <2>2. 1..sent = {}
        BY <1>1
  <2>3. \A i, j \in DOMAIN records : i < j => records[i] < records[j]
        BY <1>1
  <2>4. QED
        BY <1>1, <2>1, <2>2, <2>3 DEF TelemetryConserved
<1>6. DamageCounted
  <2>1. GarbledAt(toHost) = {}
        BY <1>1 DEF GarbledAt
  <2>2. Cardinality({}) = 0
        BY FS_EmptySet
  <2>3. corruptTotal = 0 /\ faults = 0 /\ 0 + 0 <= 0
        BY <1>1
  <2>4. QED
        BY <2>1, <2>2, <2>3, Zenon DEF DamageCounted
<1>7. AnswersMatch /\ PayloadMatches /\ SchemaMatches /\ CliTellsTruth
      BY <1>1 DEF AnswersMatch, PayloadMatches, SchemaMatches, CliTellsTruth, HasReturned
<1>8. QED
      BY <1>2, <1>3, <1>4, <1>5, <1>6, <1>7 DEF SessionInv, Exchange

LEMMA InvStep == SessionInv /\ [Next]_vars => SessionInv'
<1> SUFFICES ASSUME SessionInv, [Next]_vars PROVE SessionInv'
    OBVIOUS
<1>1. /\ Exchange /\ TypeInv /\ TelemetryOrder /\ TelemetryConserved /\ DamageCounted
      BY DEF SessionInv, Exchange
<1>2. TypeInv' /\ DamageCounted'
      BY <1>1, TypeStep, DamageStep
<1>3. Exchange'
      BY <1>1, <1>2, ExchangeStep
<1>4. TelemetryOrder' /\ TelemetryConserved'
      BY <1>1, <1>2, TelemetryOrderStep, ConservedStep
<1>5. AnswersMatch' /\ PayloadMatches' /\ SchemaMatches' /\ CliTellsTruth'
      BY <1>2, ResultStep
<1>6. QED
      BY <1>2, <1>3, <1>4, <1>5 DEF SessionInv

LEMMA InvAlways == Spec => []SessionInv
BY InvInit, InvStep, PTL DEF Spec

\* The variables have their types; that corruptTotal stays below the number of
\* faults rests on DamageCounted.
THEOREM TypeCorrect == Spec => []TypeOK
<1>1. SessionInv => TypeOK
      BY DEF SessionInv, Exchange, TypeInv
<1>2. QED
      BY <1>1, InvAlways, PTL

\* send returns the acknowledgement of its own command, unless an earlier call
\* with the same verb gave up.
THEOREM AnswersMatchHolds == Spec => []AnswersMatch
<1>1. SessionInv => AnswersMatch
      BY DEF SessionInv
<1>2. QED
      BY <1>1, InvAlways, PTL

\* As long as no call has been given up, last_payload after send is the answer
\* to that very command or None.
THEOREM PayloadMatchesHolds == Spec => []PayloadMatches
<1>1. SessionInv => PayloadMatches
      BY DEF SessionInv
<1>2. QED
      BY <1>1, InvAlways, PTL

\* ... and fetch_schema accepts only the whole catalogue of its own command.
THEOREM SchemaMatchesHolds == Spec => []SchemaMatches
<1>1. SessionInv => SchemaMatches
      BY DEF SessionInv
<1>2. QED
      BY <1>1, InvAlways, PTL

\* No telemetry record disappears in the host, and their order is kept.
THEOREM TelemetryConservedHolds == Spec => []TelemetryConserved
<1>1. SessionInv => TelemetryConserved
      BY DEF SessionInv
<1>2. QED
      BY <1>1, InvAlways, PTL

\* What the command line tool exits with and prints is true of its own command.
THEOREM CliTellsTruthHolds == Spec => []CliTellsTruth
<1>1. SessionInv => CliTellsTruth
      BY DEF SessionInv
<1>2. QED
      BY <1>1, InvAlways, PTL
=============================================================================
