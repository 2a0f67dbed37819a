------------------------- MODULE QueueSessionProofs -------------------------
(***************************************************************************)
(* Theorems about the command queue between its two threads, for every set *)
(* of settings and values and every length of the queue.                   *)
(***************************************************************************)
EXTENDS QueueSession, FiniteSetTheorems, SequenceTheorems, TLAPS

-----------------------------------------------------------------------------
(* The operators on sequences of commands *)

Tag == Key \cup AutoTag

Distinct(cmds) == \A i, j \in DOMAIN cmds : cmds[i].tag = cmds[j].tag => i = j

LEMMA CommandType ==
    ASSUME NEW cmd \in Command
    PROVE  /\ cmd.tag \in Tag /\ cmd.verb \in {"SET"} \cup Actions
           /\ cmd.tag \in Key <=> cmd.verb = "SET"
           /\ cmd.verb = "SET" => cmd.value \in Value
BY SessionAssumption DEF Command, Tag

\* A sequence of commands with different tags has as many tags as commands.
LEMMA TagsCounted ==
    ASSUME NEW cmds \in Seq(Command), Distinct(cmds)
    PROVE  IsFiniteSet(TagsOf(cmds)) /\ Cardinality(TagsOf(cmds)) = Len(cmds)
<1> DEFINE I == 1..Len(cmds)
           tagAt == [i \in I |-> cmds[i].tag]
<1>1. DOMAIN cmds = I /\ Len(cmds) \in Nat
      OBVIOUS
<1>2. IsFiniteSet(I) /\ Cardinality(I) = Len(cmds)
      BY <1>1, FS_Interval
<1>3. tagAt \in Bijection(I, TagsOf(cmds))
      BY <1>1 DEF Distinct, TagsOf, Bijection, Injection, Surjection, IsInjective
<1>4. ExistsBijection(I, TagsOf(cmds))
      BY <1>3 DEF ExistsBijection
<1>5. QED
      BY <1>2, <1>4, FS_Bijection

\* Submit keeps the other commands, and one command per tag.
LEMMA SubmitEffect ==
    ASSUME pending \in Seq(Command), Distinct(pending), NEW cmd \in Command,
           Submit(cmd)
    PROVE  /\ pending' \in Seq(Command)
           /\ Distinct(pending')
           /\ PendingTags' = PendingTags \cup {cmd.tag}
           /\ \A i \in DOMAIN pending' :
                 \/ pending'[i] = cmd
                 \/ i \in DOMAIN pending /\ pending'[i] = pending[i]
                    /\ pending[i].tag # cmd.tag
<1>1. CASE cmd.tag \in PendingTags
  <2>1. pending' = Overwrite(pending, cmd)
        BY <1>1 DEF Submit
  <2>2. pending' \in Seq(Command) /\ Len(pending') = Len(pending)
        BY <2>1 DEF Overwrite
  <2>3. /\ DOMAIN pending' = DOMAIN pending
        /\ \A i \in DOMAIN pending :
              pending'[i] = IF pending[i].tag = cmd.tag THEN cmd ELSE pending[i]
        BY <2>1 DEF Overwrite
  <2>4. \A i \in DOMAIN pending : pending'[i].tag = pending[i].tag
        BY <2>3
  <2>5. Distinct(pending') /\ PendingTags' = PendingTags
        BY <2>3, <2>4 DEF Distinct, PendingTags, TagsOf
  <2>6. QED
        BY <1>1, <2>2, <2>3, <2>5
<1>2. CASE cmd.tag \notin PendingTags
  <2>1. pending' = Append(pending, cmd)
        BY <1>2 DEF Submit
  <2>2. /\ pending' \in Seq(Command) /\ Len(pending') = Len(pending) + 1
        /\ \A i \in 1..Len(pending) : pending'[i] = pending[i]
        /\ pending'[Len(pending) + 1] = cmd
        BY <2>1
  <2>3. /\ DOMAIN pending = 1..Len(pending) /\ Len(pending) \in Nat
        /\ DOMAIN pending' = 1..(Len(pending) + 1)
        BY <2>2
  <2>4. \A i \in DOMAIN pending : pending[i].tag # cmd.tag
        BY <1>2 DEF PendingTags, TagsOf
  <2>5. Distinct(pending')
        BY <2>2, <2>3, <2>4 DEF Distinct
  <2>6. PendingTags' = PendingTags \cup {cmd.tag}
        BY <2>2, <2>3 DEF PendingTags, TagsOf
  <2>7. QED
        BY <2>2, <2>3, <2>4, <2>5, <2>6
<1>3. QED
      BY <1>1, <1>2

\* Taking the first command off leaves the tags of the others.
LEMMA TailEffect ==
    ASSUME NEW cmds \in Seq(Command), Distinct(cmds), cmds # <<>>
    PROVE  /\ Head(cmds) = cmds[1] /\ cmds[1] \in Command
           /\ Tail(cmds) \in Seq(Command)
           /\ Distinct(Tail(cmds))
           /\ TagsOf(Tail(cmds)) = TagsOf(cmds) \ {Head(cmds).tag}
<1>1. /\ Len(cmds) \in Nat \ {0} /\ DOMAIN cmds = 1..Len(cmds)
      /\ Head(cmds) = cmds[1] /\ cmds[1] \in Command
      OBVIOUS
<1>2. /\ Tail(cmds) \in Seq(Command) /\ Len(Tail(cmds)) = Len(cmds) - 1
      /\ DOMAIN Tail(cmds) = 1..(Len(cmds) - 1)
      /\ \A i \in 1..(Len(cmds) - 1) : Tail(cmds)[i] = cmds[i + 1]
      OBVIOUS
<1>3. Distinct(Tail(cmds))
      BY <1>1, <1>2 DEF Distinct
<1>4. ASSUME NEW t
      PROVE  t \in TagsOf(Tail(cmds)) <=> t \in TagsOf(cmds) /\ t # cmds[1].tag
  <2>1. ASSUME NEW i \in DOMAIN Tail(cmds), t = Tail(cmds)[i].tag
        PROVE  i + 1 \in DOMAIN cmds /\ t = cmds[i + 1].tag /\ t # cmds[1].tag
        BY <1>1, <1>2, <2>1 DEF Distinct
  <2>2. ASSUME NEW i \in DOMAIN cmds, t = cmds[i].tag, t # cmds[1].tag
        PROVE  i - 1 \in DOMAIN Tail(cmds) /\ t = Tail(cmds)[i - 1].tag
        BY <1>1, <1>2, <2>2
  <2>3. QED
        BY <2>1, <2>2 DEF TagsOf
<1>5. QED
      BY <1>1, <1>2, <1>3, <1>4

-----------------------------------------------------------------------------
(* The inductive invariant *)

\* Each tag waits once and is sent once, only keys do both at a time, and the
\* queue expects what is being sent.
QueueInv ==
    /\ TypeOK
    /\ Distinct(pending) /\ Distinct(batch)
    /\ inFlight = TagsOf(batch)
    /\ TagsOf(batch) \cap PendingTags \subseteq Key
    /\ batch = <<>> => outcome = "unsent"

LEMMA AfterType ==
    ASSUME NEW cmd \in Command, NEW settings \in [Key -> Value]
    PROVE  After(cmd, settings) \in [Key -> Value]
<1>1. CASE cmd.verb = "SET"
      BY <1>1, CommandType DEF After
<1>2. CASE cmd.verb = "RESET"
      BY <1>2, SessionAssumption DEF After
<1>3. CASE cmd.verb = "SAVE"
      BY <1>3 DEF After
<1>4. QED
      BY <1>1, <1>2, <1>3, CommandType, SessionAssumption

\* What the GUI submits: a SET, or a SAVE or RESET with a tag of its own.
LEMMA GuiSubmitsACommand ==
    ASSUME GuiSet \/ GuiAct
    PROVE  \E cmd \in Command :
              Submits(cmd) /\ (cmd.tag \notin Key => cmd.tag \notin TagsOf(batch))
<1>1. ASSUME NEW k \in Key, NEW v \in Value
      PROVE  SetCommand(k, v) \in Command /\ SetCommand(k, v).tag \in Key
      BY DEF SetCommand, Command
<1>2. ASSUME NEW a \in Actions, NEW t \in AutoTag \ TagsInUse
      PROVE  /\ ActionCommand(a, t) \in Command
             /\ ActionCommand(a, t).tag \notin TagsOf(batch)
      BY DEF ActionCommand, Command, TagsInUse
<1>3. QED
      BY <1>1, <1>2 DEF GuiSet, GuiAct

LEMMA AwaitedType ==
    ASSUME TypeOK, NEW k \in Key PROVE Awaited(k) \in Value
BY SessionAssumption DEF TypeOK, Awaited

LEMMA HistoryTypes ==
    ASSUME TypeOK, GuiSet \/ GuiAct
    PROVE  /\ overtaken' \subseteq Key
           /\ since' \in [AutoTag -> [Key -> SUBSET Value]]
<1>1. CASE GuiSet
      BY <1>1 DEF GuiSet, TypeOK
<1>2. CASE GuiAct
      BY <1>2, AwaitedType DEF GuiAct, TypeOK
<1>3. QED
      BY <1>1, <1>2

LEMMA GuiStep ==
    ASSUME QueueInv, GuiSet \/ GuiAct
    PROVE  QueueInv'
<1>1. PICK cmd \in Command :
         Submits(cmd) /\ (cmd.tag \notin Key => cmd.tag \notin TagsOf(batch))
      BY GuiSubmitsACommand
<1>2. /\ Submit(cmd) /\ wanted' = After(cmd, wanted)
      /\ UNCHANGED <<inFlight, results, batch, outcome, board, stored, failed>>
      BY <1>1 DEF Submits, Submit, boardVars
<1>3. /\ pending' \in Seq(Command) /\ Distinct(pending')
      /\ PendingTags' = PendingTags \cup {cmd.tag}
      BY <1>2, SubmitEffect DEF QueueInv, TypeOK
<1>4. wanted' \in [Key -> Value]
      BY <1>2, AfterType DEF QueueInv, TypeOK
<1>5. /\ overtaken' \subseteq Key
      /\ since' \in [AutoTag -> [Key -> SUBSET Value]]
      BY HistoryTypes DEF QueueInv
<1>6. TypeOK'
      BY <1>2, <1>3, <1>4, <1>5 DEF QueueInv, TypeOK
<1>7. QED
      BY <1>1, <1>2, <1>3, <1>6 DEF QueueInv, Distinct, TagsOf

LEMMA InvInit == Init => QueueInv
<1> SUFFICES ASSUME Init PROVE QueueInv
    OBVIOUS
<1>1. failed \in BOOLEAN
      BY Zenon DEF Init
<1>2. /\ pending = <<>> /\ batch = <<>> /\ inFlight = {} /\ results = <<>>
      /\ outcome = "unsent"
      /\ board = [k \in Key |-> Factory] /\ wanted = [k \in Key |-> Factory]
      /\ stored = [k \in Key |-> Factory] /\ overtaken = {}
      /\ since = [t \in AutoTag |-> [k \in Key |-> {}]]
      BY DEF Init, QueueInit
<1>3. TypeOK
      BY <1>1, <1>2, SessionAssumption DEF TypeOK
<1>4. QED
      BY <1>2, <1>3 DEF QueueInv, Distinct, TagsOf, PendingTags

\* The worker takes all that waits; it had completed all it had taken before.
LEMMA DrainStep ==
    ASSUME QueueInv, WorkerDrains
    PROVE  /\ batch = <<>> /\ batch' = pending /\ pending' = <<>>
           /\ inFlight' = PendingTags
           /\ UNCHANGED <<results, outcome, boardVars, historyVars, failed>>
BY DEF QueueInv, WorkerDrains, DrainPending, TagsOf

\* The completion of the command just sent is taken.
LEMMA CompleteStep ==
    ASSUME QueueInv, WorkerCompletes
    PROVE  /\ batch # <<>> /\ outcome # "unsent" /\ outcome' = "unsent"
           /\ batch' = Tail(batch)
           /\ inFlight' = inFlight \ {Head(batch).tag}
           /\ results' = Append(results, [tag |-> Head(batch).tag,
                                          ok |-> outcome = "ok"])
           /\ since' = [t \in AutoTag |-> IF t = Head(batch).tag
                                         THEN [k \in Key |-> {}] ELSE since[t]]
           /\ UNCHANGED <<pending, boardVars, wanted, overtaken, failed>>
<1>1. batch # <<>> /\ Complete(Head(batch).tag, outcome = "ok")
      BY DEF WorkerCompletes
<1>2. Head(batch).tag \in inFlight
      BY <1>1 DEF QueueInv, TypeOK, TagsOf
<1>3. QED
      BY <1>1, <1>2 DEF WorkerCompletes, Complete

LEMMA InvStep == QueueInv /\ [Next]_vars => QueueInv'
<1> SUFFICES ASSUME QueueInv, [Next]_vars PROVE QueueInv'
    OBVIOUS
<1>1. CASE GuiSet \/ GuiAct
      BY <1>1, GuiStep
<1>2. CASE GuiCollect
  <2>1. /\ results' = <<>>
        /\ UNCHANGED <<pending, inFlight, batch, outcome, board, stored,
                       wanted, overtaken, since, failed>>
        BY <1>2 DEF GuiCollect, TakeResults, boardVars, historyVars
  <2>2. TypeOK'
        BY <2>1 DEF QueueInv, TypeOK
  <2>3. QED
        BY <2>1, <2>2 DEF QueueInv, Distinct, TagsOf, PendingTags
<1>3. CASE WorkerDrains
  <2>1. PendingTags \subseteq Key \cup AutoTag
        BY CommandType DEF QueueInv, TypeOK, PendingTags, TagsOf, Tag
  <2>2. /\ batch = <<>> /\ batch' = pending /\ pending' = <<>>
        /\ inFlight' = PendingTags
        /\ UNCHANGED <<results, outcome, board, stored, wanted, overtaken,
                       since, failed>>
        BY <1>3, DrainStep DEF boardVars, historyVars
  <2>3. TypeOK'
        BY <2>1, <2>2 DEF QueueInv, TypeOK
  <2>4. TagsOf(batch)' = PendingTags /\ PendingTags' = {}
        BY <2>2 DEF TagsOf, PendingTags
  <2>5. QED
        BY <2>2, <2>3, <2>4 DEF QueueInv, Distinct
<1>4. CASE WorkerSends
  <2>1. /\ UNCHANGED <<pending, inFlight, results, batch, historyVars>>
        /\ batch # <<>> /\ outcome' \in {"ok", "failed"}
        /\ board' \in {board, After(Head(batch), board)}
        /\ stored' \in {stored, board}
        /\ Head(batch) \in Command
        BY <1>4, TailEffect
        DEF WorkerSends, TakesEffect, queueVars, boardVars, QueueInv, TypeOK
  <2>2. board' \in [Key -> Value] /\ stored' \in [Key -> Value]
        BY <2>1, AfterType DEF QueueInv, TypeOK
  <2>3. failed' \in BOOLEAN
        BY <1>4, Zenon DEF WorkerSends, QueueInv, TypeOK
  <2>4. UNCHANGED <<pending, inFlight, results, batch, wanted, overtaken, since>>
        BY <2>1 DEF historyVars
  <2>5. TypeOK'
        BY <2>1, <2>2, <2>3, <2>4 DEF QueueInv, TypeOK
  <2>6. TagsOf(batch)' = TagsOf(batch) /\ PendingTags' = PendingTags
        BY <2>4 DEF TagsOf, PendingTags
  <2>7. QED
        BY <2>1, <2>4, <2>5, <2>6 DEF QueueInv, Distinct
<1>5. CASE WorkerCompletes
  <2>1. /\ Tail(batch) \in Seq(Command) /\ Distinct(Tail(batch))
        /\ TagsOf(Tail(batch)) = TagsOf(batch) \ {Head(batch).tag}
        /\ Head(batch).tag \in Key \cup AutoTag
        BY <1>5, CompleteStep, TailEffect, CommandType DEF QueueInv, TypeOK, Tag
  <2>2. results' \in Seq([tag : Key \cup AutoTag, ok : BOOLEAN])
    <3> DEFINE Result == [tag : Key \cup AutoTag, ok : BOOLEAN]
               result == [tag |-> Head(batch).tag, ok |-> outcome = "ok"]
    <3>1. result \in Result
          BY <2>1, Zenon
    <3>2. results \in Seq(Result) /\ results' = Append(results, result)
          BY <1>5, CompleteStep DEF QueueInv, TypeOK
    <3> HIDE DEF Result, result
    <3>3. results' \in Seq(Result)
          BY <3>1, <3>2
    <3>4. QED
          BY <3>3 DEF Result
  <2>3. since' \in [AutoTag -> [Key -> SUBSET Value]]
        BY <1>5, CompleteStep DEF QueueInv, TypeOK
  <2>4. /\ batch' = Tail(batch) /\ inFlight' = inFlight \ {Head(batch).tag}
        /\ outcome' = "unsent"
        /\ UNCHANGED <<pending, board, stored, wanted, overtaken, failed>>
        BY <1>5, CompleteStep DEF boardVars
  <2>5. TypeOK'
        BY <2>1, <2>2, <2>3, <2>4 DEF QueueInv, TypeOK
  <2>6. /\ Distinct(pending') /\ Distinct(batch')
        /\ PendingTags' = PendingTags
        /\ TagsOf(batch)' = TagsOf(batch) \ {Head(batch).tag}
    <3>1. TagsOf(batch)' = TagsOf(Tail(batch))
          BY <2>4 DEF TagsOf
    <3>2. QED
          BY <2>1, <2>4, <3>1 DEF QueueInv, PendingTags, TagsOf
  <2>7. QED
        BY <2>4, <2>5, <2>6 DEF QueueInv, Distinct
<1>6. CASE UNCHANGED vars
  <2>1. UNCHANGED <<pending, inFlight, results, batch, outcome, board, stored,
                    wanted, overtaken, since, failed>>
        BY <1>6 DEF vars, queueVars, boardVars, historyVars
  <2>2. TypeOK'
        BY <2>1 DEF QueueInv, TypeOK
  <2>3. QED
        BY <2>1, <2>2 DEF QueueInv, Distinct, TagsOf, PendingTags
<1>7. QED
      BY <1>1, <1>2, <1>3, <1>4, <1>5, <1>6 DEF Next

LEMMA InvHolds == Spec => []QueueInv
BY InvInit, InvStep, PTL DEF Spec

-----------------------------------------------------------------------------
(* What the invariant says *)

\* The types hold, whatever the GUI submits and whatever the board answers.
THEOREM TypeCorrect == Spec => []TypeOK
<1>1. QueueInv => TypeOK
      BY DEF QueueInv
<1>2. QED
      BY <1>1, InvHolds, PTL

LEMMA ExpectedIsHeld == QueueInv => NoResultLost
BY TagsCounted DEF QueueInv, TypeOK, NoResultLost

\* The queue expects exactly the commands the worker holds.
THEOREM NoResultLostHolds == Spec => []NoResultLost
BY ExpectedIsHeld, InvHolds, PTL

\* in_flight is zero exactly when nothing waits and the worker holds nothing.
THEOREM IdleMeansAnsweredHolds == Spec => []IdleMeansAnswered
<1>1. QueueInv => IdleMeansAnswered
  <2> SUFFICES ASSUME QueueInv PROVE IdleMeansAnswered
      OBVIOUS
  <2>1. Cardinality(inFlight) = Len(batch)
        BY ExpectedIsHeld DEF NoResultLost
  <2>2. pending \in Seq(Command) /\ batch \in Seq(Command)
        BY DEF QueueInv, TypeOK
  <2>3. QED
        BY <2>1, <2>2 DEF IdleMeansAnswered, Outstanding
<1>2. QED
      BY <1>1, InvHolds, PTL

\* Whatever the worker completes gets its result into the queue, under the tag
\* of the command that was sent: complete never finds the tag unknown.
EveryCompletionTaken ==
    [][WorkerCompletes =>
          results' = Append(results, [tag |-> Head(batch).tag,
                                      ok |-> outcome = "ok"])]_vars

\* No completion is dropped, though the GUI submits the same tags meanwhile.
THEOREM EveryCompletionTakenHolds == Spec => EveryCompletionTaken
<1>1. QueueInv /\ [Next]_vars =>
         [WorkerCompletes =>
             results' = Append(results, [tag |-> Head(batch).tag,
                                         ok |-> outcome = "ok"])]_vars
      BY CompleteStep
<1>2. QED
      BY <1>1, InvHolds, PTL DEF Spec, EveryCompletionTaken

-----------------------------------------------------------------------------
(* What the board ends up with, and what SAVE stores.  Line is what is     *)
(* still to be sent; the last of its commands that sets a key decides.     *)

Affects(cmd, key) == cmd.verb = "RESET" \/ cmd.tag = key

Gives(cmd) == IF cmd.verb = "RESET" THEN Factory ELSE cmd.value

\* With now on the board, the commands of the line before the n-th give the
\* key a value in S.
Leads(line, n, key, now, S) ==
    /\ \A i \in DOMAIN line :
          /\ i < n /\ Affects(line[i], key)
          /\ \A j \in DOMAIN line : i < j /\ j < n => ~Affects(line[j], key)
          => Gives(line[i]) \in S
    /\ (\A i \in DOMAIN line : i < n => ~Affects(line[i], key)) => now \in S

LEMMA AfterGives ==
    ASSUME NEW cmd \in Command, NEW settings \in [Key -> Value], NEW k \in Key
    PROVE  After(cmd, settings)[k] = IF Affects(cmd, k) THEN Gives(cmd)
                                                        ELSE settings[k]
<1>1. cmd.verb \in {"SET", "SAVE", "RESET"} /\ (cmd.tag \in Key <=> cmd.verb = "SET")
      BY CommandType, SessionAssumption
<1>2. CASE cmd.verb = "SET"
      BY <1>1, <1>2 DEF After, Affects, Gives
<1>3. CASE cmd.verb = "RESET"
      BY <1>1, <1>3 DEF After, Affects, Gives
<1>4. CASE cmd.verb = "SAVE"
      BY <1>1, <1>4 DEF After, Affects, Gives
<1>5. QED
      BY <1>1, <1>2, <1>3, <1>4

\* The first command of the line has taken effect.
LEMMA LeadsTail ==
    ASSUME NEW line \in Seq(Command), line # <<>>, NEW n \in Nat, n > 1,
           NEW k \in Key, NEW settings \in [Key -> Value], NEW S,
           Leads(line, n, k, settings[k], S)
    PROVE  Leads(Tail(line), n - 1, k, After(line[1], settings)[k], S)
<1> DEFINE rest == Tail(line)
<1>1. /\ Len(line) \in Nat \ {0} /\ DOMAIN line = 1..Len(line)
      /\ DOMAIN rest = 1..(Len(line) - 1)
      /\ \A i \in 1..(Len(line) - 1) : rest[i] = line[i + 1]
      /\ line[1] \in Command
      OBVIOUS
<1> HIDE DEF rest
<1>2. ASSUME NEW i \in DOMAIN rest, i < n - 1, Affects(rest[i], k),
             \A j \in DOMAIN rest : i < j /\ j < n - 1 => ~Affects(rest[j], k)
      PROVE  Gives(rest[i]) \in S
  <2>1. /\ i + 1 \in DOMAIN line /\ i + 1 < n /\ rest[i] = line[i + 1]
        /\ Affects(line[i + 1], k)
        BY <1>1, <1>2
  <2>2. ASSUME NEW j \in DOMAIN line, i + 1 < j, j < n
        PROVE  ~Affects(line[j], k)
    <3>1. j - 1 \in DOMAIN rest /\ i < j - 1 /\ j - 1 < n - 1 /\ line[j] = rest[j - 1]
          BY <1>1, <2>2
    <3>2. QED
          BY <1>2, <3>1
  <2>3. QED
        BY <2>1, <2>2 DEF Leads
<1>3. ASSUME \A i \in DOMAIN rest : i < n - 1 => ~Affects(rest[i], k)
      PROVE  After(line[1], settings)[k] \in S
  <2>1. ASSUME NEW j \in DOMAIN line, 1 < j, j < n
        PROVE  ~Affects(line[j], k)
    <3>1. j - 1 \in DOMAIN rest /\ j - 1 < n - 1 /\ line[j] = rest[j - 1]
          BY <1>1, <2>1
    <3>2. QED
          BY <1>3, <3>1
  <2>2. CASE Affects(line[1], k)
    <3>1. Gives(line[1]) \in S
          BY <1>1, <2>1, <2>2 DEF Leads
    <3>2. QED
          BY <1>1, <2>2, <3>1, AfterGives
  <2>3. CASE ~Affects(line[1], k)
    <3>1. \A i \in DOMAIN line : i < n => ~Affects(line[i], k)
          BY <1>1, <2>1, <2>3
    <3>2. QED
          BY <1>1, <2>3, <3>1, AfterGives DEF Leads
  <2>4. QED
        BY <2>2, <2>3
<1>4. QED
      BY <1>2, <1>3 DEF Leads, rest

\* A command that waits behind the n-th changes nothing before it.
LEMMA LeadsBefore ==
    ASSUME NEW line \in Seq(Command), NEW cmd \in Command, NEW n \in 1..(Len(line) + 1),
           NEW k, NEW now, NEW S, NEW T, S \subseteq T, Leads(line, n, k, now, S)
    PROVE  Leads(Append(line, cmd), n, k, now, T)
<1> DEFINE longer == Append(line, cmd)
<1>1. /\ Len(line) \in Nat /\ DOMAIN line = 1..Len(line)
      /\ DOMAIN longer = 1..(Len(line) + 1)
      /\ \A i \in 1..Len(line) : longer[i] = line[i]
      OBVIOUS
<1> HIDE DEF longer
<1>2. \A i \in DOMAIN longer : i < n => i \in DOMAIN line /\ longer[i] = line[i]
      BY <1>1
<1>3. \A i \in DOMAIN line : i < n => i \in DOMAIN longer /\ longer[i] = line[i]
      BY <1>1
<1>4. ASSUME NEW i \in DOMAIN longer, i < n, Affects(longer[i], k),
             \A j \in DOMAIN longer : i < j /\ j < n => ~Affects(longer[j], k)
      PROVE  Gives(longer[i]) \in T
  <2>1. \A j \in DOMAIN line : i < j /\ j < n => ~Affects(line[j], k)
        BY <1>3, <1>4
  <2>2. i \in DOMAIN line /\ longer[i] = line[i]
        BY <1>2, <1>4
  <2>3. QED
        BY <1>4, <2>1, <2>2 DEF Leads
<1>5. ASSUME \A i \in DOMAIN longer : i < n => ~Affects(longer[i], k)
      PROVE  now \in T
  <2>1. \A i \in DOMAIN line : i < n => ~Affects(line[i], k)
        BY <1>3, <1>5
  <2>2. QED
        BY <2>1 DEF Leads
<1>6. QED
      BY <1>4, <1>5 DEF Leads, longer

\* The command at the end of the line decides if it sets the key.
LEMMA LeadsLast ==
    ASSUME NEW line \in Seq(Command), NEW cmd \in Command, NEW k, NEW now, NEW S,
           IF Affects(cmd, k) THEN Gives(cmd) \in S
                              ELSE Leads(line, Len(line) + 1, k, now, S)
    PROVE  Leads(Append(line, cmd), Len(line) + 2, k, now, S)
<1> DEFINE longer == Append(line, cmd)
           m == Len(line)
<1>1. /\ m \in Nat /\ DOMAIN line = 1..m
      /\ DOMAIN longer = 1..(m + 1)
      /\ \A i \in 1..m : longer[i] = line[i]
      /\ longer[m + 1] = cmd
      OBVIOUS
<1> HIDE DEF longer, m
<1>2. CASE Affects(cmd, k)
  <2>1. ASSUME NEW i \in DOMAIN longer,
               \A j \in DOMAIN longer : i < j /\ j < m + 2 => ~Affects(longer[j], k)
        PROVE  i = m + 1
        BY <1>1, <1>2, <2>1
  <2>2. ~ \A i \in DOMAIN longer : i < m + 2 => ~Affects(longer[i], k)
        BY <1>1, <1>2
  <2>3. \A i \in DOMAIN longer :
           (\A j \in DOMAIN longer : i < j /\ j < m + 2 => ~Affects(longer[j], k))
           => Gives(longer[i]) \in S
        BY <1>1, <1>2, <2>1
  <2>4. QED
        BY <2>2, <2>3 DEF Leads, longer, m
<1>3. CASE ~Affects(cmd, k)
  <2>1. Leads(line, m + 1, k, now, S)
        BY <1>3 DEF m
  <2>2. \A i \in DOMAIN longer : Affects(longer[i], k) => i \in DOMAIN line /\ i < m + 1
        BY <1>1, <1>3
  <2>3. \A i \in DOMAIN line : i \in DOMAIN longer /\ longer[i] = line[i] /\ i < m + 2
        BY <1>1
  <2>4. ASSUME NEW i \in DOMAIN longer, i < m + 2, Affects(longer[i], k),
               \A j \in DOMAIN longer : i < j /\ j < m + 2 => ~Affects(longer[j], k)
        PROVE  Gives(longer[i]) \in S
    <3>1. \A j \in DOMAIN line : i < j /\ j < m + 1 => ~Affects(line[j], k)
          BY <2>3, <2>4
    <3>2. i \in DOMAIN line /\ i < m + 1 /\ longer[i] = line[i]
          BY <2>2, <2>3, <2>4
    <3>3. QED
          BY <2>1, <2>4, <3>1, <3>2 DEF Leads
  <2>5. ASSUME \A i \in DOMAIN longer : i < m + 2 => ~Affects(longer[i], k)
        PROVE  now \in S
    <3>1. \A i \in DOMAIN line : i < m + 1 => ~Affects(line[i], k)
          BY <2>3, <2>5
    <3>2. QED
          BY <2>1, <3>1 DEF Leads
  <2>6. QED
        BY <2>4, <2>5 DEF Leads, longer, m
<1>4. QED
      BY <1>2, <1>3

\* Another line whose commands set the key at the same places before the n-th.
LEMMA LeadsAlike ==
    ASSUME NEW line, NEW other, DOMAIN other = DOMAIN line, NEW n,
           NEW k, NEW now, NEW S, NEW T, S \subseteq T, Leads(line, n, k, now, S),
           \A i \in DOMAIN line : i < n =>
              /\ Affects(other[i], k) <=> Affects(line[i], k)
              /\ \/ Gives(other[i]) = Gives(line[i]) \/ Gives(other[i]) \in T
                 \/ ~Affects(line[i], k)
    PROVE  Leads(other, n, k, now, T)
<1>1. ASSUME NEW i \in DOMAIN other, i < n, Affects(other[i], k),
             \A j \in DOMAIN other : i < j /\ j < n => ~Affects(other[j], k)
      PROVE  Gives(other[i]) \in T
  <2>1. Affects(line[i], k)
        BY <1>1
  <2>2. \A j \in DOMAIN line : i < j /\ j < n => ~Affects(line[j], k)
        BY <1>1
  <2>3. Gives(line[i]) \in S
        BY <1>1, <2>1, <2>2 DEF Leads
  <2>4. QED
        BY <1>1, <2>1, <2>3
<1>2. ASSUME \A i \in DOMAIN other : i < n => ~Affects(other[i], k)
      PROVE  now \in T
      BY <1>2 DEF Leads
<1>3. QED
      BY <1>1, <1>2 DEF Leads

-----------------------------------------------------------------------------
(* The line of commands through the steps *)

Unsent == IF outcome = "unsent" THEN batch ELSE Tail(batch)
Line   == Unsent \o pending

LEMMA LineType ==
    ASSUME QueueInv
    PROVE  /\ Unsent \in Seq(Command) /\ Line \in Seq(Command)
           /\ Len(Unsent) \in Nat /\ Len(pending) \in Nat
           /\ Len(Line) = Len(Unsent) + Len(pending)
           /\ \A i \in 1..Len(Unsent) : Line[i] = Unsent[i]
           /\ \A i \in 1..Len(pending) : Line[Len(Unsent) + i] = pending[i]
<1>1. pending \in Seq(Command) /\ batch \in Seq(Command)
      BY DEF QueueInv, TypeOK
<1>2. Unsent \in Seq(Command)
      BY <1>1, TailEffect DEF QueueInv, Unsent
<1>3. QED
      BY <1>1, <1>2 DEF Line

\* The tags of the line's SAVE commands are in the batch or wait.
LEMMA LineTags ==
    ASSUME QueueInv, NEW p \in DOMAIN Line
    PROVE  /\ Line[p] \in Command
           /\ Line[p].tag \in TagsOf(batch) \cup PendingTags
           /\ outcome # "unsent" /\ Line[p].tag \notin Key
                 => Line[p].tag # Head(batch).tag
<1>1. /\ pending \in Seq(Command) /\ batch \in Seq(Command)
      BY DEF QueueInv, TypeOK
<1>2. p \in 1..(Len(Unsent) + Len(pending)) /\ Line[p] \in Command
      BY LineType
<1>3. CASE p \in 1..Len(Unsent)
  <2>1. Line[p] = Unsent[p] /\ Line[p].tag \in TagsOf(Unsent)
        BY <1>3, LineType DEF TagsOf
  <2>2. CASE outcome = "unsent"
        BY <1>2, <2>1, <2>2 DEF Unsent
  <2>3. CASE outcome # "unsent"
    <3>1. TagsOf(Unsent) = TagsOf(batch) \ {Head(batch).tag}
          BY <1>1, <2>3, TailEffect DEF QueueInv, Unsent
    <3>2. QED
          BY <1>2, <2>1, <3>1
  <2>4. QED
        BY <2>2, <2>3
<1>4. CASE p \notin 1..Len(Unsent)
  <2>1. PICK i \in 1..Len(pending) : p = Len(Unsent) + i
    <3>1. p - Len(Unsent) \in 1..Len(pending)
          BY <1>2, <1>4, LineType
    <3>2. QED
          BY <1>2, <3>1, LineType
  <2>2. Line[p] = pending[i] /\ pending[i].tag \in PendingTags
        BY <1>1, <2>1, LineType DEF PendingTags, TagsOf
  <2>3. ASSUME outcome # "unsent", Line[p].tag \notin Key
        PROVE  Line[p].tag # Head(batch).tag
    <3>1. Head(batch).tag \in TagsOf(batch)
          BY <1>1, <2>3 DEF QueueInv, TagsOf
    <3>2. QED
          BY <2>2, <2>3, <3>1 DEF QueueInv
  <2>4. QED
        BY <1>2, <2>2, <2>3
<1>5. QED
      BY <1>3, <1>4

\* A tag that waits keeps its place in the line; another goes to its end.
LEMMA SubmitLine ==
    ASSUME QueueInv, NEW cmd \in Command, Submit(cmd), UNCHANGED <<batch, outcome>>
    PROVE  \/ cmd.tag \notin PendingTags /\ Line' = Append(Line, cmd)
           \/ \E i \in DOMAIN pending :
                 /\ pending[i].tag = cmd.tag
                 /\ DOMAIN Line' = DOMAIN Line /\ Len(Line') = Len(Line)
                 /\ Line' = [q \in DOMAIN Line |->
                                IF q = Len(Unsent) + i THEN cmd ELSE Line[q]]
<1>1. /\ pending \in Seq(Command) /\ Unsent \in Seq(Command)
      /\ Unsent' = Unsent
      BY LineType DEF QueueInv, TypeOK, Unsent
<1>2. CASE cmd.tag \notin PendingTags
  <2>1. pending' = Append(pending, cmd)
        BY <1>2 DEF Submit
  <2>2. Line' = Append(Line, cmd)
        BY <1>1, <2>1 DEF Line
  <2>3. QED
        BY <1>2, <2>2
<1>3. CASE cmd.tag \in PendingTags
  <2>1. PICK i \in DOMAIN pending : pending[i].tag = cmd.tag
        BY <1>3 DEF PendingTags, TagsOf
  <2>2. pending' = Overwrite(pending, cmd)
        BY <1>3 DEF Submit
  <2>3. pending' = [j \in DOMAIN pending |-> IF j = i THEN cmd ELSE pending[j]]
        BY <2>1, <2>2 DEF Overwrite, QueueInv, Distinct
  <2>4. pending' \in Seq(Command) /\ Len(pending') = Len(pending)
        BY <1>1, <2>3
  <2>5. Line' = [q \in DOMAIN Line |->
                    IF q = Len(Unsent) + i THEN cmd ELSE Line[q]]
    <3> DEFINE m == Len(Unsent)
               l == Len(pending)
               f == [q \in 1..(m + l) |-> IF q = m + i THEN cmd ELSE Line[q]]
    <3>1. /\ m \in Nat /\ l \in Nat /\ i \in 1..l
          /\ DOMAIN Line = 1..(m + l)
          /\ DOMAIN pending = 1..l
          BY <1>1, LineType
    <3>2. /\ Line' = Unsent \o pending'
          /\ Line' \in Seq(Command) /\ Len(Line') = m + l
          /\ \A q \in 1..m : Line'[q] = Unsent[q]
          /\ \A j \in 1..l : Line'[m + j] = pending'[j]
          BY <1>1, <2>4 DEF Line
    <3>3. Line' = [q \in 1..(m + l) |-> Line'[q]]
      <4> DEFINE line == Line'
      <4>1. line \in Seq(Command) /\ Len(line) = m + l
            BY <3>2
      <4> HIDE DEF line, m, l
      <4>2. line = [q \in 1..Len(line) |-> line[q]]
            BY <4>1
      <4>3. QED
            BY <4>1, <4>2 DEF line
    <3>4. ASSUME NEW q \in 1..(m + l)
          PROVE  Line'[q] = IF q = m + i THEN cmd ELSE Line[q]
      <4>1. CASE q \in 1..m
            BY <3>1, <3>2, <4>1, LineType
      <4>2. CASE q \notin 1..m
        <5>1. q - m \in 1..l /\ q = m + (q - m)
              BY <3>1, <4>2
        <5>2. Line'[q] = pending'[q - m] /\ Line[q] = pending[q - m]
          <6> DEFINE j == q - m
          <6>1. j \in 1..l /\ q = m + j
                BY <5>1
          <6> HIDE DEF j
          <6>2. Line'[m + j] = pending'[j] /\ Line[m + j] = pending[j]
                BY <3>2, <6>1, LineType
          <6>3. QED
                BY <6>1, <6>2 DEF j
        <5>3. q = m + i <=> q - m = i
              BY <3>1, <5>1
        <5>4. QED
              BY <2>3, <3>1, <5>1, <5>2, <5>3
      <4>3. QED
            BY <4>1, <4>2
    <3>5. QED
          BY <3>1, <3>3, <3>4
  <2>6. DOMAIN Line' = DOMAIN Line /\ Len(Line') = Len(Line)
        BY <1>1, <2>4, <2>5, LineType DEF Line
  <2>7. QED
        BY <2>1, <2>5, <2>6
<1>4. QED
      BY <1>2, <1>3

-----------------------------------------------------------------------------
(* The invariant of the values: nothing failed and ...                     *)

\* ... with the whole line done, the key holds what is awaited;
EndsAwaited(k) == Leads(Line, Len(Line) + 1, k, board[k], {Awaited(k)})

\* ... a SAVE of the line will store what was wanted since its press;
SavesWanted(k) ==
    \A p \in DOMAIN Line :
        Line[p].verb = "SAVE" => Leads(Line, p, k, board[k], since[Line[p].tag][k])

\* ... and the SAVE just sent has stored that.
SavedWanted(k) ==
    outcome = "ok" /\ batch[1].verb = "SAVE" => stored[k] \in since[batch[1].tag][k]

Promise == ~failed => \A k \in Key : EndsAwaited(k) /\ SavesWanted(k) /\ SavedWanted(k)

\* A SAVE keeps what it may store while others are submitted.
LEMMA SavedStays ==
    ASSUME QueueInv, NEW k \in Key, SavedWanted(k),
           UNCHANGED <<batch, outcome, stored>>,
           \A t \in AutoTag \cap TagsOf(batch) : since[t][k] \subseteq since'[t][k]
    PROVE  SavedWanted(k)'
<1> SUFFICES ASSUME outcome = "ok", batch[1].verb = "SAVE"
             PROVE  stored[k] \in since'[batch[1].tag][k]
    BY DEF SavedWanted
<1>1. batch # <<>> /\ batch \in Seq(Command)
      BY DEF QueueInv, TypeOK
<1>2. batch[1] \in Command /\ batch[1].tag \in AutoTag \cap TagsOf(batch)
      BY <1>1, CommandType, SessionAssumption DEF TagsOf, Tag
<1>3. QED
      BY <1>2 DEF SavedWanted

LEMMA PromiseSet ==
    ASSUME QueueInv, ~failed, GuiSet,
           \A k \in Key : EndsAwaited(k) /\ SavesWanted(k) /\ SavedWanted(k)
    PROVE  \A k \in Key : (EndsAwaited(k) /\ SavesWanted(k) /\ SavedWanted(k))'
<1>1. PICK key \in Key, v \in Value :
         /\ Submits(SetCommand(key, v))
         /\ overtaken' = IF BeforeReset(key) THEN overtaken \cup {key}
                                             ELSE overtaken \ {key}
         /\ since' = [t \in AutoTag |-> IF t \in WaitingSaves
                                        THEN [since[t] EXCEPT ![key] = @ \cup {v}]
                                        ELSE since[t]]
      BY DEF GuiSet
<1> DEFINE cmd == SetCommand(key, v)
<1>2. /\ cmd \in Command /\ cmd.tag = key /\ cmd.verb = "SET" /\ Gives(cmd) = v
      /\ \A k : Affects(cmd, k) <=> k = key
      BY DEF SetCommand, Command, Gives, Affects
<1> HIDE DEF cmd
<1>3. /\ Submit(cmd) /\ UNCHANGED <<batch, outcome, board, stored, failed>>
      /\ wanted' = After(cmd, wanted)
      BY <1>1 DEF Submits, boardVars, cmd
<1>4. /\ pending \in Seq(Command) /\ batch \in Seq(Command)
      /\ since \in [AutoTag -> [Key -> SUBSET Value]]
      /\ wanted \in [Key -> Value] /\ key \notin AutoTag
      BY SessionAssumption DEF QueueInv, TypeOK
<1>5. \A t \in AutoTag, k \in Key : since[t][k] \subseteq since'[t][k]
  <2>1. ASSUME NEW t \in AutoTag, NEW k \in Key
        PROVE  since[t][k] \subseteq since'[t][k]
    <3>1. CASE t \in WaitingSaves
          BY <1>1, <1>4, <3>1
    <3>2. CASE t \notin WaitingSaves
          BY <1>1, <1>4, <3>2
    <3>3. QED
          BY <3>1, <3>2
  <2>2. QED
        BY <2>1
<1>6. \A t \in AutoTag \cap WaitingSaves : v \in since'[t][key]
      BY <1>1, <1>4
<1>7. /\ Awaited(key)' = IF BeforeReset(key) THEN Factory ELSE v
      /\ \A k \in Key \ {key} : Awaited(k)' = Awaited(k)
  <2>1. wanted'[key] = v /\ \A k \in Key \ {key} : wanted'[k] = wanted[k]
        BY <1>2, <1>3, <1>4, AfterGives
  <2>2. QED
        BY <1>1, <2>1 DEF Awaited
<1>8. \A k \in Key : SavedWanted(k)'
      BY <1>3, <1>5, SavedStays
<1>9. Line \in Seq(Command) /\ Len(Line) \in Nat /\ DOMAIN Line = 1..Len(Line)
      BY LineType
<1>10. CASE cmd.tag \notin PendingTags /\ Line' = Append(Line, cmd)
  <2>1. /\ Len(Line') = Len(Line) + 1
        /\ DOMAIN Line' = 1..(Len(Line) + 1)
        /\ \A p \in 1..Len(Line) : Line'[p] = Line[p]
        /\ Line'[Len(Line) + 1] = cmd
        BY <1>2, <1>9, <1>10
  <2>2. ~BeforeReset(key)
        BY <1>2, <1>10 DEF BeforeReset, PendingTags, TagsOf
  <2>3. ASSUME NEW k \in Key PROVE EndsAwaited(k)'
    <3>1. IF Affects(cmd, k) THEN Gives(cmd) \in {Awaited(k)'}
                             ELSE Leads(Line, Len(Line) + 1, k, board[k], {Awaited(k)'})
          BY <1>2, <1>7, <2>2 DEF EndsAwaited
    <3>2. Leads(Append(Line, cmd), Len(Line) + 2, k, board[k], {Awaited(k)'})
          BY <1>2, <1>9, <3>1, LeadsLast
    <3>3. board'[k] = board[k] /\ Len(Line') + 1 = Len(Line) + 2
          BY <1>3, <1>9, <2>1
    <3>4. QED
          BY <1>10, <3>2, <3>3 DEF EndsAwaited
  <2>4. ASSUME NEW k \in Key PROVE SavesWanted(k)'
    <3>1. ASSUME NEW p \in DOMAIN Line', Line'[p].verb = "SAVE"
          PROVE  Leads(Line', p, k, board'[k], since'[Line'[p].tag][k])
      <4>1. p \in 1..(Len(Line) + 1) /\ p \in DOMAIN Line /\ Line'[p] = Line[p]
            BY <1>2, <1>9, <2>1, <3>1
      <4>2. Line[p].tag \in AutoTag
            BY <3>1, <4>1, LineTags, CommandType DEF Tag
      <4>3. Leads(Line, p, k, board[k], since[Line[p].tag][k])
            BY <3>1, <4>1 DEF SavesWanted
      <4>4. Leads(Append(Line, cmd), p, k, board[k], since'[Line[p].tag][k])
            BY <1>2, <1>5, <1>9, <4>1, <4>2, <4>3, LeadsBefore
      <4>5. QED
            BY <1>3, <1>10, <4>1, <4>4
    <3>2. QED
          BY <3>1 DEF SavesWanted
  <2>5. QED
        BY <1>8, <2>3, <2>4
<1>11. ASSUME NEW i \in DOMAIN pending, pending[i].tag = cmd.tag,
              DOMAIN Line' = DOMAIN Line, Len(Line') = Len(Line),
              Line' = [q \in DOMAIN Line |->
                          IF q = Len(Unsent) + i THEN cmd ELSE Line[q]]
       PROVE  \A k \in Key : (EndsAwaited(k) /\ SavesWanted(k) /\ SavedWanted(k))'
  <2> DEFINE m == Len(Unsent)
             l == Len(pending)
             at == m + i
  <2>1. /\ m \in Nat /\ l \in Nat /\ i \in 1..l /\ DOMAIN pending = 1..l
        /\ DOMAIN Line = 1..(m + l)
        /\ \A j \in 1..l : Line[m + j] = pending[j]
        BY <1>4, LineType
  <2>2. /\ at \in DOMAIN Line /\ Line[at] = pending[i]
        /\ \A q \in DOMAIN Line : Line'[q] = IF q = at THEN cmd ELSE Line[q]
        BY <1>11, <2>1
  <2>3. /\ pending[i] \in Command /\ pending[i].verb = "SET"
        /\ \A k : Affects(pending[i], k) <=> k = key
        BY <1>2, <1>4, <1>11, <2>1, CommandType DEF Affects
  <2>4. \A j \in 1..l : pending[j].tag = key => j = i
        BY <1>2, <1>11, <2>1 DEF QueueInv, Distinct
  <2> HIDE DEF m, l, at
  <2>5. \A q \in DOMAIN Line : \A k : Affects(Line'[q], k) <=> Affects(Line[q], k)
        BY <1>2, <2>2, <2>3
  <2>6. ASSUME NEW k \in Key \ {key} PROVE EndsAwaited(k)'
    <3>1. Leads(Line, Len(Line) + 1, k, board[k], {Awaited(k)})
          BY DEF EndsAwaited
    <3>2. \A q \in DOMAIN Line : Gives(Line'[q]) = Gives(Line[q]) \/ ~Affects(Line[q], k)
          BY <1>2, <2>2, <2>3
    <3>3. Leads(Line', Len(Line) + 1, k, board[k], {Awaited(k)})
          BY <1>11, <2>5, <3>1, <3>2, LeadsAlike
    <3>4. board' = board /\ Len(Line') = Len(Line) /\ Awaited(k)' = Awaited(k)
          BY <1>3, <1>7, <1>11
    <3>5. QED
          BY <3>3, <3>4 DEF EndsAwaited
  <2>7. EndsAwaited(key)'
    <3>1. at \in DOMAIN Line /\ Affects(Line'[at], key)
          BY <1>2, <2>2
    <3>2. ASSUME NEW q \in DOMAIN Line, q > at
          PROVE  /\ q - m \in 1..l /\ Line'[q] = pending[q - m]
                 /\ pending[q - m].tag # key
      <4>1. q - m \in 1..l /\ q = m + (q - m) /\ q - m > i
            BY <2>1, <3>2 DEF at
      <4>2. Line[m + (q - m)] = pending[q - m]
        <5> DEFINE j == q - m
        <5>1. j \in 1..l
              BY <4>1
        <5> HIDE DEF j
        <5>2. Line[m + j] = pending[j]
              BY <2>1, <5>1
        <5>3. QED
              BY <5>2 DEF j
      <4>3. Line'[q] = Line[q]
            BY <2>1, <2>2, <3>2 DEF at
      <4>4. QED
            BY <2>1, <2>4, <4>1, <4>2, <4>3
    <3>3. ASSUME NEW q \in DOMAIN Line, Affects(Line'[q], key),
                 \A j \in DOMAIN Line :
                     q < j /\ j < Len(Line) + 1 => ~Affects(Line'[j], key)
          PROVE  Gives(Line'[q]) = Awaited(key)'
      <4>1. q >= at
            BY <1>9, <2>1, <3>1, <3>3 DEF at
      <4>2. CASE BeforeReset(key)
        <5>1. PICK a, b \in DOMAIN pending :
                 a < b /\ pending[a].tag = key /\ pending[b].verb = "RESET"
              BY <4>2 DEF BeforeReset
        <5>2. a = i /\ b \in 1..l /\ b > i
              BY <2>1, <2>4, <5>1
        <5>3. m + b \in DOMAIN Line /\ m + b > at /\ m + b < Len(Line) + 1
              BY <1>9, <2>1, <5>2 DEF at
        <5>4. Line[m + b] = pending[b] /\ Line'[m + b] = Line[m + b]
              BY <2>1, <2>2, <5>2, <5>3 DEF at
        <5>5. Affects(Line'[m + b], key)
              BY <5>1, <5>4 DEF Affects
        <5>6. q > at
              BY <1>9, <2>1, <3>3, <5>3, <5>5 DEF at
        <5>7. Line'[q].tag # key
              BY <3>2, <5>6
        <5>8. QED
              BY <1>7, <3>3, <4>2, <5>7 DEF Affects, Gives
      <4>3. CASE ~BeforeReset(key)
        <5>1. q = at
          <6>1. ASSUME q > at PROVE FALSE
            <7>1. /\ q - m \in 1..l /\ Line'[q] = pending[q - m]
                  /\ pending[q - m].tag # key
                  BY <3>2, <6>1
            <7>2. pending[q - m].verb = "RESET"
                  BY <3>3, <7>1 DEF Affects
            <7>3. i < q - m
                  BY <2>1, <6>1, <1>9 DEF at
            <7>4. QED
                  BY <1>2, <1>11, <2>1, <4>3, <7>1, <7>2, <7>3 DEF BeforeReset
          <6>2. QED
                BY <1>9, <2>1, <4>1, <6>1 DEF at
        <5>2. QED
              BY <1>2, <1>7, <2>2, <4>3, <5>1
      <4>4. QED
            BY <4>2, <4>3
    <3>4. ~ \A q \in DOMAIN Line : q < Len(Line) + 1 => ~Affects(Line'[q], key)
          BY <1>9, <3>1
    <3>5. Leads(Line', Len(Line) + 1, key, board[key], {Awaited(key)'})
          BY <1>11, <3>3, <3>4 DEF Leads
    <3>6. QED
          BY <1>3, <1>11, <3>5 DEF EndsAwaited
  <2>8. ASSUME NEW k \in Key PROVE SavesWanted(k)'
    <3>1. ASSUME NEW p \in DOMAIN Line', Line'[p].verb = "SAVE"
          PROVE  Leads(Line', p, k, board'[k], since'[Line'[p].tag][k])
      <4>1. p \in DOMAIN Line /\ p # at /\ Line'[p] = Line[p]
            BY <1>2, <1>11, <2>2, <3>1
      <4>2. Line[p].tag \in AutoTag
            BY <3>1, <4>1, LineTags, CommandType DEF Tag
      <4> DEFINE S == since[Line[p].tag][k]
                 T == since'[Line[p].tag][k]
      <4>3. Leads(Line, p, k, board[k], S) /\ S \subseteq T
            BY <1>5, <3>1, <4>1, <4>2 DEF SavesWanted
      <4>4. at < p /\ k = key => v \in T
        <5> SUFFICES ASSUME at < p, k = key PROVE v \in T
            OBVIOUS
        <5> DEFINE j == p - m
        <5>1. j \in 1..l /\ p = m + j
              BY <2>1, <4>1 DEF at
        <5> HIDE DEF j
        <5>2. Line[p] = pending[j] /\ pending[j].verb = "SAVE"
              BY <2>1, <3>1, <4>1, <5>1
        <5>3. Line[p].tag \in WaitingSaves
              BY <2>1, <5>1, <5>2 DEF WaitingSaves
        <5>4. QED
              BY <1>6, <4>2, <5>3
      <4>5. ASSUME NEW q \in DOMAIN Line, q < p
            PROVE  \/ Gives(Line'[q]) = Gives(Line[q]) \/ Gives(Line'[q]) \in T
                   \/ ~Affects(Line[q], k)
        <5>1. CASE q # at
              BY <2>2, <5>1
        <5>2. CASE q = at
              BY <1>2, <2>2, <2>3, <4>4, <4>5, <5>2
        <5>3. QED
              BY <5>1, <5>2
      <4> HIDE DEF S, T
      <4>6. Leads(Line', p, k, board[k], T)
            BY <1>11, <2>5, <4>3, <4>5, LeadsAlike
      <4>7. QED
            BY <1>3, <4>1, <4>6 DEF T
    <3>2. QED
          BY <3>1 DEF SavesWanted
  <2>9. QED
        BY <1>8, <2>6, <2>7, <2>8
<1>12. QED
  <2>1. \/ cmd.tag \notin PendingTags /\ Line' = Append(Line, cmd)
        \/ \E i \in DOMAIN pending :
              /\ pending[i].tag = cmd.tag
              /\ DOMAIN Line' = DOMAIN Line /\ Len(Line') = Len(Line)
              /\ Line' = [q \in DOMAIN Line |->
                             IF q = Len(Unsent) + i THEN cmd ELSE Line[q]]
        BY <1>2, <1>3, SubmitLine
  <2>2. QED
        BY <1>10, <1>11, <2>1

LEMMA PromiseAct ==
    ASSUME QueueInv, ~failed, GuiAct,
           \A k \in Key : EndsAwaited(k) /\ SavesWanted(k) /\ SavedWanted(k)
    PROVE  \A k \in Key : (EndsAwaited(k) /\ SavesWanted(k) /\ SavedWanted(k))'
<1>1. PICK a \in Actions, tag \in AutoTag \ TagsInUse :
         /\ Submits(ActionCommand(a, tag))
         /\ overtaken' = IF a = "RESET" THEN {} ELSE overtaken
         /\ since' = IF a = "SAVE"
                     THEN [since EXCEPT ![tag] = [k \in Key |-> {Awaited(k)}]]
                     ELSE since
      BY DEF GuiAct
<1> DEFINE cmd == ActionCommand(a, tag)
<1>2. /\ cmd \in Command /\ cmd.tag = tag /\ cmd.verb = a
      /\ a \in {"SAVE", "RESET"}
      BY SessionAssumption DEF ActionCommand, Command
<1> HIDE DEF cmd
<1>3. /\ Submit(cmd) /\ UNCHANGED <<batch, outcome, board, stored, failed>>
      /\ wanted' = After(cmd, wanted)
      BY <1>1 DEF Submits, boardVars, cmd
<1>4. /\ batch \in Seq(Command) /\ wanted \in [Key -> Value]
      /\ since \in [AutoTag -> [Key -> SUBSET Value]]
      /\ tag \notin Key /\ tag \notin PendingTags /\ tag \notin TagsOf(batch)
      BY SessionAssumption DEF QueueInv, TypeOK, TagsInUse
<1>5. Line' = Append(Line, cmd)
      BY <1>2, <1>3, <1>4, SubmitLine DEF PendingTags, TagsOf
<1>6. /\ Line \in Seq(Command) /\ Len(Line) \in Nat /\ DOMAIN Line = 1..Len(Line)
      /\ Len(Line') = Len(Line) + 1 /\ DOMAIN Line' = 1..(Len(Line) + 1)
      /\ \A p \in 1..Len(Line) : Line'[p] = Line[p]
      /\ Line'[Len(Line) + 1] = cmd
      BY <1>2, <1>5, LineType
<1>7. \A t \in AutoTag \ {tag} : since'[t] = since[t]
      BY <1>1, <1>4
<1>8. ASSUME NEW k \in Key PROVE SavedWanted(k)'
  <2>1. \A t \in AutoTag \cap TagsOf(batch) : since[t][k] \subseteq since'[t][k]
        BY <1>4, <1>7
  <2>2. QED
        BY <1>3, <2>1, SavedStays
<1>9. ASSUME NEW k \in Key PROVE EndsAwaited(k)'
  <2>1. IF Affects(cmd, k) THEN Gives(cmd) \in {Awaited(k)'}
                           ELSE Leads(Line, Len(Line) + 1, k, board[k], {Awaited(k)'})
    <3>1. CASE a = "RESET"
      <4>1. wanted'[k] = Factory /\ overtaken' = {}
            BY <1>1, <1>2, <1>3, <3>1 DEF After
      <4>2. QED
            BY <1>2, <3>1, <4>1 DEF Affects, Gives, Awaited
    <3>2. CASE a = "SAVE"
      <4>1. wanted' = wanted /\ overtaken' = overtaken
            BY <1>1, <1>2, <1>3, <3>2 DEF After
      <4>2. Awaited(k)' = Awaited(k) /\ ~Affects(cmd, k)
            BY <1>2, <1>4, <3>2, <4>1 DEF Affects, Awaited
      <4>3. QED
            BY <4>2 DEF EndsAwaited
    <3>3. QED
          BY <1>2, <3>1, <3>2
  <2>2. Leads(Append(Line, cmd), Len(Line) + 2, k, board[k], {Awaited(k)'})
        BY <1>2, <1>6, <2>1, LeadsLast
  <2>3. board'[k] = board[k] /\ Len(Line') + 1 = Len(Line) + 2
        BY <1>3, <1>6
  <2>4. QED
        BY <1>5, <2>2, <2>3 DEF EndsAwaited
<1>10. ASSUME NEW k \in Key PROVE SavesWanted(k)'
  <2>1. ASSUME NEW p \in DOMAIN Line', Line'[p].verb = "SAVE"
        PROVE  Leads(Line', p, k, board'[k], since'[Line'[p].tag][k])
    <3>1. CASE p \in DOMAIN Line
      <4>1. Line'[p] = Line[p] /\ p \in 1..(Len(Line) + 1)
            BY <1>6, <3>1
      <4>2. Line[p].tag \in AutoTag \ {tag}
            BY <1>4, <2>1, <3>1, <4>1, LineTags, CommandType DEF Tag
      <4>3. Leads(Line, p, k, board[k], since[Line[p].tag][k])
            BY <2>1, <3>1, <4>1 DEF SavesWanted
      <4>4. Leads(Append(Line, cmd), p, k, board[k], since[Line[p].tag][k])
            BY <1>2, <1>6, <4>1, <4>3, LeadsBefore
      <4>5. QED
            BY <1>3, <1>5, <1>7, <4>1, <4>2, <4>4
    <3>2. CASE p \notin DOMAIN Line
      <4>1. p = Len(Line) + 1 /\ Line'[p] = cmd /\ a = "SAVE"
            BY <1>2, <1>6, <2>1, <3>2
      <4>2. since'[tag][k] = {Awaited(k)}
            BY <1>1, <1>4, <4>1
      <4>3. Leads(Line, Len(Line) + 1, k, board[k], {Awaited(k)})
            BY DEF EndsAwaited
      <4>4. Leads(Append(Line, cmd), p, k, board[k], {Awaited(k)})
            BY <1>2, <1>6, <4>1, <4>3, LeadsBefore
      <4>5. QED
            BY <1>2, <1>3, <1>5, <4>1, <4>2, <4>4
    <3>3. QED
          BY <3>1, <3>2
  <2>2. QED
        BY <2>1 DEF SavesWanted
<1>11. QED
      BY <1>8, <1>9, <1>10

LEMMA PromiseSend ==
    ASSUME QueueInv, ~failed', WorkerSends,
           \A k \in Key : EndsAwaited(k) /\ SavesWanted(k) /\ SavedWanted(k)
    PROVE  \A k \in Key : (EndsAwaited(k) /\ SavesWanted(k) /\ SavedWanted(k))'
<1>1. /\ batch # <<>> /\ outcome = "unsent" /\ outcome' = "ok"
      /\ TakesEffect(Head(batch))
      /\ UNCHANGED <<pending, batch, wanted, overtaken, since>>
      BY DEF WorkerSends, queueVars, historyVars
<1>2. /\ batch \in Seq(Command) /\ pending \in Seq(Command) /\ Head(batch) = batch[1]
      /\ board \in [Key -> Value] /\ Tail(batch) \in Seq(Command)
      BY <1>1 DEF QueueInv, TypeOK
<1>3. /\ Line = batch \o pending /\ Line' = Tail(batch) \o pending
      BY <1>1 DEF Line, Unsent
<1>4. /\ Line \in Seq(Command) /\ Line # <<>> /\ Line[1] = batch[1]
      /\ Len(Line) \in Nat \ {0} /\ DOMAIN Line = 1..Len(Line)
      /\ Line' = Tail(Line)
  <2>1. /\ Len(batch) \in Nat \ {0} /\ Len(pending) \in Nat
        /\ Line \in Seq(Command) /\ Len(Line) = Len(batch) + Len(pending)
        /\ Line[1] = batch[1]
        BY <1>1, <1>2, <1>3
  <2>2. Line' = Tail(Line)
    <3>1. /\ Line' \in Seq(Command) /\ Tail(Line) \in Seq(Command)
          /\ Len(Line') = Len(Line) - 1 /\ Len(Tail(Line)) = Len(Line) - 1
          BY <1>1, <1>2, <1>3, <2>1
    <3>2. ASSUME NEW q \in 1..(Len(Line) - 1) PROVE Line'[q] = Tail(Line)[q]
      <4>1. Tail(Line)[q] = Line[q + 1]
            BY <2>1
      <4>2. CASE q \in 1..(Len(batch) - 1)
            BY <1>1, <1>2, <1>3, <2>1, <4>1, <4>2
      <4>3. CASE q \notin 1..(Len(batch) - 1)
            BY <1>1, <1>2, <1>3, <2>1, <4>1, <4>3
      <4>4. QED
            BY <4>2, <4>3
    <3> DEFINE new == Line'
               old == Tail(Line)
    <3>3. new \in Seq(Command) /\ old \in Seq(Command) /\ Len(new) = Len(old)
          /\ \A q \in 1..Len(new) : new[q] = old[q]
          BY <3>1, <3>2
    <3> HIDE DEF new, old
    <3>4. new = old
          BY <3>3
    <3>5. QED
          BY <3>4 DEF new, old
  <2>3. QED
        BY <2>1, <2>2
<1>5. /\ board' = After(Line[1], board)
      /\ stored' = IF batch[1].verb = "SAVE" THEN board ELSE stored
      BY <1>1, <1>2, <1>4 DEF TakesEffect
<1>6. /\ Len(Line') = Len(Line) - 1 /\ DOMAIN Line' = 1..(Len(Line) - 1)
      /\ \A p \in 1..(Len(Line) - 1) : Line'[p] = Line[p + 1]
      BY <1>4
<1>7. ASSUME NEW k \in Key PROVE EndsAwaited(k)'
  <2> DEFINE n == Len(Line) + 1
             S == {Awaited(k)}
  <2>1. Leads(Tail(Line), n - 1, k, After(Line[1], board)[k], S)
    <3>1. n \in Nat /\ n > 1
          BY <1>4
    <3>2. EndsAwaited(k)
          OBVIOUS
    <3>3. Leads(Line, n, k, board[k], S)
          BY <3>2 DEF EndsAwaited
    <3> HIDE DEF n, S
    <3>4. QED
          BY <1>2, <1>4, <3>1, <3>3, LeadsTail
  <2>2. n - 1 = Len(Line') + 1 /\ Awaited(k)' = Awaited(k)
        BY <1>1, <1>4, <1>6 DEF Awaited
  <2>3. QED
        BY <1>4, <1>5, <2>1, <2>2 DEF EndsAwaited
<1>8. ASSUME NEW k \in Key PROVE SavesWanted(k)'
  <2>1. ASSUME NEW p \in DOMAIN Line', Line'[p].verb = "SAVE"
        PROVE  Leads(Line', p, k, board'[k], since'[Line'[p].tag][k])
    <3>1. /\ p + 1 \in DOMAIN Line /\ Line'[p] = Line[p + 1]
          /\ p + 1 \in Nat /\ p + 1 > 1 /\ (p + 1) - 1 = p
          BY <1>4, <1>6, <2>1
    <3>2. Leads(Line, p + 1, k, board[k], since[Line[p + 1].tag][k])
          BY <2>1, <3>1 DEF SavesWanted
    <3>3. Leads(Tail(Line), (p + 1) - 1, k, After(Line[1], board)[k],
                since[Line[p + 1].tag][k])
          BY <1>2, <1>4, <3>1, <3>2, LeadsTail
    <3>4. QED
          BY <1>1, <1>4, <1>5, <3>1, <3>3
  <2>2. QED
        BY <2>1 DEF SavesWanted
<1>9. ASSUME NEW k \in Key PROVE SavedWanted(k)'
  <2>1. ASSUME batch[1].verb = "SAVE"
        PROVE  board[k] \in since[batch[1].tag][k]
    <3>1. Leads(Line, 1, k, board[k], since[batch[1].tag][k])
          BY <1>4, <2>1 DEF SavesWanted
    <3>2. \A i \in DOMAIN Line : ~(i < 1)
          BY <1>4
    <3>3. QED
          BY <3>1, <3>2 DEF Leads
  <2>2. QED
        BY <1>1, <1>5, <2>1 DEF SavedWanted
<1>10. QED
      BY <1>7, <1>8, <1>9

\* The line stays the same while commands go from one thread to the other.
LEMMA LineMoves ==
    ASSUME QueueInv, WorkerDrains \/ WorkerCompletes
    PROVE  Line' = Line
<1>1. pending \in Seq(Command) /\ batch \in Seq(Command)
      BY DEF QueueInv, TypeOK
<1>2. CASE WorkerDrains
  <2>1. /\ batch = <<>> /\ batch' = pending /\ pending' = <<>>
        /\ outcome = "unsent" /\ outcome' = "unsent"
        BY <1>2, DrainStep DEF QueueInv
  <2>2. Line = <<>> \o pending /\ Line' = pending \o <<>>
        BY <2>1 DEF Line, Unsent
  <2>3. QED
        BY <1>1, <2>2
<1>3. CASE WorkerCompletes
      BY <1>3, CompleteStep DEF Line, Unsent
<1>4. QED
      BY <1>2, <1>3

LEMMA PromiseComplete ==
    ASSUME QueueInv, WorkerCompletes,
           \A k \in Key : EndsAwaited(k) /\ SavesWanted(k) /\ SavedWanted(k)
    PROVE  \A k \in Key : (EndsAwaited(k) /\ SavesWanted(k) /\ SavedWanted(k))'
<1>1. /\ outcome # "unsent" /\ outcome' = "unsent"
      /\ since' = [t \in AutoTag |-> IF t = Head(batch).tag
                                     THEN [k \in Key |-> {}] ELSE since[t]]
      /\ UNCHANGED <<board, wanted, overtaken>>
      BY CompleteStep DEF boardVars
<1>2. Line' = Line
      BY LineMoves
<1>3. ASSUME NEW k \in Key, NEW p \in DOMAIN Line, Line[p].verb = "SAVE"
      PROVE  since'[Line[p].tag][k] = since[Line[p].tag][k]
  <2>1. Line[p].tag \in AutoTag /\ Line[p].tag \notin Key
        BY <1>3, LineTags, CommandType DEF Tag
  <2>2. QED
        BY <1>1, <2>1, LineTags
<1>4. \A k \in Key : Awaited(k)' = Awaited(k)
      BY <1>1 DEF Awaited
<1>5. \A k \in Key : EndsAwaited(k)'
      BY <1>1, <1>2, <1>4 DEF EndsAwaited
<1>6. ASSUME NEW k \in Key, NEW p \in DOMAIN Line, Line[p].verb = "SAVE"
      PROVE  Leads(Line, p, k, board'[k], since'[Line[p].tag][k])
      BY <1>1, <1>3, <1>6 DEF SavesWanted
<1>7. \A k \in Key : SavesWanted(k)'
      BY <1>2, <1>6 DEF SavesWanted
<1>8. \A k \in Key : SavedWanted(k)'
      BY <1>1 DEF SavedWanted
<1>9. QED
      BY <1>5, <1>7, <1>8

LEMMA PromiseSame ==
    ASSUME UNCHANGED <<Line, batch, outcome, board, stored, wanted, overtaken, since>>,
           \A k \in Key : EndsAwaited(k) /\ SavesWanted(k) /\ SavedWanted(k)
    PROVE  \A k \in Key : (EndsAwaited(k) /\ SavesWanted(k) /\ SavedWanted(k))'
BY DEF EndsAwaited, SavesWanted, SavedWanted, Awaited

LEMMA PromiseInit == ASSUME Init PROVE Promise
<1>1. /\ pending = <<>> /\ batch = <<>> /\ outcome = "unsent"
      /\ board = [k \in Key |-> Factory] /\ wanted = board /\ overtaken = {}
      BY DEF Init, QueueInit
<1>2. Line = <<>> /\ DOMAIN Line = {}
      BY <1>1 DEF Line, Unsent
<1>3. \A k \in Key : Awaited(k) = board[k]
      BY <1>1 DEF Awaited
<1>4. QED
      BY <1>1, <1>2, <1>3 DEF Promise, EndsAwaited, SavesWanted, SavedWanted, Leads

LEMMA PromiseStep ==
    ASSUME QueueInv, Promise, [Next]_vars PROVE Promise'
<1> SUFFICES ASSUME ~failed'
             PROVE  \A k \in Key : (EndsAwaited(k) /\ SavesWanted(k) /\ SavedWanted(k))'
    BY DEF Promise
<1>1. ~failed
  <2>1. CASE GuiSet \/ GuiAct
        BY <2>1, Zenon DEF GuiSet, GuiAct, Submits
  <2>2. CASE GuiCollect \/ WorkerDrains \/ WorkerCompletes
        BY <2>2, Zenon DEF GuiCollect, WorkerDrains, WorkerCompletes
  <2>3. CASE WorkerSends
        BY <2>3, Zenon DEF WorkerSends
  <2>4. CASE UNCHANGED vars
        BY <2>4, Zenon DEF vars
  <2>5. QED
        BY <2>1, <2>2, <2>3, <2>4 DEF Next
<1>2. \A k \in Key : EndsAwaited(k) /\ SavesWanted(k) /\ SavedWanted(k)
      BY <1>1 DEF Promise
<1>3. CASE GuiSet
      BY <1>1, <1>2, <1>3, PromiseSet
<1>4. CASE GuiAct
      BY <1>1, <1>2, <1>4, PromiseAct
<1>5. CASE GuiCollect
  <2>1. UNCHANGED <<pending, batch, outcome, board, stored, wanted, overtaken, since>>
        BY <1>5 DEF GuiCollect, TakeResults, boardVars, historyVars
  <2>2. Line' = Line
        BY <2>1 DEF Line, Unsent
  <2>3. QED
        BY <1>2, <2>1, <2>2, PromiseSame
<1>6. CASE WorkerDrains
  <2>1. /\ UNCHANGED <<board, stored, wanted, overtaken, since>>
        /\ outcome' = "unsent"
        BY <1>6, DrainStep DEF boardVars, historyVars, QueueInv
  <2>2. Line' = Line
        BY <1>6, LineMoves
  <2>3. \A k \in Key : Awaited(k)' = Awaited(k)
        BY <2>1 DEF Awaited
  <2>4. QED
        BY <1>2, <2>1, <2>2, <2>3 DEF EndsAwaited, SavesWanted, SavedWanted
<1>7. CASE WorkerSends
      BY <1>2, <1>7, PromiseSend
<1>8. CASE WorkerCompletes
      BY <1>2, <1>8, PromiseComplete
<1>9. CASE UNCHANGED vars
  <2>1. UNCHANGED <<pending, batch, outcome, board, stored, wanted, overtaken, since>>
        BY <1>9 DEF vars, queueVars, boardVars, historyVars
  <2>2. Line' = Line
        BY <2>1 DEF Line, Unsent
  <2>3. QED
        BY <1>2, <2>1, <2>2, PromiseSame
<1>10. QED
      BY <1>3, <1>4, <1>5, <1>6, <1>7, <1>8, <1>9 DEF Next

LEMMA PromiseHolds == Spec => [](QueueInv /\ Promise)
<1>1. Init => QueueInv /\ Promise
      BY InvInit, PromiseInit
<1>2. QueueInv /\ Promise /\ [Next]_vars => (QueueInv /\ Promise)'
      BY InvStep, PromiseStep
<1>3. QED
      BY <1>1, <1>2, PTL DEF Spec

\* Whatever is submitted while other commands wait or are under way, the board
\* ends up with the last value wanted of every setting, but for those that took
\* a place before a RESET: these end up with the factory value.
THEOREM OnlyResetOvertakesHolds == Spec => []OnlyResetOvertakes
<1>1. QueueInv /\ Promise => OnlyResetOvertakes
  <2> SUFFICES ASSUME QueueInv, Promise, pending = <<>>, batch = <<>>, ~failed,
                      NEW k \in Key
               PROVE  board[k] = Awaited(k)
      BY DEF OnlyResetOvertakes
  <2>1. Line = <<>> /\ DOMAIN Line = {}
        BY DEF Line, Unsent, QueueInv
  <2>2. Leads(Line, Len(Line) + 1, k, board[k], {Awaited(k)})
        BY DEF Promise, EndsAwaited
  <2>3. QED
        BY <2>1, <2>2 DEF Leads
<1>2. QED
      BY <1>1, PromiseHolds, PTL

\* SAVE stores, of every setting, a value wanted at the press or set since; a
\* later SET may take a place before the SAVE, an earlier one never falls behind.
THEOREM SaveStoresNoOlderHolds == Spec => []SaveStoresNoOlder
<1>1. QueueInv /\ Promise => SaveStoresNoOlder
  <2> SUFFICES ASSUME QueueInv, Promise, batch # <<>>, outcome = "ok", ~failed,
                      Head(batch).verb = "SAVE", NEW k \in Key
               PROVE  stored[k] \in since[Head(batch).tag][k]
      BY DEF SaveStoresNoOlder
  <2>1. Head(batch) = batch[1]
        BY DEF QueueInv, TypeOK
  <2>2. QED
        BY <2>1 DEF Promise, SavedWanted
<1>2. QED
      BY <1>1, PromiseHolds, PTL
=============================================================================
