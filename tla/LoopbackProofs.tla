--------------------------- MODULE LoopbackProofs ---------------------------
(***************************************************************************)
(* Theorems about the service and the board on a loopback, for every       *)
(* choice of settings, texts, channels and idle time.                      *)
(***************************************************************************)
EXTENDS LoopbackSession, FiniteSetTheorems, TLAPS

-----------------------------------------------------------------------------
(* The catalogue *)

VTypes == {"bool", "str", "enum", "uint", "f32"}

\* What every item of the catalogue is like.
WellFormed(item) ==
    /\ item.vtype \in VTypes
    /\ item.readonly \in BOOLEAN /\ item.interlocked \in BOOLEAN
    /\ item.interlocked => item.readonly
    /\ item.vtype \in {"str", "uint"} => item.range[1] \in Int /\ item.range[2] \in Int
    /\ item.choices \subseteq Int

LEMMA ItemWellFormed ==
    ASSUME NEW default, NEW range, NEW vtype \in VTypes,
           vtype \in {"str", "uint"} => range[1] \in Int /\ range[2] \in Int
    PROVE  WellFormed(Item(vtype, default, range))
BY DEF Item, WellFormed

LEMMA ChoiceWellFormed ==
    ASSUME NEW default, NEW choices \in SUBSET Int
    PROVE  WellFormed(Choice(default, choices))
BY DEF Choice, Item, WellFormed, VTypes

LEMMA BoardItemsWellFormed ==
    ASSUME NEW name \in DOMAIN BoardItems PROVE WellFormed(BoardItems[name])
<1>1. CASE name = "dev.id"
  <2>1. BoardItems[name] = Item("str", Str(IntText(1)), <<0, 15>>)
        BY <1>1 DEF BoardItems
  <2>2. QED
        BY <2>1, ItemWellFormed DEF VTypes
<1>2. CASE name = "tx.fields"
  <2>1. BoardItems[name] = Item("uint", Int32(DefaultFieldMask), <<0, U32Max>>)
        BY <1>2 DEF BoardItems
  <2>2. QED
        BY <2>1, ItemWellFormed, ScaleAssumption DEF VTypes
<1>3. CASE name = "tx.period_ms"
  <2>1. BoardItems[name] = Item("uint", Int32(100), <<10, 10000>>)
        BY <1>3 DEF BoardItems
  <2>2. QED
        BY <2>1, ItemWellFormed DEF VTypes
<1>4. CASE name = "tx.float_digits"
  <2>1. BoardItems[name] = Item("uint", Int32(4), <<2, 6>>)
        BY <1>4 DEF BoardItems
  <2>2. QED
        BY <2>1, ItemWellFormed DEF VTypes
<1>5. CASE name = "adc.pga"
  <2>1. BoardItems[name] = Choice(1, {1, 2, 4, 8, 16, 32, 64})
        BY <1>5 DEF BoardItems
  <2>2. QED
        BY <2>1, ChoiceWellFormed
<1>6. CASE name = "adc.drate"
  <2>1. BoardItems[name] = Choice(60, DrateChoices)
        BY <1>6 DEF BoardItems
  <2>2. QED
        BY <2>1, ChoiceWellFormed DEF DrateChoices
<1>7. CASE name = "pwr.24v"
  <2>1. BoardItems[name] = Item("bool", Bool(FALSE), NoRange)
        BY <1>7 DEF BoardItems
  <2>2. QED
        BY <2>1, ItemWellFormed DEF VTypes
<1>8. CASE name = "pwr.14v9"
  <2>1. BoardItems[name] = Item("bool", Bool(FALSE), NoRange)
        BY <1>8 DEF BoardItems
  <2>2. QED
        BY <2>1, ItemWellFormed DEF VTypes
<1>9. CASE name = "pwr.5v"
  <2>1. BoardItems[name] = [Item("bool", Bool(TRUE), NoRange) EXCEPT
                                !.readonly = TRUE, !.interlocked = TRUE]
        BY <1>9 DEF BoardItems
  <2>2. QED
        BY <2>1 DEF Item, WellFormed, VTypes
<1>10. CASE name = "pwr.seq_delay_ms"
  <2>1. BoardItems[name] = Item("uint", Int32(500), <<0, 5000>>)
        BY <1>10 DEF BoardItems
  <2>2. QED
        BY <2>1, ItemWellFormed DEF VTypes
<1>11. DOMAIN BoardItems =
         {"dev.id", "tx.fields", "tx.period_ms", "tx.float_digits", "adc.pga",
          "adc.drate", "pwr.24v", "pwr.14v9", "pwr.5v", "pwr.seq_delay_ms"}
      BY DEF BoardItems
<1>12. QED
      BY <1>1, <1>2, <1>3, <1>4, <1>5, <1>6, <1>7, <1>8, <1>9, <1>10, <1>11

LEMMA ChannelItemsWellFormed ==
    ASSUME NEW ch, NEW name \in ChannelNames PROVE WellFormed(ChannelItem(ch, name))
<1>1. CASE name = "enabled"
  <2>1. \E default : ChannelItem(ch, name) = Item("bool", default, NoRange)
        BY <1>1 DEF ChannelItem
  <2>2. QED
        BY <2>1, ItemWellFormed DEF VTypes
<1>2. CASE name = "period_ms"
  <2>1. ChannelItem(ch, name) = Item("uint", Int32(100), <<10, 60000>>)
        BY <1>2 DEF ChannelItem
  <2>2. QED
        BY <2>1, ItemWellFormed DEF VTypes
<1>3. CASE name = "zero"
      BY <1>3, ItemWellFormed DEF ChannelItem, VTypes
<1>4. CASE name = "scale"
      BY <1>4, ItemWellFormed DEF ChannelItem, VTypes
<1>5. CASE name = "unit"
  <2>1. \E default : ChannelItem(ch, name) = Item("str", default, <<0, 7>>)
        BY <1>5 DEF ChannelItem, OtherText, Bool
  <2>2. QED
        BY <2>1, ItemWellFormed DEF VTypes
<1>6. QED
      BY <1>1, <1>2, <1>3, <1>4, <1>5, Zenon DEF ChannelNames

LEMMA CatalogueWellFormed ==
    ASSUME NEW key \in Key PROVE WellFormed(ItemOf(key))
<1>1. CASE key[1] \in ChannelNames
      BY <1>1, ChannelItemsWellFormed DEF ItemOf
<1>2. CASE key[1] \notin ChannelNames
  <2>1. key[1] \in DOMAIN BoardItems
        BY <1>2, BoardAssumption DEF CatalogKey
  <2>2. QED
        BY <1>2, <2>1, BoardItemsWellFormed DEF ItemOf
<1>3. QED
      BY <1>1, <1>2

\* A catalogue says of every setting its own line.
LEMMA CatalogueParsed ==
    ASSUME NEW config
    PROVE  ParseCatalog(CatalogLines(config)) =
               [key \in DOMAIN config |-> CatalogLine(key, config[key])]
<1> DEFINE lines == CatalogLines(config)
<1>1. \A key, value : CatalogLine(key, value).key = key
      BY DEF CatalogLine
<1>2. {line.key : line \in lines} = DOMAIN config
      BY <1>1 DEF CatalogLines
<1>3. ASSUME NEW key \in DOMAIN config
      PROVE  (CHOOSE line \in lines : line.key = key) = CatalogLine(key, config[key])
  <2>1. CatalogLine(key, config[key]) \in lines
        BY DEF CatalogLines
  <2>2. \A line \in lines : line.key = key => line = CatalogLine(key, config[key])
        BY <1>1 DEF CatalogLines
  <2>3. QED
        BY <1>1, <2>1, <2>2
<1>4. QED
      BY <1>2, <1>3 DEF ParseCatalog

-----------------------------------------------------------------------------
(* The two validators *)

LEMMA BoolTextsAlike ==
    ASSUME NEW text
    PROVE  /\ text \in TrueWords \cup FalseWords <=> IsTrueWord(text) \/ IsFalseWord(text)
           /\ (text \in TrueWords) = IsTrueWord(text)
<1>1. text \in TrueWords <=> IsTrueWord(text)
      BY DEF TrueWords, IsTrueWord
<1>2. text \in FalseWords <=> IsFalseWord(text)
      BY DEF FalseWords, IsFalseWord
<1>3. (text \in TrueWords) = IsTrueWord(text)
      BY DEF TrueWords, IsTrueWord
<1>4. QED
      BY <1>1, <1>2, <1>3, Zenon

LEMMA TextCases ==
    ASSUME NEW text \in Text
    PROVE  /\ text.form \in {"int", "decimal", "nonfinite", "true", "false", "text"}
           /\ text.form = "int" => text.int \in Int /\ text = IntText(text.int)
           /\ text.form = "text" => text.length \in Nat
           /\ LengthOf(text) \in Nat
<1>1. CASE text \in [form : {"int"}, int : Int]
      BY <1>1 DEF IntText, LengthOf
<1>2. CASE text \in [form : {"decimal"}, milli : Int]
      BY <1>2 DEF LengthOf
<1>3. CASE text \in {NotFinite, TrueWord, FalseWord}
      BY <1>3 DEF NotFinite, TrueWord, FalseWord, LengthOf
<1>4. CASE text \in [form : {"text"}, length : Nat, clean : BOOLEAN]
      BY <1>4 DEF LengthOf
<1>5. QED
      BY <1>1, <1>2, <1>3, <1>4, BoardAssumption DEF AnyText

\* The host accepts for a line of the catalogue what the board accepts for the
\* item, and makes the same value of it.
LEMMA AcceptanceAlike ==
    ASSUME NEW key \in Key, NEW text \in Text, NEW value
    PROVE  /\ HostAccepts(CatalogLine(key, value), text) <=> ItemAccepts(key, text)
           /\ ItemAccepts(key, text) =>
                 HostValue(CatalogLine(key, value), text) = ItemValue(key, text)
<1> DEFINE item == ItemOf(key)
           line == CatalogLine(key, value)
<1>1. /\ line.vtype = item.vtype /\ line.range = item.range
      /\ line.choices = item.choices
      BY DEF CatalogLine
<1>2. WellFormed(item)
      BY CatalogueWellFormed
<1> HIDE DEF item, line
<1>3. CASE item.vtype = "bool"
  <2>1. HostAccepts(line, text) <=> text \in TrueWords \cup FalseWords
        BY <1>1, <1>3 DEF HostAccepts
  <2>2. ItemAccepts(key, text) <=> IsTrueWord(text) \/ IsFalseWord(text)
        BY <1>3 DEF ItemAccepts, item
  <2>3. HostValue(line, text) = Bool(text \in TrueWords)
        BY <1>1, <1>3 DEF HostValue
  <2>4. ItemValue(key, text) = Bool(IsTrueWord(text))
        BY <1>3 DEF ItemValue, item
  <2>5. QED
        BY <2>1, <2>2, <2>3, <2>4, BoolTextsAlike, Zenon DEF line
<1>4. CASE item.vtype = "str"
  <2>1. HostAccepts(line, text) <=> Clean(text) /\ ~(LengthOf(text) > item.range[2])
        BY <1>1, <1>4 DEF HostAccepts
  <2>2. ItemAccepts(key, text) <=> Clean(text) /\ LengthOf(text) <= item.range[2]
        BY <1>4 DEF ItemAccepts, item
  <2>3. ~(LengthOf(text) > item.range[2]) <=> LengthOf(text) <= item.range[2]
        BY <1>2, <1>4, TextCases DEF WellFormed
  <2>4. HostValue(line, text) = Str(text) /\ ItemValue(key, text) = Str(text)
        BY <1>1, <1>4 DEF HostValue, ItemValue, item
  <2>5. QED
        BY <2>1, <2>2, <2>3, <2>4, Zenon DEF line
<1>5. CASE item.vtype = "enum"
  <2>1. HostAccepts(line, text) <=> \E n \in item.choices : text = IntText(n)
        BY <1>1, <1>5 DEF HostAccepts
  <2>2. ItemAccepts(key, text) <=> text.form = "int" /\ text.int \in item.choices
        BY <1>5 DEF ItemAccepts, item
  <2>3. (\E n \in item.choices : text = IntText(n))
            <=> text.form = "int" /\ text.int \in item.choices
        BY TextCases DEF IntText
  <2>4. HostValue(line, text) = Int32(text.int) /\ ItemValue(key, text) = Int32(text.int)
        BY <1>1, <1>5 DEF HostValue, ItemValue, item
  <2>5. QED
        BY <2>1, <2>2, <2>3, <2>4, Zenon DEF line
<1>6. CASE item.vtype = "uint"
  <2>1. HostAccepts(line, text) <=>
            text.form = "int" /\ ~(text.int < item.range[1] \/ text.int > item.range[2])
        BY <1>1, <1>6 DEF HostAccepts
  <2>2. ItemAccepts(key, text) <=> text.form = "int" /\ InRange(item, text.int)
        BY <1>6 DEF ItemAccepts, item
  <2>3. text.form = "int" =>
            (~(text.int < item.range[1] \/ text.int > item.range[2])
                <=> InRange(item, text.int))
        BY <1>2, <1>6, TextCases DEF WellFormed, InRange
  <2>4. HostValue(line, text) = Int32(text.int) /\ ItemValue(key, text) = Int32(text.int)
        BY <1>1, <1>6 DEF HostValue, ItemValue, item
  <2>5. QED
        BY <2>1, <2>2, <2>3, <2>4, Zenon DEF line
<1>7. CASE item.vtype = "f32"
  <2>1. HostAccepts(line, text) <=> text.form \in {"int", "decimal"}
        BY <1>1, <1>7 DEF HostAccepts, IsReal
  <2>2. ItemAccepts(key, text) <=> text.form \in {"int", "decimal"}
        BY <1>7 DEF ItemAccepts, item
  <2>3. HostValue(line, text) = ItemValue(key, text)
        BY <1>1, <1>7 DEF HostValue, ItemValue, item
  <2>4. QED
        BY <2>1, <2>2, <2>3, Zenon DEF line
<1>8. QED
      BY <1>2, <1>3, <1>4, <1>5, <1>6, <1>7 DEF WellFormed, VTypes

-----------------------------------------------------------------------------
(* The inductive invariant *)

Reply == Store!Replies \cup {"MODE"}

\* The settings of a board without a file.
StoreInv ==
    /\ up /\ file = "none" /\ ~loadFailed /\ rejected = {} /\ ~edited
    /\ dirty \in BOOLEAN /\ reply \in Reply
    /\ DOMAIN current = Key

\* The board's time lags behind the clock, and so does its heartbeat stamp.
Lag ==
    /\ DeviceTypeOK
    /\ clock \in Nat /\ now <= clock /\ clock - now <= MaxIdle
    /\ hbAt \in Nat \cup {None}
    /\ hbAt = None <=> lastHbRx = None
    /\ hbAt # None => lastHbRx <= hbAt /\ hbAt <= clock /\ hbAt <= lastHbRx + MaxIdle

\* The host knows of every setting what a new catalogue would say.
Picture == schema = [key \in Key |-> CatalogLine(key, current[key])]

SessionInv ==
    /\ StoreInv /\ Lag /\ Picture
    /\ hostMode \in {"CONFIG", "RUN"}
    /\ last.op \in {"idle", "pump", "heartbeat", "write", "read", "nonsense"}
    /\ WriteNeedsHeartbeat /\ HeartbeatAllowsWrite /\ ValidatorsAgree

-----------------------------------------------------------------------------
(* The board's part of a step *)

LEMMA SackKeepsStore ==
    ASSUME StoreInv, NEW reason \in Reply, Sack(reason)
    PROVE  StoreInv' /\ reply' = reason /\ current' = current
BY DEF Sack, StoreInv

\* What the answer of the board to a write follows from.
Judges(key, text, answer) ==
    /\ answer \in Store!Replies
    /\ answer = "UNKNOWN_KEY" <=> key \notin Key
    /\ answer = "RANGE" <=> key \in Key /\ ~ItemAccepts(key, text)
    /\ key \in Key /\ ItemOf(key).readonly => answer # "CAPACITY"
    /\ key \in Key /\ ~ItemOf(key).readonly => answer \notin {"INTERLOCK", "READONLY"}

\* The verdict before the write; a read-only item is not written.
LEMMA VerdictCases ==
    ASSUME NEW key \in Key \cup {UnknownKey}, NEW text \in Text
    PROVE  /\ Judges(key, text, Store!Verdict(key, text))
           /\ Store!Verdict(key, text) # "CAPACITY"
           /\ Store!Verdict(key, text) = "OK" /\ ItemOf(key).readonly
                 => ItemValue(key, text) = current[key]
<1>1. CASE key \notin Key
  <2>1. Store!Verdict(key, text) = "UNKNOWN_KEY"
        BY <1>1 DEF Store!Verdict
  <2>2. QED
        BY <1>1, <2>1 DEF Store!Replies, Judges
<1>2. CASE key \in Key /\ ~ItemAccepts(key, text)
  <2>1. Store!Verdict(key, text) = "RANGE"
        BY <1>2 DEF Store!Verdict
  <2>2. QED
        BY <1>2, <2>1 DEF Store!Replies, Judges
<1>3. CASE key \in Key /\ ItemAccepts(key, text)
  <2> DEFINE verdict == Store!Verdict(key, text)
  <2>1. verdict = IF ItemValue(key, text) = current[key] THEN "OK"
                  ELSE IF ItemOf(key).interlocked THEN "INTERLOCK"
                  ELSE IF ItemOf(key).readonly THEN "READONLY" ELSE "OK"
        BY <1>3 DEF Store!Verdict
  <2>2. ItemOf(key).interlocked => ItemOf(key).readonly
        BY <1>3, CatalogueWellFormed DEF WellFormed
  <2> HIDE DEF verdict
  <2>3. QED
        BY <1>3, <2>1, <2>2 DEF Store!Replies, Judges, verdict
<1>4. QED
      BY <1>1, <1>2, <1>3

\* A write the mode allows is judged, and a refusal leaves every setting as it
\* was, the roll-back of a refused combination included.
LEMMA OnSetEffect ==
    ASSUME StoreInv, NEW key \in Key \cup {UnknownKey}, NEW text \in Text,
           OnSet(key, text)
    PROVE  /\ StoreInv'
           /\ IF WriteAllowed THEN Judges(key, text, reply') ELSE reply' = "MODE"
           /\ reply' = "OK" =>
                 \A k \in Key : current'[k] = IF k = key THEN ItemValue(key, text)
                                                         ELSE current[k]
           /\ reply' # "OK" => \A k \in Key : current'[k] = current[k]
<1>1. CASE ~WriteAllowed
  <2>1. Sack("MODE")
        BY <1>1 DEF OnSet, ConfigOnly
  <2>2. QED
        BY <1>1, <2>1, SackKeepsStore DEF Reply
<1>2. CASE WriteAllowed
  <2> DEFINE value == ItemValue(key, text)
             verdict == Store!Verdict(key, text)
             written == [current EXCEPT ![key] = value]
             checked == Store!CheckCombination(written, key, current[key])
  <2>1. Store!Set(key, text)
        BY <1>2 DEF OnSet, ConfigOnly
  <2>2. /\ IF verdict = "OK" /\ value # current[key]
           THEN Store!TryWrite(key, value)
           ELSE reply' = verdict /\ UNCHANGED <<current, dirty>>
        /\ UNCHANGED <<up, loadFailed, rejected, file, saved, edited>>
        BY <2>1 DEF Store!Set
  <2>3. /\ Judges(key, text, verdict)
        /\ verdict = "OK" /\ ItemOf(key).readonly => value = current[key]
        BY VerdictCases
  <2>4. verdict \in Reply /\ (verdict = "OK" => key \in Key)
        BY <2>3 DEF Reply, Judges
  <2> HIDE DEF verdict, value
  <2>5. CASE verdict = "OK" /\ value # current[key]
    <3>1. IF checked
          THEN reply' = "OK" /\ current' = written /\ dirty' = TRUE
          ELSE /\ reply' = "CAPACITY" /\ dirty' = dirty
               /\ current' = [written EXCEPT ![key] = current[key]]
          BY <2>2, <2>5 DEF Store!TryWrite, Store!RollBack
    <3> HIDE DEF checked
    <3>2. reply' \in {"OK", "CAPACITY"} /\ DOMAIN current' = Key /\ dirty' \in BOOLEAN
          BY <3>1 DEF StoreInv
    <3>3. Judges(key, text, reply')
          BY <2>3, <2>5, <3>2 DEF Judges, Store!Replies
    <3>4. StoreInv'
          BY <2>2, <3>2 DEF StoreInv, Reply, Store!Replies
    <3>5. reply' = "OK" => \A k \in Key : current'[k] = IF k = key THEN value
                                                                  ELSE current[k]
          BY <3>1 DEF StoreInv
    <3>6. reply' # "OK" => \A k \in Key : current'[k] = current[k]
          BY <3>1 DEF StoreInv
    <3>7. QED
          BY <1>2, <3>3, <3>4, <3>5, <3>6 DEF value
  <2>6. CASE ~(verdict = "OK" /\ value # current[key])
    <3>1. reply' = verdict /\ UNCHANGED <<current, dirty>>
          BY <2>2, <2>6
    <3>2. StoreInv'
          BY <2>2, <2>4, <3>1 DEF StoreInv
    <3>3. QED
          BY <1>2, <2>3, <2>6, <3>1, <3>2 DEF value
  <2>7. QED
        BY <2>5, <2>6
<1>3. QED
      BY <1>1, <1>2

LEMMA OnSaveEffect ==
    ASSUME StoreInv, OnSave
    PROVE  /\ StoreInv' /\ current' = current
           /\ reply' = IF WriteAllowed THEN "OK" ELSE "MODE"
<1>1. CASE ~WriteAllowed
      BY <1>1, SackKeepsStore DEF OnSave, ConfigOnly, Reply
<1>2. CASE WriteAllowed
      BY <1>2 DEF OnSave, ConfigOnly, Store!Save, StoreInv, Reply, Store!Replies
<1>3. QED
      BY <1>1, <1>2

LEMMA OnResetEffect ==
    ASSUME StoreInv, OnReset
    PROVE  /\ StoreInv'
           /\ reply' = IF WriteAllowed THEN "OK" ELSE "MODE"
           /\ current' = IF reply' = "OK" THEN FactoryConfig ELSE current
<1>1. CASE ~WriteAllowed
      BY <1>1, SackKeepsStore DEF OnReset, ConfigOnly, Reply
<1>2. CASE WriteAllowed
      BY <1>2
      DEF OnReset, ConfigOnly, Store!Reset, StoreInv, Reply, Store!Replies,
          FactoryConfig
<1>3. QED
      BY <1>1, <1>2

\* The tick of a pump brings the board's time up to the clock.
LEMMA PumpEffect ==
    ASSUME SessionInv, NEW hbRx, PumpAfter(hbRx), clock' = clock,
           \/ hbRx = lastHbRx /\ hbAt' = hbAt
           \/ hbRx = now /\ hbAt' = clock
    PROVE  /\ Lag' /\ now' = clock
           /\ hostMode' = Mode' /\ hostMode' \in {"CONFIG", "RUN"}
<1> USE DeviceAssumption, IdleAssumption
<1> DEFINE channels == Cardinality(Enabled(current'))
           period == current'[Board("tx.period_ms")].int
<1>1. channels \in Nat
  <2>1. 0 \in Int /\ 6 \in Int
        OBVIOUS
  <2>2. IsFiniteSet(0..6)
        BY <2>1, FS_Interval, Zenon
  <2>3. Enabled(current') \in SUBSET (0..6)
        BY ChannelAssumption DEF Enabled
  <2>4. QED
        BY <2>2, <2>3, FS_Subset, FS_CardinalityType
<1>2. /\ BoardTick(clock, hbRx) /\ hostMode' = Mode'
      BY DEF PumpAfter
<1>3. Tick(clock, hbRx, period, channels)
      BY <1>2 DEF BoardTick
<1> HIDE DEF channels, period
<1>4. /\ now' = clock /\ lastHbRx' = hbRx
      /\ lastHbTx' \in {clock, lastHbTx} /\ lastEmit' \in {clock, lastEmit}
      /\ seq' \in {seq, seq + channels}
      BY <1>3 DEF Tick
<1>5. Lag'
      BY <1>1, <1>4 DEF SessionInv, Lag, DeviceTypeOK
<1>6. hostMode' \in {"CONFIG", "RUN"}
      BY <1>2 DEF Mode
<1>7. QED
      BY <1>2, <1>4, <1>5, <1>6

\* The mode of the board follows the host's heartbeats up to the idle time.
LEMMA WriteTimed ==
    ASSUME SessionInv, NEW verdict, last' = Write(verdict),
           clock' = clock, hbAt' = hbAt,
           reply' = "MODE" <=> ~WriteAllowed
    PROVE  WriteNeedsHeartbeat' /\ HeartbeatAllowsWrite'
<1> USE DeviceAssumption, IdleAssumption DEF Lag, DeviceTypeOK, SessionInv
<1>1. last'.age = IF hbAt = None THEN None ELSE clock - hbAt
      BY DEF Write
<1>2. WriteAllowed <=> lastHbRx # None /\ now - lastHbRx <= HbTimeout
      BY DEF WriteAllowed, Mode
<1>3. CASE WriteAllowed
  <2>1. last'.age = clock - hbAt /\ clock - hbAt <= HbTimeout + MaxIdle
        BY <1>1, <1>2, <1>3
  <2>2. clock - hbAt # None
        BY <1>2, <1>3
  <2>3. QED
        BY <1>3, <2>1, <2>2 DEF WriteNeedsHeartbeat, HeartbeatAllowsWrite
<1>4. CASE ~WriteAllowed
  <2>1. hbAt # None => clock - hbAt > HbTimeout - MaxIdle
        BY <1>2, <1>4
  <2>2. QED
        BY <1>1, <1>4, <2>1 DEF WriteNeedsHeartbeat, HeartbeatAllowsWrite
<1>5. QED
      BY <1>3, <1>4

\* What the host's validator and the board say of a write the board judges.
LEMMA VerdictsAgree ==
    ASSUME StoreInv, Picture, NEW key \in Key \cup {UnknownKey}, NEW text \in Text,
           NEW board, Judges(key, text, board)
    PROVE  LET host == Validate(schema, key, text)
           IN  /\ host = "OK" => board \in {"OK", "CAPACITY"}
               /\ host \in {"UNKNOWN_KEY", "RANGE"} => board = host
               /\ host = "READONLY" => board \in {"OK", "RANGE", "INTERLOCK", "READONLY"}
<1> DEFINE host == Validate(schema, key, text)
<1>1. DOMAIN schema = Key
      BY DEF Picture
<1>2. CASE key \notin Key
  <2>1. host = "UNKNOWN_KEY"
        BY <1>1, <1>2 DEF Validate
  <2>2. board = "UNKNOWN_KEY"
        BY <1>2 DEF Judges
  <2>3. QED
        BY <2>1, <2>2
<1>3. CASE key \in Key
  <2>1. schema[key] = CatalogLine(key, current[key])
        BY <1>3 DEF Picture
  <2>2. schema[key].ro = ItemOf(key).readonly
        BY <2>1 DEF CatalogLine
  <2>3. HostAccepts(schema[key], text) <=> ItemAccepts(key, text)
        BY <1>3, <2>1, AcceptanceAlike
  <2>4. host = IF ItemOf(key).readonly THEN "READONLY"
               ELSE IF ItemAccepts(key, text) THEN "OK" ELSE "RANGE"
        BY <1>1, <1>3, <2>2, <2>3 DEF Validate
  <2>5. /\ board \in Store!Replies /\ board # "UNKNOWN_KEY"
        /\ board = "RANGE" <=> ~ItemAccepts(key, text)
        /\ ItemOf(key).readonly => board # "CAPACITY"
        /\ ~ItemOf(key).readonly => board \notin {"INTERLOCK", "READONLY"}
        BY <1>3 DEF Judges
  <2> HIDE DEF host
  <2>6. board \in {"OK", "UNKNOWN_KEY", "RANGE", "INTERLOCK", "READONLY", "CAPACITY"}
        BY <2>5 DEF Store!Replies
  <2>7. QED
        BY <2>4, <2>5, <2>6 DEF host
<1>4. QED
      BY <1>2, <1>3

\* A step that judges no write and keeps the settings.
LEMMA ReadStep ==
    ASSUME SessionInv, StoreInv', current' = current, schema' = schema, Lag',
           hostMode' \in {"CONFIG", "RUN"},
           last'.op \in {"idle", "pump", "heartbeat", "read", "nonsense"}
    PROVE  SessionInv'
BY DEF SessionInv, Picture, WriteNeedsHeartbeat, HeartbeatAllowsWrite, ValidatorsAgree

\* A line of the host brought up to date with an acknowledged value.
LEMMA CurReplaced ==
    \A key, old, new :
        [CatalogLine(key, old) EXCEPT !.cur = new] = CatalogLine(key, new)
BY DEF CatalogLine

-----------------------------------------------------------------------------
(* The steps *)

LEMMA InvInit == ASSUME Init PROVE SessionInv
<1> USE DeviceAssumption, IdleAssumption
<1>1. StoreInv
      BY DEF Init, BoardInit, StoreInv, Reply, Store!Replies, FactoryConfig
<1>2. Lag
      BY DEF Init, BoardInit, DeviceInit, Lag, DeviceTypeOK
<1>3. DOMAIN FactoryConfig = Key
      BY DEF FactoryConfig
<1>4. schema = [key \in Key |-> CatalogLine(key, current[key])]
      BY <1>3, CatalogueParsed DEF Init, BoardInit
<1>5. QED
      BY <1>1, <1>2, <1>4
      DEF Init, BoardInit, DeviceInit, SessionInv, Picture, Other,
          WriteNeedsHeartbeat, HeartbeatAllowsWrite, ValidatorsAgree

LEMMA SetConfigKeepsInv ==
    ASSUME SessionInv, NEW key \in Key \cup {UnknownKey}, NEW text \in Text,
           SetConfig(key, text)
    PROVE  SessionInv'
<1> DEFINE host == Validate(schema, key, text)
<1>1. /\ OnSet(key, text) /\ PumpAfter(lastHbRx) /\ last' = Write(host)
      /\ clock' = clock /\ hbAt' = hbAt
      /\ schema' = IF reply' = "OK"
                   THEN [schema EXCEPT ![key].cur = HostValue(schema[key], text)]
                   ELSE schema
      BY DEF SetConfig, Send
<1>2. /\ Lag' /\ hostMode' \in {"CONFIG", "RUN"}
      BY <1>1, PumpEffect
<1>3. StoreInv /\ Picture
      BY DEF SessionInv
<1>4. /\ StoreInv'
      /\ IF WriteAllowed THEN Judges(key, text, reply') ELSE reply' = "MODE"
      /\ reply' = "OK" =>
            \A k \in Key : current'[k] = IF k = key THEN ItemValue(key, text)
                                                    ELSE current[k]
      /\ reply' # "OK" => \A k \in Key : current'[k] = current[k]
      BY <1>1, <1>3, OnSetEffect
<1>5. reply' = "MODE" <=> ~WriteAllowed
      BY <1>4 DEF Judges, Store!Replies
<1>6. WriteNeedsHeartbeat' /\ HeartbeatAllowsWrite'
      BY <1>1, <1>5, WriteTimed
<1>7. Picture'
  <2>1. CASE reply' = "OK"
    <3>1. key \in Key /\ ItemAccepts(key, text)
          BY <1>4, <1>5, <2>1 DEF Judges
    <3>2. schema[key] = CatalogLine(key, current[key])
          BY <1>3, <3>1 DEF Picture
    <3>3. HostValue(schema[key], text) = ItemValue(key, text)
          BY <3>1, <3>2, AcceptanceAlike
    <3>4. [schema[key] EXCEPT !.cur = ItemValue(key, text)]
              = CatalogLine(key, ItemValue(key, text))
          BY <3>2, CurReplaced
    <3>5. schema' = [schema EXCEPT ![key].cur = ItemValue(key, text)]
          BY <1>1, <2>1, <3>3
    <3>6. schema' = [schema EXCEPT ![key] = CatalogLine(key, ItemValue(key, text))]
          BY <3>4, <3>5, Zenon
    <3>7. QED
          BY <1>3, <1>4, <2>1, <3>1, <3>6 DEF Picture
  <2>2. CASE reply' # "OK"
        BY <1>1, <1>3, <1>4, <2>2 DEF Picture
  <2>3. QED
        BY <2>1, <2>2
<1>8. ValidatorsAgree'
  <2>1. reply' # "MODE" => Judges(key, text, reply')
        BY <1>4, <1>5
  <2>2. last'.verdict = host
        BY <1>1 DEF Write
  <2>3. QED
        BY <1>3, <2>1, <2>2, VerdictsAgree DEF ValidatorsAgree
<1>9. last'.op = "write"
      BY <1>1 DEF Write
<1>10. QED
      BY <1>2, <1>4, <1>6, <1>7, <1>8, <1>9 DEF SessionInv

LEMMA SetIncompleteKeepsInv ==
    ASSUME SessionInv, SetIncomplete PROVE SessionInv'
<1>1. /\ OnSetIncomplete /\ PumpAfter(lastHbRx) /\ last' = Write("RANGE")
      /\ clock' = clock /\ hbAt' = hbAt /\ schema' = schema
      BY DEF SetIncomplete, Send
<1>2. /\ Lag' /\ hostMode' \in {"CONFIG", "RUN"}
      BY <1>1, PumpEffect
<1>3. Sack(IF WriteAllowed THEN "RANGE" ELSE "MODE")
      BY <1>1 DEF OnSetIncomplete, ConfigOnly
<1>4. /\ StoreInv' /\ current' = current
      /\ reply' = IF WriteAllowed THEN "RANGE" ELSE "MODE"
      BY <1>3, SackKeepsStore DEF SessionInv, Reply, Store!Replies
<1>5. WriteNeedsHeartbeat' /\ HeartbeatAllowsWrite'
      BY <1>1, <1>4, WriteTimed
<1>6. ValidatorsAgree' /\ last'.op = "write"
      BY <1>1, <1>4 DEF ValidatorsAgree, Write
<1>7. Picture'
      BY <1>1, <1>4 DEF SessionInv, Picture
<1>8. QED
      BY <1>2, <1>4, <1>5, <1>6, <1>7 DEF SessionInv

LEMMA SaveKeepsInv == ASSUME SessionInv, Save PROVE SessionInv'
<1>1. /\ OnSave /\ PumpAfter(lastHbRx) /\ last' = Write("OK")
      /\ clock' = clock /\ hbAt' = hbAt /\ schema' = schema
      BY DEF Save, Send
<1>2. /\ Lag' /\ hostMode' \in {"CONFIG", "RUN"}
      BY <1>1, PumpEffect
<1>3. /\ StoreInv' /\ current' = current
      /\ reply' = IF WriteAllowed THEN "OK" ELSE "MODE"
      BY <1>1, OnSaveEffect DEF SessionInv
<1>4. WriteNeedsHeartbeat' /\ HeartbeatAllowsWrite'
      BY <1>1, <1>3, WriteTimed
<1>5. ValidatorsAgree' /\ last'.op = "write"
      BY <1>1, <1>3 DEF ValidatorsAgree, Write
<1>6. Picture'
      BY <1>1, <1>3 DEF SessionInv, Picture
<1>7. QED
      BY <1>2, <1>3, <1>4, <1>5, <1>6 DEF SessionInv

LEMMA ResetKeepsInv == ASSUME SessionInv, Reset PROVE SessionInv'
<1>1. /\ OnReset /\ PumpAfter(lastHbRx) /\ last' = Write("OK")
      /\ clock' = clock /\ hbAt' = hbAt
      /\ schema' = IF reply' = "OK"
                   THEN [key \in Key |-> [schema[key] EXCEPT !.cur = ItemOf(key).default]]
                   ELSE schema
      BY DEF Reset, Send
<1>2. /\ Lag' /\ hostMode' \in {"CONFIG", "RUN"}
      BY <1>1, PumpEffect
<1>3. /\ StoreInv'
      /\ reply' = IF WriteAllowed THEN "OK" ELSE "MODE"
      /\ current' = IF reply' = "OK" THEN FactoryConfig ELSE current
      BY <1>1, OnResetEffect DEF SessionInv
<1>4. WriteNeedsHeartbeat' /\ HeartbeatAllowsWrite'
      BY <1>1, <1>3, WriteTimed
<1>5. ValidatorsAgree' /\ last'.op = "write"
      BY <1>1, <1>3 DEF ValidatorsAgree, Write
<1>6. Picture'
  <2>1. CASE reply' = "OK"
    <3>1. \A key \in Key : [schema[key] EXCEPT !.cur = ItemOf(key).default]
                               = CatalogLine(key, ItemOf(key).default)
          BY CurReplaced DEF SessionInv, Picture
    <3>2. \A key \in Key : current'[key] = ItemOf(key).default
          BY <1>3, <2>1 DEF FactoryConfig
    <3>3. QED
          BY <1>1, <2>1, <3>1, <3>2 DEF Picture
  <2>2. CASE reply' # "OK"
        BY <1>1, <1>3, <2>2 DEF SessionInv, Picture
  <2>3. QED
        BY <2>1, <2>2
<1>7. QED
      BY <1>2, <1>3, <1>4, <1>5, <1>6 DEF SessionInv

\* The commands that read: GET, LIST, ID and STAT, and what the board does not
\* know.
LEMMA ReadsKeepInv ==
    ASSUME SessionInv,
           \/ FetchSchema \/ Ask \/ AskNonsense
           \/ \E key \in Key \cup {UnknownKey} : GetConfig(key)
    PROVE  SessionInv'
<1>1. /\ \E reason \in {"OK", "UNKNOWN_KEY"} : Sack(reason)
      /\ PumpAfter(lastHbRx) /\ last'.op \in {"read", "nonsense"}
      /\ clock' = clock /\ hbAt' = hbAt
      BY DEF FetchSchema, Ask, AskNonsense, GetConfig, Send, OnRead, OnUnknown, OnGet,
             Other
<1>2. /\ Lag' /\ hostMode' \in {"CONFIG", "RUN"}
      BY <1>1, PumpEffect
<1>3. StoreInv' /\ current' = current
      BY <1>1, SackKeepsStore DEF SessionInv, Reply, Store!Replies
<1>4. Picture /\ DOMAIN current = Key
      BY DEF SessionInv, StoreInv
<1>5. FetchSchema => schema' = schema
      BY <1>4, CatalogueParsed DEF FetchSchema, Picture
<1>6. ASSUME NEW key \in Key \cup {UnknownKey}, GetConfig(key)
      PROVE  schema' = schema
  <2>1. reply' = "OK" => key \in Key
        BY <1>6 DEF GetConfig, Send, OnGet, Sack
  <2>2. key \in Key => [schema EXCEPT ![key].cur = current[key]] = schema
    <3>1. SUFFICES ASSUME key \in Key
                   PROVE  [schema EXCEPT ![key].cur = current[key]] = schema
          OBVIOUS
    <3>2. schema[key] = CatalogLine(key, current[key])
          BY <1>4, <3>1 DEF Picture
    <3>3. [schema[key] EXCEPT !.cur = current[key]] = schema[key]
          BY <3>2, CurReplaced
    <3>4. QED
          BY <1>4, <3>1, <3>3 DEF Picture
  <2>3. QED
        BY <1>6, <2>1, <2>2 DEF GetConfig
<1>7. schema' = schema
      BY <1>4, <1>5, <1>6 DEF Picture, Ask, AskNonsense
<1>8. QED
      BY <1>1, <1>2, <1>3, <1>7, ReadStep

LEMMA PumpsKeepInv == ASSUME SessionInv, Pump \/ Heartbeat PROVE SessionInv'
<1>1. /\ Sack("OK") /\ clock' = clock /\ schema' = schema
      /\ \/ PumpAfter(lastHbRx) /\ hbAt' = hbAt
         \/ PumpAfter(now) /\ hbAt' = clock
      /\ last'.op \in {"pump", "heartbeat"}
      BY DEF Pump, Heartbeat, NoSack, Other
<1>2. /\ Lag' /\ hostMode' \in {"CONFIG", "RUN"}
      BY <1>1, PumpEffect
<1>3. StoreInv' /\ current' = current
      BY <1>1, SackKeepsStore DEF SessionInv, Reply, Store!Replies
<1>4. QED
      BY <1>1, <1>2, <1>3, ReadStep

LEMMA TimePassesKeepsInv == ASSUME SessionInv, TimePasses PROVE SessionInv'
<1>1. /\ Sack("OK") /\ schema' = schema /\ last'.op = "idle"
      /\ hostMode' = hostMode
      /\ clock' = clock + ClockStep /\ clock + ClockStep - now <= MaxIdle
      /\ deviceVars' = deviceVars /\ hbAt' = hbAt
      BY DEF TimePasses, NoSack, Other
<1>2. StoreInv' /\ current' = current
      BY <1>1, SackKeepsStore DEF SessionInv, Reply, Store!Replies
<1>3. Lag'
      BY <1>1, DeviceAssumption, IdleAssumption
      DEF SessionInv, Lag, DeviceTypeOK, deviceVars
<1>4. hostMode' \in {"CONFIG", "RUN"}
      BY <1>1 DEF SessionInv
<1>5. QED
      BY <1>1, <1>2, <1>3, <1>4, ReadStep

LEMMA InvStep == SessionInv /\ [Next]_vars => SessionInv'
<1> SUFFICES ASSUME SessionInv, [Next]_vars PROVE SessionInv'
    OBVIOUS
<1>1. CASE \E attempt \in Attempts : SetConfig(attempt[1], attempt[2])
  <2>1. PICK attempt \in Attempts : SetConfig(attempt[1], attempt[2])
        BY <1>1
  <2>2. attempt[1] \in Key \cup {UnknownKey} /\ attempt[2] \in Text
        BY AttemptAssumption
  <2>3. QED
        BY <2>1, <2>2, SetConfigKeepsInv
<1>2. CASE UNCHANGED vars
      BY <1>2
      DEF vars, boardVars, deviceVars, storeVars, SessionInv, StoreInv, Lag,
          DeviceTypeOK, Picture, WriteNeedsHeartbeat, HeartbeatAllowsWrite,
          ValidatorsAgree
<1>3. QED
      BY <1>1, <1>2, SetIncompleteKeepsInv, SaveKeepsInv, ResetKeepsInv, ReadsKeepInv,
         PumpsKeepInv, TimePassesKeepsInv DEF Next

LEMMA InvAlways == Spec => []SessionInv
<1>1. Init => SessionInv
      BY InvInit
<1>2. QED
      BY <1>1, InvStep, PTL DEF Spec

-----------------------------------------------------------------------------
(* The theorems *)

\* The variables keep their types: the settings are those of the catalogue, the
\* board's stamps lag behind its time, its time behind the host's clock
\* (LoopbackSession.TypeOK; device_sim.py, board_service.py).
THEOREM TypeCorrect == Spec => []TypeOK
<1>1. SessionInv => TypeOK
  <2> SUFFICES ASSUME SessionInv PROVE TypeOK
      OBVIOUS
  <2>1. DOMAIN schema = Key
        BY DEF SessionInv, Picture
  <2>2. QED
        BY <2>1 DEF SessionInv, StoreInv, Lag, Reply, TypeOK
<1>2. QED
      BY <1>1, InvAlways, PTL

\* A write the board judges comes at most HbTimeout + MaxIdle after a heartbeat,
\* whatever the host did in between: the board measures the age of the heartbeat
\* in its own time, which stands still while nobody pumps (_mode and tick of
\* device_sim.py).
THEOREM WriteNeedsHeartbeatHolds == Spec => []WriteNeedsHeartbeat
<1>1. SessionInv => WriteNeedsHeartbeat
      BY DEF SessionInv
<1>2. QED
      BY <1>1, InvAlways, PTL

\* A write the board refuses for its mode comes later than HbTimeout - MaxIdle
\* after the last heartbeat.
THEOREM HeartbeatAllowsWriteHolds == Spec => []HeartbeatAllowsWrite
<1>1. SessionInv => HeartbeatAllowsWrite
      BY DEF SessionInv
<1>2. QED
      BY <1>1, InvAlways, PTL

\* A host that is never idle for longer than the heartbeat timeout sees the board
\* in CONFIG right after its heartbeat.  (The run LoopbackIdle shows that it need
\* not after a longer pause: the tick of the pump brings the board's time
\* forward and the heartbeat is already too old.)
THEOREM HeartbeatOpensConfigHolds ==
    ASSUME MaxIdle <= HbTimeout
    PROVE  Spec => []HeartbeatOpensConfig
<1>1. Init => HeartbeatOpensConfig
      BY DEF Init, Other, HeartbeatOpensConfig
<1>2. SessionInv /\ HeartbeatOpensConfig /\ [Next]_vars => HeartbeatOpensConfig'
  <2> SUFFICES ASSUME SessionInv, HeartbeatOpensConfig, [Next]_vars,
                      last'.op = "heartbeat"
               PROVE  hostMode' = "CONFIG"
      BY DEF HeartbeatOpensConfig
  <2>1. CASE Heartbeat
    <3>1. /\ PumpAfter(now) /\ clock' = clock /\ hbAt' = clock
          BY <2>1 DEF Heartbeat
    <3>2. now' = clock /\ hostMode' = Mode'
          BY <3>1, PumpEffect
    <3>3. lastHbRx' = now
          BY <3>1 DEF PumpAfter, BoardTick, Tick
    <3>4. /\ now \in Nat /\ clock \in Nat /\ clock - now <= MaxIdle
          BY DEF SessionInv, Lag, DeviceTypeOK
    <3>5. clock - now <= HbTimeout /\ now # None
          BY <3>4, DeviceAssumption, IdleAssumption
    <3>6. QED
          BY <3>2, <3>3, <3>5 DEF Mode
  <2>2. CASE UNCHANGED vars
        BY <2>2 DEF vars, HeartbeatOpensConfig
  <2>3. CASE Pump \/ TimePasses
        BY <2>3 DEF Pump, TimePasses, Other
  <2>4. CASE \/ SetIncomplete \/ Save \/ Reset
             \/ \E attempt \in Attempts : SetConfig(attempt[1], attempt[2])
    <3>1. \E verdict : last' = Write(verdict)
          BY <2>4, Zenon DEF SetIncomplete, Save, Reset, SetConfig, Send
    <3>2. \A verdict : Write(verdict).op = "write"
          BY DEF Write
    <3>3. QED
          BY <3>1, <3>2
  <2>5. CASE \/ FetchSchema \/ Ask \/ AskNonsense
             \/ \E key \in Key \cup {UnknownKey} : GetConfig(key)
    <3>1. last'.op \in {"read", "nonsense"}
          BY <2>5 DEF FetchSchema, Ask, AskNonsense, GetConfig, Send, Other
    <3>2. QED
          BY <3>1
  <2>6. QED
        BY <2>1, <2>2, <2>3, <2>4, <2>5 DEF Next
<1>3. QED
      BY <1>1, <1>2, InvAlways, PTL DEF Spec

\* What the host keeps of the settings is what the board runs with, after every
\* sequence of acknowledged, refused and rolled-back writes, resets, reads and
\* fetches (BoardService.set_config, reset, get_config and fetch_schema against
\* ConfigStore).
THEOREM HostPictureTrueHolds == Spec => []HostPictureTrue
<1>1. SessionInv => HostPictureTrue
      BY DEF SessionInv, Picture, HostPictureTrue, CatalogLine
<1>2. QED
      BY <1>1, InvAlways, PTL

\* The validator the host builds from the catalogue and the board's own agree on
\* every text sent to every setting (ConfigSchema.validate against
\* ConfigStore._coerce and set).
THEOREM ValidatorsAgreeHolds == Spec => []ValidatorsAgree
<1>1. SessionInv => ValidatorsAgree
      BY DEF SessionInv
<1>2. QED
      BY <1>1, InvAlways, PTL
=============================================================================
