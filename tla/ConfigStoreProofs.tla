------------------------- MODULE ConfigStoreProofs -------------------------
(***************************************************************************)
(* Theorems about the setting store, for every catalogue, every coercion   *)
(* that reads its own values back, and every contents of the file.         *)
(***************************************************************************)
EXTENDS StoreRefinement, TLAPS

\* A configuration is one that holds a value of its item under every key.
LEMMA ConfigExtension ==
    ASSUME NEW c \in Config, NEW key \in Key, NEW v \in ValuesOf(key)
    PROVE  [c EXCEPT ![key] = v] \in Config
<1>1. v \in Value
      BY DEF Value
<1>2. QED
      BY <1>1 DEF Config

\* How a write ends.  A refusal by the combination check gives the item back
\* what it held, and with that the whole configuration.
LEMMA SetEffect ==
    ASSUME TypeOK, NEW key \in Key \cup {UnknownKey}, NEW text \in Text,
           Set(key, text)
    PROVE  /\ reply' \in Replies
           /\ \/ /\ reply' = "OK" /\ dirty' = TRUE
                 /\ key \in Key \ Locked
                 /\ ValueOf(key, text) \in ValuesOf(key)
                 /\ current' = [current EXCEPT ![key] = ValueOf(key, text)]
                 /\ CheckCombination(current', key, current[key])
              \/ current' = current /\ dirty' = dirty
<1> DEFINE value == ValueOf(key, text)
           written == [current EXCEPT ![key] = value]
<1>1. CASE Verdict(key, text) = "OK" /\ value # current[key]
  <2>1. key \in Key \ Locked /\ value \in ValuesOf(key)
        BY <1>1 DEF Verdict, Locked, ValuesOf
  <2>2. TryWrite(key, value)
        BY <1>1 DEF Set
  <2>3. CASE CheckCombination(written, key, current[key])
        BY <2>1, <2>2, <2>3 DEF TryWrite, Replies
  <2>4. CASE ~CheckCombination(written, key, current[key])
    <3>1. /\ reply' = "CAPACITY" /\ dirty' = dirty
          /\ current' = [written EXCEPT ![key] = current[key]]
          BY <2>2, <2>4 DEF TryWrite, RollBack
    <3>2. [written EXCEPT ![key] = current[key]] = current
          BY DEF TypeOK, Config
    <3>3. QED
          BY <3>1, <3>2 DEF Replies
  <2>5. QED
        BY <2>3, <2>4
<1>2. CASE ~(Verdict(key, text) = "OK" /\ value # current[key])
      BY <1>2 DEF Set, Verdict, Replies
<1>3. QED
      BY <1>1, <1>2

\* load restores a configuration whatever the object in the file.
LEMMA LoadType ==
    ASSUME NEW f \in {NoFile, Torn} \cup FileContents \cup Config
    PROVE  LoadedConfig(f) \in Config
<1> USE DefaultAssumption
<1>1. CASE f \in FileContents \cup Config
  <2>1. ASSUME NEW key \in Key, Restored(key, f)
        PROVE  ValueOf(key, ToRaw(f[key])) \in ValuesOf(key)
    <3>1. CASE f \in FileContents
          BY <2>1, <3>1, FileAssumption DEF Restored, ValuesOf
    <3>2. CASE f \in Config
          BY <2>1, <3>2, RoundTripAssumption DEF Config
    <3>3. QED
          BY <1>1, <3>1, <3>2
  <2>2. ASSUME NEW key \in Key PROVE ItemwiseLoad(f)[key] \in ValuesOf(key)
        BY <2>1, <2>2 DEF ItemwiseLoad, Config
  <2>3. ItemwiseLoad(f) \in [Key -> Value]
        BY <2>2 DEF ItemwiseLoad, Value
  <2>4. ItemwiseLoad(f) \in Config
        BY <2>2, <2>3 DEF Config
  <2>5. QED
        BY <2>4 DEF LoadedConfig
<1>2. CASE f \in {NoFile, Torn}
      BY <1>2 DEF LoadedConfig, IsObject
<1>3. QED
      BY <1>1, <1>2

LEMMA TypeInit == Init => TypeOK
BY DefaultAssumption DEF Init, TypeOK, Replies

LEMMA TypeStep == TypeOK /\ [Next]_vars => TypeOK'
<1> SUFFICES ASSUME TypeOK, [Next]_vars PROVE TypeOK'
    OBVIOUS
<1> USE DefaultAssumption DEF TypeOK, Replies
<1>1. CASE Boot
  <2>1. LoadedConfig(IF HasPath THEN file ELSE NoFile) \in Config
        BY LoadType
  <2>2. RejectedKeys(IF HasPath THEN file ELSE NoFile) \subseteq Key
        BY DEF RejectedKeys
  <2>3. rejected' \subseteq Key \cup {Combination}
        BY <1>1, <2>2 DEF Boot
  <2>4. loadFailed' \in BOOLEAN
        BY <1>1 DEF Boot
  <2>5. QED
        BY <1>1, <2>1, <2>3, <2>4 DEF Boot
<1>2. CASE Reset
      BY <1>2 DEF Reset
<1>3. CASE Save
      BY <1>3 DEF Save, WriteFile
<1>4. CASE SaveInterrupted
      BY <1>4 DEF SaveInterrupted, Die, WriteFile
<1>5. CASE Crash
      BY <1>5 DEF Crash, Die
<1>6. CASE \E key \in Key \cup {UnknownKey}, text \in Text : Set(key, text)
  <2>1. PICK key \in Key \cup {UnknownKey}, text \in Text : Set(key, text)
        BY <1>6
  <2>2. reply' \in Replies /\ dirty' \in BOOLEAN
        BY <2>1, SetEffect
  <2>3. CASE current' = current
        BY <2>1, <2>2, <2>3 DEF Set
  <2>4. CASE /\ key \in Key /\ ValueOf(key, text) \in ValuesOf(key)
             /\ current' = [current EXCEPT ![key] = ValueOf(key, text)]
    <3>1. current' \in Config
          BY <2>4, ConfigExtension
    <3>2. QED
          BY <2>1, <2>2, <3>1 DEF Set
  <2>5. QED
        BY <2>1, <2>3, <2>4, SetEffect
<1>7. CASE \E f \in FileContents \cup {NoFile, Torn} : EditFile(f)
      BY <1>7 DEF EditFile
<1>8. CASE UNCHANGED vars
      BY <1>8 DEF vars
<1>9. QED
      BY <1>1, <1>2, <1>3, <1>4, <1>5, <1>6, <1>7, <1>8 DEF Next

\* The types of the variables.
THEOREM TypeCorrect == Spec => []TypeOK
BY TypeInit, TypeStep, PTL DEF Spec

-----------------------------------------------------------------------------
(* What a running store may rely on.  The three properties are inductive   *)
(* together: a saved configuration is read back unchanged because it is    *)
(* within the capacity and leaves the locked keys alone.                   *)

StoreInv == TypeOK /\ Feasible /\ InterlockHeld /\ CleanMeansDurable

LEMMA LoadFeasible ==
    ASSUME NEW f PROVE CheckCapacity(LoadedConfig(f))
BY CapacityAssumption, FileAssumption
DEF LoadedConfig, LoadSucceeds, IsObject, CheckCapacity

LEMMA LoadLocked ==
    ASSUME NEW f, NEW key \in Locked PROVE LoadedConfig(f)[key] = Default[key]
BY KeyAssumption DEF LoadedConfig, ItemwiseLoad, Restored

\* Saving and booting is the identity on configurations a store can hold.
LEMMA SaveBoot ==
    ASSUME NEW c \in Config, CheckCapacity(c),
           \A key \in Locked : c[key] = Default[key]
    PROVE  LoadedConfig(c) = c
<1>1. IsObject(c)
      BY FileAssumption DEF IsObject
<1>2. ASSUME NEW key \in Key PROVE ItemwiseLoad(c)[key] = c[key]
      BY <1>2, RoundTripAssumption DEF ItemwiseLoad, Restored, Config
<1>3. ItemwiseLoad(c) = c
      BY <1>2 DEF ItemwiseLoad, Config
<1>4. QED
      BY <1>1, <1>3 DEF LoadedConfig, LoadSucceeds

LEMMA SetKeepsInv ==
    ASSUME StoreInv, NEW key \in Key \cup {UnknownKey}, NEW text \in Text,
           Set(key, text)
    PROVE  (Feasible /\ InterlockHeld /\ CleanMeansDurable)'
<1> USE DEF StoreInv
<1>1. CASE UNCHANGED <<current, dirty>>
      BY <1>1
      DEF Set, Feasible, InterlockHeld, CleanMeansDurable
<1>2. CASE /\ dirty' = TRUE /\ key \in Key \ Locked
           /\ ValueOf(key, text) \in ValuesOf(key)
           /\ current' = [current EXCEPT ![key] = ValueOf(key, text)]
           /\ CheckCombination(current', key, current[key])
  <2> DEFINE written == [current EXCEPT ![key] = ValueOf(key, text)]
  <2>1. written \in Config /\ current \in Config
        BY <1>2, ConfigExtension DEF TypeOK
  <2>2. [written EXCEPT ![key] = current[key]] = current
        BY <1>2 DEF TypeOK, Config
  <2>3. CheckCapacity(current)
        BY DEF Feasible, Set
  <2> HIDE DEF written
  <2>4. CheckCapacity(written)
    <3>1. MarginOf(written, key, current[key]) = MarginSps(current)
          BY <2>2, Zenon DEF MarginOf
    <3>2. CheckCombination(written, key, current[key])
          BY <1>2, Zenon DEF written
    <3>3. MarginSps(written) <= MarginSps(current) \/ CheckCapacity(written)
          BY <3>1, <3>2 DEF CheckCombination
    <3>4. QED
          BY <2>1, <2>3, <3>3, CapacityAssumption DEF MarginSps, CheckCapacity
  <2>5. \A k \in Locked : current'[k] = Default[k]
        BY <1>2, KeyAssumption DEF InterlockHeld, Set, TypeOK, Config
  <2>6. (Feasible /\ InterlockHeld)'
        BY <1>2, <2>4, <2>5 DEF Feasible, InterlockHeld, CheckCapacity, written
  <2>7. QED
        BY <1>2, <2>6 DEF CleanMeansDurable
<1>3. QED
      BY <1>1, <1>2, SetEffect

LEMMA StoreInvInductive == (Init => StoreInv) /\ (StoreInv /\ [Next]_vars => StoreInv')
<1>1. Init => StoreInv
      BY TypeInit DEF Init, StoreInv, Feasible, InterlockHeld, CleanMeansDurable
<1>2. ASSUME StoreInv, [Next]_vars
      PROVE  (Feasible /\ InterlockHeld /\ CleanMeansDurable)'
  <2> USE <1>2 DEF StoreInv
  <2>1. CASE Boot
        BY <2>1, LoadFeasible, LoadLocked
        DEF Boot, Feasible, InterlockHeld, CleanMeansDurable
  <2>2. CASE Reset
        BY <2>2, CapacityAssumption
        DEF Reset, Feasible, InterlockHeld, CleanMeansDurable, CheckCapacity
  <2>3. CASE Save
    <3>1. LoadedConfig(current) = current
          BY <2>3, SaveBoot DEF Save, TypeOK, Feasible, InterlockHeld
    <3>2. QED
          BY <2>3, <3>1 DEF Save, WriteFile, Feasible, InterlockHeld, CleanMeansDurable
  <2>4. CASE SaveInterrupted \/ Crash \/ \E f \in FileContents \cup {NoFile, Torn} : EditFile(f)
        BY <2>4
        DEF SaveInterrupted, Crash, Die, EditFile, Feasible, InterlockHeld, CleanMeansDurable
  <2>5. CASE \E key \in Key \cup {UnknownKey}, text \in Text : Set(key, text)
        BY <2>5, SetKeepsInv
  <2>6. CASE UNCHANGED vars
        BY <2>6 DEF vars, Feasible, InterlockHeld, CleanMeansDurable
  <2>7. QED
        BY <2>1, <2>2, <2>3, <2>4, <2>5, <2>6 DEF Next
<1>3. QED
      BY <1>1, <1>2, TypeStep DEF StoreInv

\* The board never runs a configuration the ADC cannot serve.
THEOREM FeasibleHolds == Spec => []Feasible
BY StoreInvInductive, PTL DEF Spec, StoreInv

\* No write and no file changes a locked setting.
THEOREM InterlockHolds == Spec => []InterlockHeld
BY StoreInvInductive, PTL DEF Spec, StoreInv

\* A clean store is restored by a restart exactly as it was.
THEOREM CleanMeansDurableHolds == Spec => []CleanMeansDurable
BY StoreInvInductive, PTL DEF Spec, StoreInv

-----------------------------------------------------------------------------
(* What a boot finds.  The file nobody edited holds what was last saved, is *)
(* torn, or was never written.                                             *)

FileHistory ==
    /\ CheckCapacity(saved)
    /\ \A key \in Locked : saved[key] = Default[key]
    /\ HasPath /\ ~edited => \/ file = saved
                             \/ file = Torn
                             \/ file = NoFile /\ saved = Default

BootInv == StoreInv /\ FileHistory

LEMMA BootInvInductive == (Init => BootInv) /\ (BootInv /\ [Next]_vars => BootInv')
<1>1. Init => FileHistory
      BY CapacityAssumption DEF Init, FileHistory, CheckCapacity
<1>2. ASSUME BootInv, [Next]_vars PROVE FileHistory'
  <2> USE <1>2, CapacityAssumption DEF BootInv, FileHistory
  <2>1. CASE up /\ HasPath /\ WriteFile
        BY <2>1 DEF WriteFile, StoreInv, Feasible, InterlockHeld
  <2>2. CASE file' = Torn /\ UNCHANGED <<saved, edited>>
        BY <2>2
  <2>3. CASE saved' = Default /\ edited' = TRUE
        BY <2>3 DEF CheckCapacity
  <2>4. CASE UNCHANGED <<file, saved, edited>>
        BY <2>4
  <2>5. QED
        BY <2>1, <2>2, <2>3, <2>4
        DEF Next, vars, Boot, Reset, Save, SaveInterrupted, Crash, Set, EditFile
<1>3. QED
      BY <1>1, <1>2, StoreInvInductive DEF BootInv

LEMMA BootRestores ==
    ASSUME BootInv, [Next]_vars, ~up, up', ~edited, HasPath
    PROVE  current' = saved \/ (loadFailed' /\ current' = Default)
<1>1. Boot
      BY DEF Next, vars, Reset, Save, SaveInterrupted, Crash, Die, Set, EditFile
<1>2. CASE file = saved
  <2>1. LoadedConfig(saved) = saved
        BY SaveBoot DEF BootInv, FileHistory, StoreInv, TypeOK
  <2>2. QED
        BY <1>1, <1>2, <2>1 DEF Boot
<1>3. CASE file = Torn
      BY <1>1, <1>3, FileAssumption DEF Boot, LoadedConfig, LoadSucceeds, IsObject
<1>4. CASE file = NoFile /\ saved = Default
      BY <1>1, <1>4 DEF Boot, LoadedConfig, IsObject
<1>5. QED
      BY <1>2, <1>3, <1>4 DEF BootInv, FileHistory

\* A boot restores the last saved configuration or says it could not.
THEOREM RestoresOrFlagsHolds == Spec => RestoresOrFlags
<1>1. BootInv /\ [Next]_vars =>
          [~up /\ up' /\ ~edited /\ HasPath =>
              current' = saved \/ (loadFailed' /\ current' = Default)]_vars
      BY BootRestores
<1>2. QED
      BY <1>1, BootInvInductive, PTL DEF Spec, RestoresOrFlags
-----------------------------------------------------------------------------
(* A refusal *)

\* A refused write changes neither a setting nor the dirty flag.  Only Set gives
\* a running store a reply other than OK; where the combination check refuses,
\* the roll-back of the one item restores the configuration the write replaced
\* (except ConfigError in ConfigStore.set).
THEOREM RefusedLeavesNoTraceHolds == Spec => RefusedLeavesNoTrace
<1>1. ASSUME TypeOK, [Next]_vars, up, up', reply' # "OK"
      PROVE  [current' = current /\ dirty' = dirty]_vars
  <2>1. CASE \E key \in Key \cup {UnknownKey}, text \in Text : Set(key, text)
        BY <1>1, <2>1, SetEffect
  <2>2. CASE UNCHANGED vars
        BY <2>2
  <2>3. QED
        BY <1>1, <2>1, <2>2
        DEF Next, Boot, Reset, Save, SaveInterrupted, Crash, Die, EditFile
<1>2. TypeOK /\ [Next]_vars =>
          [up /\ up' /\ reply' # "OK" => current' = current /\ dirty' = dirty]_vars
      BY <1>1
<1>3. QED
      BY <1>2, TypeInit, TypeStep, PTL DEF Spec, RefusedLeavesNoTrace

-----------------------------------------------------------------------------
(* The store keeps the promise of DurableSettings.  Every step of it is a  *)
(* step of the promise or changes neither of the two configurations.       *)

LEMMA RunningLegal == StoreInv /\ up => current \in LegalConfig
BY DEF StoreInv, TypeOK, Feasible, InterlockHeld, LegalConfig

LEMMA StoredLegal == TypeOK => StoredConfig \in LegalConfig
<1>1. TypeOK => StoredConfig \in Config
      BY LoadType DEF TypeOK, StoredConfig
<1>2. QED
      BY <1>1, LoadFeasible, LoadLocked DEF StoredConfig, LegalConfig

\* What is written completely is what the next boot comes up with.
LEMMA WriteStores ==
    ASSUME StoreInv, up, HasPath, WriteFile PROVE StoredConfig' = current
<1>1. LoadedConfig(current) = current
      BY SaveBoot DEF StoreInv, TypeOK, Feasible, InterlockHeld
<1>2. QED
      BY <1>1 DEF WriteFile, StoredConfig

LEMMA SameFile ==
    ASSUME UNCHANGED file PROVE StoredConfig' = StoredConfig
BY DEF StoredConfig

LEMMA SetIsChange ==
    ASSUME StoreInv, StoreInv', NEW key \in Key \cup {UnknownKey}, NEW text \in Text,
           Set(key, text)
    PROVE  Durable!Change \/ UNCHANGED Durable!vars
<1>1. StoredConfig' = StoredConfig
      BY SameFile DEF Set
<1>2. CASE /\ key \in Key
           /\ current' = [current EXCEPT ![key] = ValueOf(key, text)]
  <2>1. \A other \in Key \ {key} : current'[other] = current[other]
        BY <1>2 DEF StoreInv, TypeOK, Config
  <2>2. current' \in LegalConfig
        BY RunningLegal DEF Set, StoreInv, TypeOK, Feasible, InterlockHeld, LegalConfig
  <2>3. QED
        BY <1>1, <1>2, <2>1, <2>2 DEF Set, Durable!Change
<1>3. CASE UNCHANGED current
      BY <1>1, <1>3 DEF Set, Durable!vars
<1>4. QED
      BY <1>2, <1>3, SetEffect DEF StoreInv

LEMMA DurableStep ==
    ASSUME StoreInv, StoreInv', [Next]_vars PROVE [Durable!Next]_(Durable!vars)
<1>1. CASE Boot
  <2>1. StoredConfig' = StoredConfig
        BY <1>1, SameFile DEF Boot
  <2>2. QED
        BY <1>1, <2>1 DEF Boot, StoredConfig, Durable!Next, Durable!Start
<1>2. CASE Reset
  <2>1. StoredConfig' = StoredConfig
        BY <1>2, SameFile DEF Reset
  <2>2. QED
        BY <1>2, <2>1 DEF Reset, Durable!Next, Durable!Reset
<1>3. CASE Save
  <2>1. CASE HasPath
        BY <1>3, <2>1, WriteStores DEF Save, Durable!Next, Durable!Save
  <2>2. CASE ~HasPath
        BY <1>3, <2>2, SameFile DEF Save, Durable!vars
  <2>3. QED
        BY <2>1, <2>2
<1>4. CASE SaveInterrupted
  <2>1. StoredConfig' \in {StoredConfig, current, Default}
    <3>1. CASE UNCHANGED file
          BY <3>1, SameFile
    <3>2. CASE file' = Torn
          BY <1>4, <3>2 DEF SaveInterrupted, StoredConfig, LoadedConfig, IsObject
    <3>3. CASE WriteFile
          BY <1>4, <3>3, WriteStores DEF SaveInterrupted
    <3>4. QED
          BY <1>4, <3>1, <3>2, <3>3 DEF SaveInterrupted
  <2>2. QED
        BY <1>4, <2>1 DEF SaveInterrupted, Die, Durable!Next, Durable!Stop
<1>5. CASE Crash
  <2>1. StoredConfig' = StoredConfig
        BY <1>5, SameFile DEF Crash
  <2>2. QED
        BY <1>5, <2>1 DEF Crash, Die, Durable!Next, Durable!Stop
<1>6. CASE \E key \in Key \cup {UnknownKey}, text \in Text : Set(key, text)
      BY <1>6, SetIsChange DEF Durable!Next
<1>7. CASE \E f \in FileContents \cup {NoFile, Torn} : EditFile(f)
  <2>1. TypeOK'
        BY DEF StoreInv
  <2>2. (StoredConfig \in LegalConfig)'
        BY <2>1, StoredLegal, PTL
  <2>3. QED
        BY <1>7, <2>2 DEF EditFile, Durable!Next, Durable!Edit
<1>8. CASE UNCHANGED vars
      BY <1>8, SameFile DEF vars, Durable!vars
<1>9. QED
      BY <1>1, <1>2, <1>3, <1>4, <1>5, <1>6, <1>7, <1>8 DEF Next

\* The store, its file, crashes and edits included, implements the pair of a
\* running and a stored configuration of DurableSettings.
THEOREM StoreImplementsDurableSettings == Spec => ImplementsDurableSettings
<1>1. Init => Durable!Init
      BY DEF Init, Durable!Init, StoredConfig, LoadedConfig, IsObject
<1>2. StoreInv /\ StoreInv' /\ [Next]_vars => [Durable!Next]_(Durable!vars)
      BY DurableStep
<1>3. QED
      BY <1>1, <1>2, StoreInvInductive, PTL DEF Spec, ImplementsDurableSettings
=============================================================================
