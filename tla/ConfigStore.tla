---------------------------- MODULE ConfigStore ----------------------------
(***************************************************************************)
(* The board's setting store (tools/simulator/config_store.py) and the     *)
(* file it is saved to: the order in which a write is validated, the check *)
(* that the whole configuration is one the ADC can serve, save, and the    *)
(* reload at boot, which trusts nothing it reads.                          *)
(*                                                                         *)
(* The process that owns the store may be killed at any point, also inside *)
(* save (write_text truncates the file before it writes), and while it is  *)
(* down anybody may edit the file.                                         *)
(***************************************************************************)
EXTENDS Integers

CONSTANTS
    Key,                \* the keys of the items
    UnknownKey,         \* a key no item has
    Text,               \* the texts a client sends as a value
    Default,            \* the default value of every key
    Interlocked,        \* keys whose change is refused with INTERLOCK
    ReadOnly,           \* keys whose change is refused with READONLY
    Accepts(_, _),      \* does _coerce(key, text) return a value?
    ValueOf(_, _),      \* ... and which
    ToRaw(_),           \* the text a value of the file is validated as
    RequiredSps(_),     \* what a configuration asks of the ADC
    AvailableSps(_),    \* what it gets, safety margin included
    FileContents,       \* the JSON objects somebody may leave in the file
    NoFile, Torn,       \* no file; a file that is not a JSON object
    Combination,        \* the mark "<combination>" among the rejected keys
    HasPath             \* was the store given a path?

VARIABLES
    up,          \* is the process that owns the store running?
    current,     \* [Key -> value]: item.current of every item
    dirty, loadFailed, rejected,
    reply,       \* how the last command ended: "OK" or the Reason
    file,        \* NoFile, Torn, or a function from keys to values
    saved,       \* history: the configuration last written completely
    edited       \* history: was the file edited since?

vars == <<up, current, dirty, loadFailed, rejected, reply, file, saved, edited>>

Locked == Interlocked \cup ReadOnly

\* The values an item can hold: what _coerce makes of some text.
ValuesOf(key) == {ValueOf(key, t) : t \in {u \in Text : Accepts(key, u)}}
Value == UNION {ValuesOf(key) : key \in Key}
Config == {c \in [Key -> Value] : \A key \in Key : c[key] \in ValuesOf(key)}

ASSUME KeyAssumption == UnknownKey \notin Key /\ Locked \subseteq Key
                        /\ HasPath \in BOOLEAN
ASSUME FileAssumption ==
    /\ Torn # NoFile
    /\ {NoFile, Torn} \cap (FileContents \cup Config) = {}
    /\ \A c \in FileContents : \A key \in Key \cap DOMAIN c : ToRaw(c[key]) \in Text
ASSUME DefaultAssumption == Default \in Config
ASSUME CapacityAssumption ==
    /\ \A c \in Config : RequiredSps(c) \in Int /\ AvailableSps(c) \in Int
    /\ RequiredSps(Default) <= AvailableSps(Default)
\* A value the store holds is read back from its own text.
ASSUME RoundTripAssumption ==
    \A key \in Key : \A v \in ValuesOf(key) :
        Accepts(key, ToRaw(v)) /\ ValueOf(key, ToRaw(v)) = v

-----------------------------------------------------------------------------
(* Validation of a write.  Here and below a definition marked as a mutant   *)
(* is a bug one could write in place of the definition after it; no other *)
(* definition uses it.                                                     *)

MarginSps(c) == RequiredSps(c) - AvailableSps(c)
CheckCapacity(c) == RequiredSps(c) <= AvailableSps(c)

\* The margin before the write: the one item is given its previous value back
\* for the length of the computation.
MarginOf(c, key, previous) == MarginSps([c EXCEPT ![key] = previous])

\* Mutant: the demand is compared and the supply, which adc.drate sets, is not.
ComparesDemandOnly(c, key, previous) ==
    RequiredSps(c) <= RequiredSps([c EXCEPT ![key] = previous]) \/ CheckCapacity(c)

\* A change that does not worsen the margin is not held to the capacity.  c is
\* the configuration with the write in it.
CheckCombination(c, key, previous) ==
    MarginSps(c) <= MarginOf(c, key, previous) \/ CheckCapacity(c)

\* What set says of a text before it writes anything.
Verdict(key, text) ==
    CASE key \notin Key                               -> "UNKNOWN_KEY"
      [] key \in Key /\ ~Accepts(key, text)           -> "RANGE"
      [] OTHER -> CASE ValueOf(key, text) = current[key] -> "OK"
                    [] OTHER -> IF key \in Interlocked THEN "INTERLOCK"
                                ELSE IF key \in ReadOnly THEN "READONLY" ELSE "OK"

-----------------------------------------------------------------------------
(* load *)

IsObject(f) == f \notin {NoFile, Torn}

\* Mutant: a locked key is restored like any other.
RestoresLocked(key, f) == key \in DOMAIN f /\ Accepts(key, ToRaw(f[key]))

Restored(key, f) == /\ key \in DOMAIN f
                    /\ key \notin Locked
                    /\ Accepts(key, ToRaw(f[key]))

ItemwiseLoad(f) ==
    [key \in Key |-> IF Restored(key, f) THEN ValueOf(key, ToRaw(f[key]))
                                         ELSE Default[key]]

\* Mutant: a key of no item is reported as rejected.
RejectsUnknownKeys(f) ==
    {key \in DOMAIN f :
        key \notin Key \/ key \in Locked \/ ~Accepts(key, ToRaw(f[key]))}

\* (Python's 1 == True is left out: no file here holds a number for a boolean.)
RejectedKeys(f) ==
    {key \in Key \cap DOMAIN f :
        IF key \in Locked THEN f[key] # Default[key]
                          ELSE ~Accepts(key, ToRaw(f[key]))}

\* Mutant: a file that does not parse counts as no file.
TornIsNoFile(f) == IsObject(f) => CheckCapacity(ItemwiseLoad(f))

LoadSucceeds(f) == f = NoFile \/ (IsObject(f) /\ CheckCapacity(ItemwiseLoad(f)))

LoadedConfig(f) ==
    IF IsObject(f) /\ LoadSucceeds(f) THEN ItemwiseLoad(f) ELSE Default

-----------------------------------------------------------------------------
(* The operations.  Boot is default_store() followed by load(). *)

Init == /\ up = FALSE
        /\ current = Default
        /\ dirty = FALSE /\ loadFailed = FALSE /\ rejected = {}
        /\ reply = "OK"
        /\ file = NoFile
        /\ saved = Default /\ edited = FALSE

Boot ==
    LET f == IF HasPath THEN file ELSE NoFile IN
    /\ ~up
    /\ up' = TRUE
    /\ current' = LoadedConfig(f)
    /\ loadFailed' = ~LoadSucceeds(f)
    /\ rejected' = IF ~IsObject(f) THEN {}
                   ELSE RejectedKeys(f) \cup
                        (IF LoadSucceeds(f) THEN {} ELSE {Combination})
    /\ dirty' = FALSE
    /\ UNCHANGED <<reply, file, saved, edited>>

\* Mutant: the value stays when the combination check refuses it.
KeepsWritten(c, key, previous) == c

RollBack(c, key, previous) == [c EXCEPT ![key] = previous]

\* The write itself: the item takes the value, then the whole configuration is
\* checked, and a refusal gives the item its previous value back.
TryWrite(key, value) ==
    LET previous == current[key]
        written  == [current EXCEPT ![key] = value]
    IN  IF CheckCombination(written, key, previous)
        THEN reply' = "OK" /\ current' = written /\ dirty' = TRUE
        ELSE /\ reply' = "CAPACITY"
             /\ current' = RollBack(written, key, previous)
             /\ UNCHANGED dirty

Set(key, text) ==
    LET verdict == Verdict(key, text)
        value   == ValueOf(key, text)
    IN  /\ up
        /\ IF verdict = "OK" /\ value # current[key]
           THEN TryWrite(key, value)
           ELSE reply' = verdict /\ UNCHANGED <<current, dirty>>
        /\ UNCHANGED <<up, loadFailed, rejected, file, saved, edited>>

\* Mutant: the reset is not marked as a change to save.
ResetNotDirty ==
    /\ up
    /\ current' = Default
    /\ reply' = "OK"
    /\ UNCHANGED <<up, dirty, loadFailed, rejected, file, saved, edited>>

Reset ==
    /\ up
    /\ current' = Default
    /\ dirty' = TRUE
    /\ reply' = "OK"
    /\ UNCHANGED <<up, loadFailed, rejected, file, saved, edited>>

WriteFile == file' = current /\ saved' = current /\ edited' = FALSE

Save ==
    /\ up
    /\ IF HasPath THEN WriteFile ELSE UNCHANGED <<file, saved, edited>>
    /\ dirty' = FALSE
    /\ reply' = "OK"
    /\ UNCHANGED <<up, current, loadFailed, rejected>>

\* The process ends and its memory with it.
Die == /\ up' = FALSE
       /\ current' = Default
       /\ dirty' = FALSE /\ loadFailed' = FALSE /\ rejected' = {}
       /\ reply' = "OK"

\* The process dies inside save: the file is untouched, truncated (any proper
\* prefix of a JSON object is not JSON) or complete.  An OSError of write_text
\* is no ConfigError: it leaves _on_cfg and ends the server loop the same way.
SaveInterrupted ==
    /\ up /\ HasPath
    /\ Die
    /\ \/ UNCHANGED <<file, saved, edited>>
       \/ file' = Torn /\ UNCHANGED <<saved, edited>>
       \/ WriteFile

Crash == up /\ Die /\ UNCHANGED <<file, saved, edited>>

\* After an edit there is no saved configuration to come back to.
EditFile(f) == /\ ~up
               /\ file' = f
               /\ saved' = Default /\ edited' = TRUE
               /\ UNCHANGED <<up, current, dirty, loadFailed, rejected, reply>>

Next == \/ Boot \/ Reset \/ Save \/ SaveInterrupted \/ Crash
        \/ \E key \in Key \cup {UnknownKey}, text \in Text : Set(key, text)
        \/ \E f \in FileContents \cup {NoFile, Torn} : EditFile(f)

Spec == Init /\ [][Next]_vars

-----------------------------------------------------------------------------
(* Properties *)

Replies == {"OK", "UNKNOWN_KEY", "RANGE", "INTERLOCK", "READONLY", "CAPACITY"}

\* The types of the variables.
TypeOK ==
    /\ up \in BOOLEAN /\ dirty \in BOOLEAN /\ loadFailed \in BOOLEAN
    /\ current \in Config /\ saved \in Config
    /\ rejected \subseteq Key \cup {Combination}
    /\ reply \in Replies
    /\ file \in {NoFile, Torn} \cup FileContents \cup Config
    /\ edited \in BOOLEAN

\* The board never runs with a configuration whose channels ask for more
\* samples than the ADC gives, whatever is written, saved, corrupted and
\* reloaded, and in whatever order the settings are changed.
Feasible == up => CheckCapacity(current)

\* A setting the policy locks (the 5 V rail the fan hangs on) keeps its
\* default through every write, save, edited file and boot.
InterlockHeld == up => \A key \in Locked : current[key] = Default[key]

\* A running store that is not dirty would boot into the very configuration
\* it runs with: nothing a client was told is saved is lost by a restart.
CleanMeansDurable ==
    up /\ ~dirty /\ HasPath => LoadedConfig(file) = current

\* A boot from a file nobody edited comes up with what was last saved, or with
\* the defaults and load_failed set: a save that was interrupted never loses
\* settings silently and never mixes an old and a new configuration.
RestoresOrFlags ==
    [][~up /\ up' /\ ~edited /\ HasPath =>
          current' = saved \/ (loadFailed' /\ current' = Default)]_vars

\* A write that is refused changes no setting and does not make the store
\* dirty: the value tried for the combination check is taken back, exactly.
RefusedLeavesNoTrace ==
    [][up /\ up' /\ reply' # "OK" => current' = current /\ dirty' = dirty]_vars
=============================================================================
