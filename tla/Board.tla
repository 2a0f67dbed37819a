------------------------------- MODULE Board -------------------------------
(***************************************************************************)
(* The whole board (tools/simulator/device_sim.py): the clock, mode and    *)
(* heartbeats of DeviceSim, the settings of ConfigStore, and the handlers  *)
(* of the commands, which decide by the one and change the other.          *)
(* reply is the reason the $SACK of this step's command gives, "OK" if it  *)
(* gives none or the step has no command.                                  *)
(***************************************************************************)
EXTENDS DeviceSim, ConfigSchema, FiniteSets

CONSTANTS Key, UnknownKey, Text   \* the settings; the texts a host sends

ASSUME BoardAssumption ==
    /\ Key \subseteq CatalogKey /\ UnknownKey \notin Key
    /\ Text \subseteq AnyText

VARIABLES up, current, dirty, loadFailed, rejected, reply, file, saved, edited

FactoryConfig == [key \in Key |-> ItemOf(key).default]

\* default_store() without a path: nothing is kept on disk.
Store == INSTANCE ConfigStore WITH
    Default <- FactoryConfig,
    Interlocked <- {key \in Key : ItemOf(key).interlocked},
    ReadOnly <- {key \in Key : ItemOf(key).readonly},
    Accepts <- ItemAccepts, ValueOf <- ItemValue, ToRaw <- RawText,
    RequiredSps <- RequiredRate, AvailableSps <- AvailableRate,
    FileContents <- {}, NoFile <- "none", Torn <- "torn",
    Combination <- "combination", HasPath <- FALSE

storeVars == <<up, current, dirty, loadFailed, rejected, reply, file, saved, edited>>
boardVars == <<deviceVars, storeVars>>

BoardInit == /\ DeviceInit
             /\ up = TRUE /\ current = FactoryConfig
             /\ dirty = FALSE /\ loadFailed = FALSE /\ rejected = {}
             /\ reply = "OK"
             /\ file = "none" /\ saved = FactoryConfig /\ edited = FALSE

-----------------------------------------------------------------------------
(* feed: the handlers.  None of them changes the clock, the stamps or the   *)
(* sequence number; OnHb of DeviceSim changes no setting.                   *)

\* An acknowledgement, and nothing else.
Sack(reason) ==
    /\ reply' = reason
    /\ UNCHANGED <<up, current, dirty, loadFailed, rejected, file, saved, edited>>

\* No command has come in, or a heartbeat, which is not acknowledged.
NoSack == Sack("OK")

\* SET, SAVE and RESET: the mode is looked at first.
ConfigOnly(Handler) == IF WriteAllowed THEN Handler ELSE Sack("MODE")

OnSet(key, text) == ConfigOnly(Store!Set(key, text))

\* SET with a key and no value, or with nothing.
OnSetIncomplete == ConfigOnly(Sack("RANGE"))

OnSave == ConfigOnly(Store!Save)

OnReset == ConfigOnly(Store!Reset)

OnGet(key) == Sack(IF key \in Key THEN "OK" ELSE "UNKNOWN_KEY")

\* LIST, ID and STAT: an answer before the acknowledgement.
OnRead == Sack("OK")

\* An unknown verb or subcommand, or CFG without one.
OnUnknown == Sack("UNKNOWN_KEY")

-----------------------------------------------------------------------------
(* tick *)

Enabled(config) == {ch \in Channel : config[Ain(ch, "enabled")].bool}

\* The period and the channels are those the commands before the tick left.
BoardTick(time, hbRx) ==
    Tick(time, hbRx, current'[Board("tx.period_ms")].int, Cardinality(Enabled(current')))
=============================================================================
