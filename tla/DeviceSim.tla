----------------------------- MODULE DeviceSim -----------------------------
(***************************************************************************)
(* The board's clock, mode and periodic output (tools/simulator/           *)
(* device_sim.py).  The board reads no clock: tick hands it the time, and  *)
(* what it does between two ticks happens at the time of the first.        *)
(*                                                                         *)
(* The handlers of the commands are in Board, with the settings they read  *)
(* and write.                                                              *)
(*                                                                         *)
(* A definition marked as a mutant is a bug one could write in place of    *)
(* the definition after it; no other definition uses it.                   *)
(***************************************************************************)
EXTENDS Integers

CONSTANTS
    HbTimeout,       \* HB_TIMEOUT_MS
    HbEmitPeriod,    \* HB_EMIT_PERIOD_MS
    None

ASSUME DeviceAssumption ==
    /\ HbTimeout \in Nat /\ HbEmitPeriod \in Nat
    /\ None \notin Int

VARIABLES
    now,          \* _now_ms
    lastHbRx,     \* _last_hb_rx_ms, or None
    lastHbTx, lastEmit,
    seq           \* _seq

deviceVars == <<now, lastHbRx, lastHbTx, lastEmit, seq>>

DeviceInit == /\ now = 0 /\ lastHbRx = None
              /\ lastHbTx = 0 /\ lastEmit = 0 /\ seq = 0

\* No stamp is ahead of the board's time.
DeviceTypeOK == /\ now \in Nat /\ seq \in Nat
                /\ lastHbRx \in (0..now) \cup {None}
                /\ lastHbTx \in 0..now /\ lastEmit \in 0..now

\* Mutant: a heartbeat is forgotten after the board's own period.
ModeOfEmitPeriod == IF lastHbRx # None /\ now - lastHbRx <= HbEmitPeriod
                    THEN "CONFIG" ELSE "RUN"

\* Mutant: one heartbeat is enough for ever.
ModeOnceConfig == IF lastHbRx # None THEN "CONFIG" ELSE "RUN"

Mode == IF lastHbRx # None /\ now - lastHbRx <= HbTimeout
        THEN "CONFIG" ELSE "RUN"

\* A heartbeat whose frame is whole.
OnHb == lastHbRx' = now /\ UNCHANGED <<now, lastHbTx, lastEmit, seq>>

\* Mutant: the verb is looked at before the checksum.
GarbledHbCounts == OnHb

\* A heartbeat whose checksum is wrong is refused before its verb is looked at.
OnGarbledHb == UNCHANGED deviceVars

\* SET, SAVE and RESET are refused with MODE unless the board is in CONFIG.
WriteAllowed == Mode = "CONFIG"

Due(last, interval, time) == time - last >= interval

\* Mutant: the outputs are stamped, the board's time is not advanced.
TickWithoutTime(time, hbRx, period, channels) ==
    /\ lastHbRx' = hbRx
    /\ lastHbTx' = IF Due(lastHbTx, HbEmitPeriod, time) THEN time ELSE lastHbTx
    /\ IF Due(lastEmit, period, time)
       THEN lastEmit' = time /\ seq' = seq + channels
       ELSE UNCHANGED <<lastEmit, seq>>
    /\ UNCHANGED now

\* tick, with the period of the telemetry and the number of enabled channels.
Tick(time, hbRx, period, channels) ==
    /\ now' = time
    /\ lastHbRx' = hbRx
    /\ lastHbTx' = IF Due(lastHbTx, HbEmitPeriod, time) THEN time ELSE lastHbTx
    /\ IF Due(lastEmit, period, time)
       THEN lastEmit' = time /\ seq' = seq + channels
       ELSE UNCHANGED <<lastEmit, seq>>
=============================================================================
