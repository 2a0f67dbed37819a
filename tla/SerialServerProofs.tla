------------------------- MODULE SerialServerProofs -------------------------
(***************************************************************************)
(* Theorems about the heartbeat window of the serial server, for every     *)
(* timeout, every period and every duration of an iteration.               *)
(***************************************************************************)
EXTENDS SerialServer, TLAPS

\* The board's time lags behind the clock by one iteration between two of
\* them, and by two inside one.
Lag ==
    /\ clock <= loopNow + MaxLoop
    /\ ~reading => now = loopNow
    /\ reading => loopNow <= now + MaxLoop

\* The board stamps a heartbeat with its own time.
Stamp ==
    /\ lastHbRx = None <=> hbAt = None
    /\ hbAt # None => /\ hbAt <= clock
                      /\ lastHbRx <= hbAt /\ hbAt <= lastHbRx + 2 * MaxLoop

ServerInv == TypeOK /\ Lag /\ Stamp /\ WriteNeedsHeartbeat /\ HeartbeatAllowsWrite

LEMMA InvInit == Init => ServerInv
<1> SUFFICES ASSUME Init PROVE ServerInv
    OBVIOUS
<1> USE DeviceAssumption, LoopAssumption DEF Init, DeviceInit
<1>1. TypeOK
  <2>1. write \in {None} \cup [allowed : BOOLEAN, age : Nat \cup {None}]
        BY Zenon
  <2>2. DeviceTypeOK
        BY DEF DeviceTypeOK
  <2>3. /\ clock \in Nat /\ loopNow \in 0..clock /\ now <= loopNow
        OBVIOUS
  <2>4. reading \in BOOLEAN /\ hbAt \in Nat \cup {None}
        BY Zenon
  <2>5. QED
        BY <2>1, <2>2, <2>3, <2>4, Zenon DEF TypeOK
<1>2. Lag /\ Stamp
      BY DEF Lag, Stamp
<1>3. WriteNeedsHeartbeat /\ HeartbeatAllowsWrite
      BY Zenon DEF WriteNeedsHeartbeat, HeartbeatAllowsWrite
<1>4. QED
      BY <1>1, <1>2, <1>3 DEF ServerInv

\* A tick brings the board's time up to the iteration's.
LEMMA TickKeepsInv ==
    ASSUME ServerInv, EndIteration PROVE ServerInv'
<1> USE DeviceAssumption, LoopAssumption
<1>1. /\ now' = loopNow /\ lastHbRx' = lastHbRx /\ reading' = FALSE
      /\ lastHbTx' \in {loopNow, lastHbTx} /\ lastEmit' \in {loopNow, lastEmit}
      /\ seq' \in {seq, seq + EnabledChannels}
      /\ UNCHANGED <<clock, loopNow, hbAt, write>>
      BY DEF EndIteration, Tick
<1>2. TypeOK'
  <2>1. DeviceTypeOK' /\ now' <= loopNow'
        BY <1>1 DEF ServerInv, TypeOK, DeviceTypeOK
  <2>2. QED
        BY <1>1, <2>1 DEF ServerInv, TypeOK
<1>3. Lag' /\ Stamp'
      BY <1>1 DEF ServerInv, Lag, Stamp
<1>4. WriteNeedsHeartbeat' /\ HeartbeatAllowsWrite'
  <2>1. write' = write
        BY <1>1
  <2>2. WriteNeedsHeartbeat /\ HeartbeatAllowsWrite
        BY DEF ServerInv
  <2>3. QED
        BY <2>1, <2>2, Zenon DEF WriteNeedsHeartbeat, HeartbeatAllowsWrite
<1>5. QED
      BY <1>2, <1>3, <1>4 DEF ServerInv

\* The write that a lagging board judges.
LEMMA WriteKeepsInv ==
    ASSUME ServerInv, FeedWrite PROVE ServerInv'
<1> USE DeviceAssumption, LoopAssumption DEF deviceVars
<1> DEFINE age == IF hbAt = None THEN None ELSE clock - hbAt
<1>1. /\ write' = [allowed |-> Mode = "CONFIG", age |-> age]
      /\ UNCHANGED <<now, lastHbRx, lastHbTx, lastEmit, seq,
                     clock, loopNow, reading, hbAt>>
      BY DEF FeedWrite, WriteAllowed
<1>2. age \in Nat \cup {None}
      BY DEF ServerInv, TypeOK, Stamp
<1>3. TypeOK'
      BY <1>1, <1>2 DEF ServerInv, TypeOK, DeviceTypeOK
<1>4. Lag' /\ Stamp'
      BY <1>1 DEF ServerInv, Lag, Stamp
<1>5. ASSUME Mode = "CONFIG"
      PROVE  age # None /\ age <= HbTimeout + 2 * MaxLoop
  <2>1. lastHbRx # None /\ now - lastHbRx <= HbTimeout
        BY <1>5 DEF Mode
  <2>2. QED
        BY <2>1 DEF ServerInv, TypeOK, DeviceTypeOK, Lag, Stamp
<1>6. ASSUME Mode # "CONFIG", age # None
      PROVE  age > HbTimeout - 2 * MaxLoop
  <2>1. lastHbRx # None /\ now - lastHbRx > HbTimeout
        BY <1>6 DEF Mode, ServerInv, Stamp, TypeOK, DeviceTypeOK
  <2>2. QED
        BY <1>6, <2>1 DEF ServerInv, TypeOK, DeviceTypeOK, Lag, Stamp
<1>7. WriteNeedsHeartbeat'
      BY <1>1, <1>5 DEF WriteNeedsHeartbeat
<1>8. HeartbeatAllowsWrite'
      BY <1>1, <1>6 DEF HeartbeatAllowsWrite
<1>9. QED
      BY <1>3, <1>4, <1>7, <1>8 DEF ServerInv

LEMMA InvStep == ServerInv /\ [Next]_vars => ServerInv'
<1> SUFFICES ASSUME ServerInv, [Next]_vars PROVE ServerInv'
    OBVIOUS
<1> USE DeviceAssumption, LoopAssumption
        DEF ServerInv, TypeOK, DeviceTypeOK, Lag, Stamp, deviceVars,
            WriteNeedsHeartbeat, HeartbeatAllowsWrite
<1>1. CASE TakeTime
      BY <1>1 DEF TakeTime
<1>2. CASE FeedHb
      BY <1>2 DEF FeedHb, OnHb
<1>3. CASE FeedGarbledHb
      BY <1>3 DEF FeedGarbledHb, OnGarbledHb
<1>4. CASE FeedWrite
      BY <1>4, WriteKeepsInv
<1>5. CASE EndIteration
      BY <1>5, TickKeepsInv
<1>6. CASE TimePasses
      BY <1>6 DEF TimePasses
<1>7. CASE UNCHANGED vars
      BY <1>7 DEF vars
<1>8. QED
      BY <1>1, <1>2, <1>3, <1>4, <1>5, <1>6, <1>7 DEF Next

LEMMA InvHolds == Spec => []ServerInv
BY InvInit, InvStep, PTL DEF Spec

\* The types hold, and no stamp of the board is ahead of its time.
THEOREM TypeCorrect == Spec => []TypeOK
<1>1. ServerInv => TypeOK
      BY DEF ServerInv
<1>2. QED
      BY <1>1, InvHolds, PTL

\* A setting is changed only within the timeout, and two iterations, of a
\* heartbeat that passed its checksum.
THEOREM WriteNeedsHeartbeatHolds == Spec => []WriteNeedsHeartbeat
<1>1. ServerInv => WriteNeedsHeartbeat
      BY DEF ServerInv
<1>2. QED
      BY <1>1, InvHolds, PTL

\* A write that follows a heartbeat by less than the timeout minus two
\* iterations is never refused for its mode.
THEOREM HeartbeatAllowsWriteHolds == Spec => []HeartbeatAllowsWrite
<1>1. ServerInv => HeartbeatAllowsWrite
      BY DEF ServerInv
<1>2. QED
      BY <1>1, InvHolds, PTL
=============================================================================
