------------------------ MODULE TelemetryLinkProofs ------------------------
(***************************************************************************)
(* Theorems about the tracker and the link, for every size of the circle   *)
(* of numbers, every gap, tolerance and resync length.                     *)
(***************************************************************************)
EXTENDS TelemetryLink, TLAPS

\* Delta is the forward distance on the circle.
LEMMA DeltaOnCircle ==
    ASSUME NEW x \in Uint, NEW y \in Uint
    PROVE  (x - y) % SeqModulo = IF x >= y THEN x - y ELSE x - y + SeqModulo
BY SeqAssumption, Z3 DEF Uint

LEMMA DeltaType ==
    ASSUME NEW x \in Int PROVE x % SeqModulo \in Uint
BY SeqAssumption, Z3 DEF Uint

-----------------------------------------------------------------------------
(* Type correctness *)

LEMMA ObserveType ==
    ASSUME TrackerTypeOK, NEW seq \in Uint, Observe(seq)
    PROVE  TrackerTypeOK'
<1> USE SeqAssumption DEF TrackerTypeOK, Uint
<1>1. CASE First(seq)
      BY <1>1 DEF First
<1>2. CASE Duplicate(seq)
      BY <1>2 DEF Duplicate, trackerVars
<1>3. CASE Backward(seq)
  <2>1. RunWith(seq) \in Nat \ {0}
        BY DEF RunWith
  <2>2. QED
        BY <1>3, <2>1 DEF Backward
<1>4. CASE Forward(seq)
  <2>1. last \in Int
        BY <1>4 DEF Forward
  <2>2. Delta(seq) \in Uint
        BY <2>1, DeltaType DEF Delta
  <2>3. Missing(seq) \in Nat
        BY <1>4, <2>2 DEF Forward, Missing
  <2>4. QED
        BY <1>4, <2>3 DEF Forward
<1>5. QED
      BY <1>1, <1>2, <1>3, <1>4 DEF Observe

LEMMA IngestType ==
    ASSUME TypeOK, NEW type, NEW seq \in Nat, Ingest(type, seq)
    PROVE  TrackerTypeOK' /\ corruptTotal' \in Nat
<1>1. CASE seq \in Uint /\ IsTelemetry(type)
      BY <1>1, ObserveType DEF TypeOK, Ingest
<1>2. CASE ~(seq \in Uint /\ IsTelemetry(type))
      BY <1>2 DEF TypeOK, Ingest, TrackerTypeOK, trackerVars
<1>3. QED
      BY <1>1, <1>2

\* What the board sends by itself is telemetry; what it replies is not, and
\* leaves the tracker alone.
LEMMA AinIsTelemetry == IsTelemetry("ain")
BY DEF IsTelemetry, CommandResponseTypes

LEMMA ReplyChangesNothing == Reply => UNCHANGED vars
BY SeqAssumption DEF Reply, Ingest, IsTelemetry, Uint, vars, linkVars

LEMMA NextSeqType == TypeOK => NextSeq \in Nat
BY DeltaType, SeqAssumption DEF TypeOK, NextSeq, Uint

LEMMA TypeInit == Init => TypeOK
BY SeqAssumption, LinkAssumption
DEF Init, TrackerInit, TypeOK, TrackerTypeOK, Uint

LEMMA TypeStep == TypeOK /\ [Next]_vars => TypeOK'
<1> SUFFICES ASSUME TypeOK, [Next]_vars PROVE TypeOK'
    OBVIOUS
<1> USE SeqAssumption, LinkAssumption
<1>1. CASE Deliver
      BY <1>1, IngestType, NextSeqType DEF Deliver, Emit, TypeOK, CapFresh
<1>2. CASE Lose
  <2>1. TrackerTypeOK'
        BY <1>2 DEF Lose, TypeOK, TrackerTypeOK, trackerVars
  <2>2. QED
        BY <1>2, <2>1, NextSeqType DEF Lose, Emit, TypeOK
<1>3. CASE Redeliver
      BY <1>3, IngestType DEF Redeliver, TypeOK
<1>4. CASE Reboot
  <2>1. TrackerTypeOK'
        BY <1>4 DEF Reboot, TypeOK, TrackerTypeOK, trackerVars
  <2>2. QED
        BY <1>4, <2>1 DEF Reboot, TypeOK
<1>5. CASE Reconnect
      BY <1>5 DEF Reconnect, ResetTracker, linkVars, TypeOK, TrackerTypeOK
<1>6. CASE UNCHANGED vars
      BY <1>6 DEF vars, linkVars, trackerVars, TypeOK, TrackerTypeOK
<1>7. QED
      BY <1>1, <1>2, <1>3, <1>4, <1>5, <1>6, ReplyChangesNothing DEF Next

\* The types of the variables hold whatever the link and the board do.
THEOREM TypeCorrect == Spec => []TypeOK
BY TypeInit, TypeStep, PTL DEF Spec

-----------------------------------------------------------------------------
(* What the tracker reports when the board counts from 1 after each boot.  *)
(*                                                                         *)
(* The bound on the counter is needed: a board that reboots less than      *)
(* MaxPlausibleGap numbers before the wrap is indistinguishable from one   *)
(* that wraps and loses records.  So is the bound on a burst: numbers more *)
(* than WrapTolerance apart have no order.                                 *)

CountsUp == /\ ~Wraps
            /\ MaxSeq + MaxPlausibleGap < SeqModulo
            /\ MaxBurst < WrapTolerance

Number == 1..MaxSeq

\* Where the tracker and the board are relative to each other.
Positions ==
    /\ boardSeq \in 0..MaxSeq
    /\ last \in Number \cup {None}
    /\ delivered \in Number \cup {None}
    /\ delivered = None => last = None
    /\ burst <= MaxBurst
    \* The board is ahead of a record by no more than was just lost.
    /\ delivered # None => boardSeq - delivered <= burst
    /\ last # None => delivered <= last /\ boardSeq - last <= burst
    /\ fresh > 0 => delivered # None /\ delivered <= boardSeq

\* The losses the tracker can still report are among those not yet reported,
\* counted from its last record or, after a reconnect, from the latest one.
Accounting ==
    /\ missingTotal <= lost
    /\ last # None => missingTotal + (boardSeq - last) <= lost
    /\ delivered # None => missingTotal + (boardSeq - delivered) <= lost

\* A tracker that has not caught up has seen every fresh record go backwards.
CatchingUp ==
    last \notin {delivered, None} => backwardRun >= fresh /\ restartFrom = delivered

\* There is a restart to report whenever the tracker is ahead of the board.
Restarts ==
    /\ resyncCount <= reboots
    /\ last # None /\ (boardSeq < last \/ delivered < last) => resyncCount < reboots

LinkInv == TypeOK /\ Positions /\ Accounting /\ CatchingUp /\ Restarts

\* What observing a record does to the tracker, by where the record is.
Behind(seq) == last # None /\ (seq < last \/ seq - last > WrapTolerance)

Follows(seq) ==
    /\ last' = seq /\ UNCHANGED resyncCount
    /\ \/ UNCHANGED missingTotal
       \/ /\ last # None /\ last < seq /\ seq - last <= WrapTolerance
          /\ missingTotal' = missingTotal + (seq - last - 1)

Resyncs(seq) ==
    /\ Behind(seq) /\ RunWith(seq) >= ResyncAfter
    /\ last' = seq /\ resyncCount' = resyncCount + 1
    /\ UNCHANGED missingTotal

Waits(seq) ==
    /\ Behind(seq)
    /\ backwardRun' = RunWith(seq) /\ restartFrom' = seq
    /\ UNCHANGED <<last, missingTotal, resyncCount>>

LEMMA ObserveEffect ==
    ASSUME CountsUp, TypeOK, NEW seq \in Number, last \in Number \cup {None},
           Observe(seq)
    PROVE  Follows(seq) \/ Resyncs(seq) \/ Waits(seq)
<1> USE SeqAssumption, LinkAssumption DEF CountsUp, Number, TypeOK, TrackerTypeOK
<1>1. CASE First(seq)
      BY <1>1 DEF First, Follows
<1>2. CASE last # None
  <2>1. Delta(seq) = IF seq >= last THEN seq - last ELSE seq - last + SeqModulo
        BY <1>2, DeltaOnCircle DEF Delta, Uint
  <2>2. CASE Duplicate(seq)
        BY <1>2, <2>1, <2>2 DEF Duplicate, trackerVars, Uint, Follows
  <2>3. CASE Backward(seq)
    <3>1. Behind(seq)
          BY <1>2, <2>1, <2>3 DEF Backward, Uint, Behind
    <3>2. QED
          BY <2>3, <3>1 DEF Backward, Resyncs, Waits
  <2>4. CASE Forward(seq)
        BY <1>2, <2>1, <2>4 DEF Forward, Missing, Uint, Follows
  <2>5. QED
        BY <1>2, <2>2, <2>3, <2>4 DEF Observe, First
<1>3. QED
      BY <1>1, <1>2 DEF Observe, Duplicate, Backward, Forward

LEMMA IngestObserves ==
    ASSUME CountsUp, NEW seq \in Number, Ingest("ain", seq)
    PROVE  Observe(seq) /\ UNCHANGED corruptTotal
BY AinIsTelemetry, SeqAssumption, LinkAssumption DEF CountsUp, Number, Ingest, Uint

\* A record that is delivered is the first the board did not yet send.
LEMMA DeliverKeepsInv ==
    ASSUME CountsUp, LinkInv, Deliver
    PROVE  (Positions /\ Accounting /\ CatchingUp /\ Restarts)'
<1> USE SeqAssumption, LinkAssumption DEF Number
<1>1. NextSeq = boardSeq + 1 /\ boardSeq' = NextSeq /\ NextSeq \in Number
      BY DEF Deliver, Emit, NextSeq, CountsUp, LinkInv, Positions
<1>2. /\ delivered' = NextSeq /\ burst' = 0 /\ UNCHANGED <<lost, reboots>>
      /\ fresh' = CapFresh(fresh + 1)
      BY DEF Deliver
<1>3. Follows(NextSeq) \/ Resyncs(NextSeq) \/ Waits(NextSeq)
      BY <1>1, IngestObserves, ObserveEffect DEF Deliver, LinkInv, Positions
<1>4. last # None => NextSeq - last <= WrapTolerance
      BY <1>1 DEF CountsUp, LinkInv, Positions, TypeOK, TrackerTypeOK
<1>5. Positions'
      BY <1>1, <1>2, <1>3, <1>4
      DEF LinkInv, Positions, Follows, Resyncs, Waits, Behind,
          TypeOK, TrackerTypeOK, CapFresh
<1>6. Accounting'
      BY <1>1, <1>2, <1>3, <1>4
      DEF LinkInv, Positions, Accounting, Follows, Resyncs, Waits, Behind,
          TypeOK, TrackerTypeOK
<1>7. Restarts'
      BY <1>1, <1>2, <1>3, <1>4
      DEF LinkInv, Positions, Restarts, Follows, Resyncs, Waits, Behind,
          TypeOK, TrackerTypeOK
<1>8. CatchingUp'
  <2>1. CASE last' = NextSeq
        BY <2>1, <1>2 DEF CatchingUp
  <2>2. CASE Waits(NextSeq)
    <3>1. last # None /\ last' = last /\ NextSeq < last
          BY <2>2, <1>1, <1>4
          DEF Waits, Behind, LinkInv, Positions, TypeOK, TrackerTypeOK
    <3>2. restartFrom' = NextSeq /\ backwardRun' = RunWith(NextSeq)
          BY <2>2 DEF Waits
    <3>3. fresh \in Nat /\ fresh' \in Nat /\ fresh' <= fresh + 1
          BY <1>2 DEF CapFresh, LinkInv, TypeOK
    <3>4. RunWith(NextSeq) \in Nat /\ RunWith(NextSeq) >= 1
          BY DEF RunWith, LinkInv, TypeOK, TrackerTypeOK
    <3>5. ASSUME fresh > 0 PROVE backwardRun' >= fresh + 1
      <4>1. backwardRun >= fresh /\ restartFrom = delivered
            BY <3>1, <3>5, <1>1
            DEF LinkInv, CatchingUp, Positions, TypeOK, TrackerTypeOK
      <4>2. restartFrom < NextSeq
            BY <3>5, <4>1, <1>1 DEF LinkInv, Positions
      <4>3. QED
            BY <3>2, <4>1, <4>2 DEF RunWith, LinkInv, TypeOK, TrackerTypeOK
    <3>6. fresh' <= backwardRun'
          BY <3>2, <3>3, <3>4, <3>5
    <3>7. QED
          BY <3>2, <3>6, <1>2, <3>3, <3>4 DEF CatchingUp
  <2>3. QED
        BY <2>1, <2>2, <1>3 DEF Follows, Resyncs
<1>9. QED
      BY <1>5, <1>6, <1>7, <1>8

\* A repetition never prolongs a run of backward records: no restart from it.
LEMMA RedeliverKeepsInv ==
    ASSUME CountsUp, LinkInv, Redeliver
    PROVE  (Positions /\ Accounting /\ CatchingUp /\ Restarts)'
<1>1. delivered \in Number /\ delivered # None
      BY DEF Redeliver, LinkInv, Positions
<1>2. /\ UNCHANGED <<boardSeq, lost, burst, delivered, reboots>>
      /\ fresh' = IF fresh = 0 THEN 0 ELSE 1
      BY DEF Redeliver
<1>3. Follows(delivered) \/ Resyncs(delivered) \/ Waits(delivered)
      BY <1>1, IngestObserves, ObserveEffect DEF Redeliver, LinkInv, Positions
<1>4. ASSUME Behind(delivered) PROVE RunWith(delivered) = 1
  <2>1. last \notin {delivered, None}
        BY <1>1, <1>4, SeqAssumption
        DEF Behind, LinkInv, Positions, Number, TypeOK, TrackerTypeOK
  <2>2. QED
        BY <1>1, <2>1, SeqAssumption DEF LinkInv, CatchingUp, RunWith, Number
<1>5. Follows(delivered) \/ Waits(delivered)
      BY <1>3, <1>4, SeqAssumption DEF Resyncs
<1>6. Positions'
      BY <1>1, <1>2, <1>5, SeqAssumption
      DEF LinkInv, Positions, Follows, Waits, Number, TypeOK, TrackerTypeOK
<1>7. Accounting'
      BY <1>1, <1>2, <1>5, SeqAssumption, LinkAssumption
      DEF LinkInv, Positions, Accounting, Follows, Waits, Number,
          TypeOK, TrackerTypeOK
<1>8. CatchingUp'
      BY <1>1, <1>2, <1>4, <1>5
      DEF LinkInv, CatchingUp, Follows, Waits, TypeOK, TrackerTypeOK
<1>9. Restarts'
      BY <1>1, <1>2, <1>5, SeqAssumption
      DEF LinkInv, Positions, Restarts, Follows, Waits, Number,
          TypeOK, TrackerTypeOK
<1>10. QED
      BY <1>6, <1>7, <1>8, <1>9

LEMMA LinkInvInductive ==
    CountsUp => (Init => LinkInv) /\ (LinkInv /\ [Next]_vars => LinkInv')
<1> SUFFICES ASSUME CountsUp
             PROVE  (Init => LinkInv) /\ (LinkInv /\ [Next]_vars => LinkInv')
    OBVIOUS
<1>1. Init => Positions /\ Accounting /\ CatchingUp /\ Restarts
      BY SeqAssumption, LinkAssumption
      DEF Init, TrackerInit, Positions, Accounting, CatchingUp, Restarts
<1>2. ASSUME LinkInv, [Next]_vars
      PROVE  (Positions /\ Accounting /\ CatchingUp /\ Restarts)'
  <2> USE <1>2
  <2>1. CASE Deliver
        BY <2>1, DeliverKeepsInv
  <2>2. CASE Lose
    <3>1. /\ UNCHANGED <<trackerVars, delivered, fresh, reboots>>
          /\ boardSeq' = boardSeq + 1 /\ boardSeq' \in 0..MaxSeq
          /\ burst' <= MaxBurst
          /\ IF delivered = None THEN UNCHANGED <<lost, burst>>
             ELSE lost' = lost + 1 /\ burst' = burst + 1
          BY <2>2, LinkAssumption
          DEF Lose, Emit, NextSeq, CountsUp, LinkInv, Positions, TypeOK
    <3>2. QED
          BY <3>1, SeqAssumption, LinkAssumption
          DEF trackerVars, LinkInv, Positions, Accounting, CatchingUp, Restarts,
              Number, TypeOK, TrackerTypeOK
  <2>3. CASE Redeliver
        BY <2>3, RedeliverKeepsInv
  <2>4. CASE Reboot
        BY <2>4, LinkAssumption
        DEF Reboot, trackerVars, LinkInv, Positions, Accounting, CatchingUp,
            Restarts, Number, TypeOK, TrackerTypeOK
  <2>5. CASE Reconnect
        BY <2>5
        DEF Reconnect, ResetTracker, linkVars, LinkInv, Positions, Accounting,
            CatchingUp, Restarts, TypeOK, TrackerTypeOK
  <2>6. CASE UNCHANGED vars
        BY <2>6
        DEF vars, linkVars, trackerVars, LinkInv, Positions, Accounting,
            CatchingUp, Restarts
  <2>7. QED
        BY <2>1, <2>2, <2>3, <2>4, <2>5, <2>6, ReplyChangesNothing DEF Next
<1>3. QED
      BY <1>1, <1>2, TypeInit, TypeStep DEF LinkInv

\* The tracker never reports more missing records than were lost, whatever is
\* lost and repeated, however often the board reboots and whatever it replies.
THEOREM NeverOvercountsHolds == ASSUME CountsUp PROVE Spec => []NeverOvercounts
<1>1. LinkInv => NeverOvercounts
      BY DEF LinkInv, Accounting, NeverOvercounts
<1>2. QED
      BY <1>1, LinkInvInductive, PTL DEF Spec

\* ResyncAfter fresh records in a row always bring the tracker back.
THEOREM BackInSyncHolds == ASSUME CountsUp PROVE Spec => []BackInSync
<1>1. LinkInv => BackInSync
      BY SeqAssumption
      DEF LinkInv, CatchingUp, BackInSync, TypeOK, TrackerTypeOK
<1>2. QED
      BY <1>1, LinkInvInductive, PTL DEF Spec

\* Every restart the tracker reports is a reboot of the board.
THEOREM RestartsAreRealHolds == ASSUME CountsUp PROVE Spec => []RestartsAreReal
<1>1. LinkInv => RestartsAreReal
      BY DEF LinkInv, Restarts, RestartsAreReal
<1>2. QED
      BY <1>1, LinkInvInductive, PTL DEF Spec

-----------------------------------------------------------------------------
(* What the tracker reports while nothing starts over, across the wrap.    *)
(*                                                                         *)
(* The bound on a burst is needed: a longer one is a discontinuity, which  *)
(* the tracker counts as such and not as missing records.                  *)

Continuous == /\ MaxReboots = 0 /\ ~Reconnects
              /\ MaxBurst <= MaxPlausibleGap
              /\ Wraps \/ MaxSeq < SeqModulo

\* The tracker is at the latest record, and the board ahead of it on the circle
\* by the records lost since.
InStep ==
    /\ boardSeq \in Uint
    /\ ~Wraps => boardSeq <= MaxSeq
    /\ last = delivered
    /\ burst <= MaxBurst
    /\ last = None => missingTotal = 0 /\ lost = 0
    /\ last # None =>
          boardSeq = IF last + burst < SeqModulo THEN last + burst
                                                 ELSE last + burst - SeqModulo

ExactInv == TypeOK /\ InStep /\ ExactAccounting

LEMMA NextOnCircle ==
    ASSUME Continuous, ExactInv, Emit
    PROVE  /\ NextSeq \in Uint
           /\ ~Wraps => NextSeq <= MaxSeq
           /\ NextSeq = IF boardSeq + 1 = SeqModulo THEN 0 ELSE boardSeq + 1
<1> USE SeqAssumption, LinkAssumption DEF Uint
<1>1. boardSeq \in Uint
      BY DEF ExactInv, InStep
<1>2. CASE Wraps
  <2>1. (boardSeq + 1) % SeqModulo
            = IF boardSeq + 1 = SeqModulo THEN 0 ELSE boardSeq + 1
        BY <1>1, Z3
  <2>2. QED
        BY <1>1, <1>2, <2>1 DEF NextSeq
<1>3. CASE ~Wraps
      BY <1>1, <1>3 DEF Continuous, Emit, NextSeq
<1>4. QED
      BY <1>2, <1>3

\* The next record is one more ahead of the tracker than were just lost: it
\* moves the tracker forward by a plausible gap.
LEMMA DeliverReportsBurst ==
    ASSUME Continuous, ExactInv, Deliver
    PROVE  /\ last' = NextSeq
           /\ last # None => missingTotal' = missingTotal + burst
<1> USE SeqAssumption, LinkAssumption DEF ExactInv
<1>1. NextSeq \in Uint
      BY NextOnCircle DEF Deliver
<1>2. Observe(NextSeq)
      BY <1>1, AinIsTelemetry DEF Deliver, Ingest
<1>3. CASE last = None
      BY <1>2, <1>3 DEF Observe, First, Duplicate, Backward, Forward
<1>4. CASE last # None
  <2>1. last \in Uint
        BY <1>4 DEF TypeOK, TrackerTypeOK
  <2>2. Delta(NextSeq) = IF NextSeq >= last THEN NextSeq - last
                                            ELSE NextSeq - last + SeqModulo
        BY <1>1, <2>1, DeltaOnCircle DEF Delta
  <2>3. Delta(NextSeq) = burst + 1
        BY <1>1, <1>4, <2>1, <2>2, NextOnCircle
        DEF Deliver, Continuous, InStep, TypeOK, Uint
  <2>4. Forward(NextSeq)
        BY <1>2, <1>4, <2>3
        DEF Observe, First, Duplicate, Backward, Continuous, InStep, TypeOK
  <2>5. Missing(NextSeq) = burst /\ burst <= MaxPlausibleGap
        BY <2>3 DEF Missing, Continuous, InStep, TypeOK
  <2>6. QED
        BY <1>4, <2>4, <2>5 DEF Forward, Continuous, TypeOK
<1>5. QED
      BY <1>3, <1>4

LEMMA ExactInvInductive ==
    Continuous => (Init => ExactInv) /\ (ExactInv /\ [Next]_vars => ExactInv')
<1> SUFFICES ASSUME Continuous
             PROVE  (Init => ExactInv) /\ (ExactInv /\ [Next]_vars => ExactInv')
    OBVIOUS
<1> USE SeqAssumption, LinkAssumption
<1>1. Init => InStep /\ ExactAccounting
      BY DEF Init, TrackerInit, InStep, ExactAccounting, Uint
<1>2. ASSUME ExactInv, [Next]_vars
      PROVE  InStep' /\ ExactAccounting'
  <2> USE <1>2
  <2>1. CASE Deliver
    <3>1. /\ boardSeq' = NextSeq /\ last' = NextSeq
          /\ delivered' = NextSeq /\ burst' = 0 /\ UNCHANGED lost
          BY <2>1, DeliverReportsBurst DEF Deliver, Emit
    <3>2. NextSeq \in Uint /\ (~Wraps => NextSeq <= MaxSeq)
          BY <2>1, NextOnCircle DEF Deliver
    <3>3. InStep'
          BY <3>1, <3>2 DEF InStep, Uint
    <3>4. last = None => missingTotal' = missingTotal
          BY <2>1, <3>2, AinIsTelemetry
          DEF Deliver, Ingest, Observe, First, Duplicate, Backward, Forward
    <3>5. last # None => missingTotal' = missingTotal + burst
          BY <2>1, DeliverReportsBurst
    <3>6. ExactAccounting'
          BY <3>1, <3>4, <3>5
          DEF ExactInv, InStep, ExactAccounting, TypeOK, TrackerTypeOK
    <3>7. QED
          BY <3>3, <3>6
  <2>2. CASE Lose
    <3>1. /\ UNCHANGED <<trackerVars, delivered>>
          /\ boardSeq' = NextSeq /\ burst' <= MaxBurst
          /\ IF delivered = None THEN UNCHANGED <<lost, burst>>
             ELSE lost' = lost + 1 /\ burst' = burst + 1
          BY <2>2 DEF Lose, Emit, ExactInv, InStep, TypeOK
    <3>2. QED
          BY <2>2, <3>1, NextOnCircle
          DEF Lose, trackerVars, ExactInv, InStep, ExactAccounting, Continuous,
              Uint, TypeOK, TrackerTypeOK
  <2>3. CASE Redeliver
    <3>1. last = delivered /\ delivered \in Uint /\ last # None
          BY <2>3 DEF Redeliver, ExactInv, InStep, TypeOK, TrackerTypeOK
    <3>2. Delta(delivered) = 0
          BY <3>1, DeltaOnCircle DEF Delta, Uint
    <3>3. UNCHANGED trackerVars
          BY <2>3, <3>1, <3>2, AinIsTelemetry
          DEF Redeliver, Ingest, Observe, First, Duplicate, Backward, Forward
    <3>4. QED
          BY <2>3, <3>3
          DEF Redeliver, trackerVars, ExactInv, InStep, ExactAccounting
  <2>4. CASE Reboot
        BY <2>4 DEF Reboot, Continuous, ExactInv, TypeOK
  <2>5. CASE Reconnect
        BY <2>5 DEF Reconnect, Continuous
  <2>6. CASE UNCHANGED vars
        BY <2>6 DEF vars, linkVars, trackerVars, ExactInv, InStep, ExactAccounting
  <2>7. QED
        BY <2>1, <2>2, <2>3, <2>4, <2>5, <2>6, ReplyChangesNothing DEF Next
<1>3. QED
      BY <1>1, <1>2, TypeInit, TypeStep DEF ExactInv

\* While nothing starts over the count is exact at every moment, whatever is
\* lost and repeated and wherever the counter wraps.
THEOREM ExactAccountingHolds == ASSUME Continuous PROVE Spec => []ExactAccounting
<1>1. ExactInv => ExactAccounting
      BY DEF ExactInv
<1>2. QED
      BY <1>1, ExactInvInductive, PTL DEF Spec
=============================================================================
