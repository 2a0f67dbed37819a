--------------------------- MODULE SendLoopProofs ---------------------------
(***************************************************************************)
(* The promises of the waiting loop, for every timeout and every duration  *)
(* of a pump and a sleep.                                                  *)
(***************************************************************************)
EXTENDS SendLoop, TLAPS

\* A pump or a sleep under way has not exceeded its limit, and began in time:
\* the loop goes to sleep only before its time is up.
InTime ==
    /\ wall <= since + Limit
    /\ phase = "sleeping" => since <= Timeout
    /\ phase # "sleeping" => since <= Timeout + MaxSleep

\* An answer the last look did not see came after the pump had begun.
Unseen ==
    /\ answer # None => answer <= wall
    /\ phase \in {"reading", "checking"} /\ ~seen /\ answer # None => answer >= since
    /\ phase = "checking" => ~seen

LoopInv == TypeOK /\ InTime /\ Unseen /\ AnsweredInTime

LEMMA InvInit == Init => LoopInv
<1> SUFFICES ASSUME Init PROVE LoopInv
    OBVIOUS
<1> USE TimingAssumption DEF Init
<1>1. TypeOK
  <2>1. seen \in BOOLEAN
        BY Zenon
  <2>2. wall \in Nat /\ since \in 0..wall /\ answer \in Nat \cup {None}
        OBVIOUS
  <2>3. QED
        BY <2>1, <2>2 DEF TypeOK
<1>2. InTime
      BY DEF InTime, Limit
<1>3. Unseen /\ AnsweredInTime
      BY DEF Unseen, AnsweredInTime
<1>4. QED
      BY <1>1, <1>2, <1>3 DEF LoopInv

LEMMA InvStep == LoopInv /\ [Next]_vars => LoopInv'
<1> SUFFICES ASSUME LoopInv, [Next]_vars PROVE LoopInv'
    OBVIOUS
<1> USE TimingAssumption
        DEF LoopInv, TypeOK, InTime, Unseen, AnsweredInTime, Limit, Ended, Expired
<1>1. CASE Arrive
      BY <1>1 DEF Arrive
<1>2. CASE Look
      BY <1>2 DEF Look
<1>3. CASE Take
      BY <1>3 DEF Take
<1>4. CASE Miss
      BY <1>4 DEF Miss
<1>5. CASE GiveUp
      BY <1>5 DEF GiveUp
<1>6. CASE Sleep
      BY <1>6 DEF Sleep
<1>7. CASE Wake
      BY <1>7 DEF Wake
<1>8. CASE Tick
      BY <1>8 DEF Tick
<1>9. CASE UNCHANGED vars
      BY <1>9 DEF vars
<1>10. QED
      BY <1>1, <1>2, <1>3, <1>4, <1>5, <1>6, <1>7, <1>8, <1>9 DEF Next

LEMMA InvHolds == Spec => []LoopInv
BY InvInit, InvStep, PTL DEF Spec

\* The types of the loop's variables hold.
THEOREM TypeCorrect == Spec => []TypeOK
<1>1. LoopInv => TypeOK
      BY DEF LoopInv
<1>2. QED
      BY <1>1, InvHolds, PTL

\* Every call of send ends within its timeout, one sleep and one pump.
THEOREM WaitBoundedHolds == Spec => []WaitBounded
<1>1. LoopInv => WaitBounded
      BY TimingAssumption DEF LoopInv, TypeOK, InTime, Limit, WaitBounded
<1>2. QED
      BY <1>1, InvHolds, PTL

\* send raises only if no answer was complete one pump before the deadline.
THEOREM AnsweredInTimeHolds == Spec => []AnsweredInTime
<1>1. LoopInv => AnsweredInTime
      BY DEF LoopInv
<1>2. QED
      BY <1>1, InvHolds, PTL
=============================================================================
