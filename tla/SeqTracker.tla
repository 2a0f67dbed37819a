----------------------------- MODULE SeqTracker -----------------------------
(***************************************************************************)
(* SeqTracker of host/core/records.py: counts the telemetry records that   *)
(* went missing from the sequence numbers of those that arrived, and       *)
(* recognises a board that started over; and is_telemetry, which keeps     *)
(* the replies to commands away from it.                                   *)
(*                                                                         *)
(* A definition marked as a mutant is a bug one could write in place of    *)
(* the definition after it; no other definition uses it.                   *)
(*                                                                         *)
(* received_total and duplicate_count are left out: the code only counts   *)
(* calls with them and reads neither.                                      *)
(***************************************************************************)
EXTENDS Integers

CONSTANTS
    SeqModulo,         \* SEQ_MODULO, 2^32 in the code
    WrapTolerance,     \* _WRAP_TOLERANCE, 2^31
    ResyncAfter,       \* RESYNC_AFTER, 3
    MaxPlausibleGap,   \* MAX_PLAUSIBLE_GAP, 2^24
    None

ASSUME SeqAssumption ==
    /\ SeqModulo \in Nat \ {0}
    /\ MaxPlausibleGap \in Nat /\ WrapTolerance \in Nat
    /\ MaxPlausibleGap < WrapTolerance /\ WrapTolerance < SeqModulo
    /\ ResyncAfter \in Nat \ {0, 1}
    /\ None \notin Int

VARIABLES
    last,              \* the number the next record is compared with, or None
    backwardRun,       \* consecutive observations that went backwards ...
    restartFrom,       \* ... and the number of the latest of them, or None
    missingTotal, resyncCount, discontinuityCount

trackerVars == <<last, backwardRun, restartFrom,
                 missingTotal, resyncCount, discontinuityCount>>

Uint == 0..(SeqModulo - 1)

TrackerInit == /\ last = None /\ backwardRun = 0 /\ restartFrom = None
               /\ missingTotal = 0 /\ resyncCount = 0 /\ discontinuityCount = 0

TrackerTypeOK ==
    /\ last \in Uint \cup {None}
    /\ backwardRun \in 0..(ResyncAfter - 1)
    /\ restartFrom \in Uint \cup {None}
    /\ missingTotal \in Nat /\ resyncCount \in Nat /\ discontinuityCount \in Nat

\* Mutant: the distance ignores the wrap of the counter.
PlainDelta(seq) == seq - last

\* How far seq is ahead of the last number, on the circle of numbers.
Delta(seq) == (seq - last) % SeqModulo

First(seq) ==
    /\ last = None
    /\ last' = seq
    /\ UNCHANGED <<backwardRun, restartFrom,
                   missingTotal, resyncCount, discontinuityCount>>

Duplicate(seq) ==
    /\ last # None /\ Delta(seq) = 0
    /\ UNCHANGED trackerVars

\* Mutant: a number is taken to prolong the run only if it is adjacent.
RunOfAdjacent(seq) == IF restartFrom = None \/ seq = restartFrom + 1
                      THEN backwardRun + 1 ELSE 1

\* The length of the run of backward numbers that seq prolongs or begins.
RunWith(seq) == IF restartFrom = None \/ seq > restartFrom
                THEN backwardRun + 1 ELSE 1

\* Mutant: a restart is counted but the tracker does not move to it.
BackwardStaysPut(seq) ==
    /\ last # None /\ Delta(seq) > WrapTolerance
    /\ IF RunWith(seq) >= ResyncAfter
       THEN /\ backwardRun' = 0
            /\ restartFrom' = None
            /\ resyncCount' = resyncCount + 1
       ELSE /\ backwardRun' = RunWith(seq)
            /\ restartFrom' = seq
            /\ UNCHANGED resyncCount
    /\ UNCHANGED <<last, missingTotal, discontinuityCount>>

\* Mutant: the run is not ended by the restart it showed.
BackwardKeepsRun(seq) ==
    /\ last # None /\ Delta(seq) > WrapTolerance
    /\ backwardRun' = RunWith(seq) /\ restartFrom' = seq
    /\ IF RunWith(seq) >= ResyncAfter
       THEN last' = seq /\ resyncCount' = resyncCount + 1
       ELSE UNCHANGED <<last, resyncCount>>
    /\ UNCHANGED <<missingTotal, discontinuityCount>>

Backward(seq) ==
    /\ last # None /\ Delta(seq) > WrapTolerance
    /\ IF RunWith(seq) >= ResyncAfter
       THEN /\ last' = seq
            /\ backwardRun' = 0
            /\ restartFrom' = None
            /\ resyncCount' = resyncCount + 1
       ELSE /\ backwardRun' = RunWith(seq)
            /\ restartFrom' = seq
            /\ UNCHANGED <<last, resyncCount>>
    /\ UNCHANGED <<missingTotal, discontinuityCount>>

Missing(seq) == Delta(seq) - 1

Forward(seq) ==
    /\ last # None /\ Delta(seq) # 0 /\ Delta(seq) <= WrapTolerance
    /\ last' = seq
    /\ backwardRun' = 0
    /\ restartFrom' = None
    /\ IF Missing(seq) > MaxPlausibleGap
       THEN /\ discontinuityCount' = discontinuityCount + 1
            /\ UNCHANGED missingTotal
       ELSE /\ missingTotal' = missingTotal + Missing(seq)
            /\ UNCHANGED discontinuityCount
    /\ UNCHANGED resyncCount

Observe(seq) == First(seq) \/ Duplicate(seq) \/ Backward(seq) \/ Forward(seq)

\* The records that take no part in the numbering: they answer a command.
CommandResponseTypes == {"id", "stat", "cfg_value", "cfg_item", "cfg_field", "cfg_end"}

\* Mutant: the types are listed by hand, without those of a catalogue.
IsTelemetryByHand(type) == type \notin {"id", "stat", "cfg_value"}

IsTelemetry(type) == type \notin CommandResponseTypes

ResetTracker ==
    /\ last' = None /\ backwardRun' = 0 /\ restartFrom' = None
    /\ UNCHANGED <<missingTotal, resyncCount, discontinuityCount>>
=============================================================================
