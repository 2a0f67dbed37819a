--------------------------- MODULE TelemetryLink ---------------------------
(***************************************************************************)
(* The tracker against a board and a link: the board numbers its records   *)
(* 1, 2, 3, ... from every boot (DeviceSim._emit_telemetry), the link      *)
(* loses some of them and may repeat the latest, the board reboots, the    *)
(* host reconnects, and between the records the board replies to commands. *)
(* Nothing is overtaken: the line is a byte stream.                        *)
(*                                                                         *)
(* A record is observed the moment it leaves the link: the tracker cannot  *)
(* tell a delay.                                                           *)
(***************************************************************************)
EXTENDS SeqTracker

CONSTANTS
    Wraps,          \* does the board's counter wrap, as a uint32 does?
    MaxSeq,         \* bound: the board stops counting here (unless it wraps)
    MaxLost,        \* bound: records lost
    MaxBurst,       \* bound: records lost in a row
    MaxReboots,     \* bound: reboots of the board
    Reconnects      \* does the host reconnect?

ASSUME LinkAssumption ==
    /\ Wraps \in BOOLEAN /\ Reconnects \in BOOLEAN
    /\ MaxSeq \in Nat /\ MaxLost \in Nat /\ MaxBurst \in Nat
    /\ MaxReboots \in Nat

VARIABLES
    boardSeq,       \* DeviceSim._seq: the number of the latest record
    corruptTotal,   \* BoardService.corrupt_total: records parse_record refused
    delivered,      \* history: the latest record delivered, or None
    lost,           \* history: records lost since the first was delivered
    burst,          \* history: ... since the latest was delivered
    reboots,        \* history: reboots of the board
    fresh           \* history: records delivered in a row since the last
                    \*   reboot, without a repetition, up to ResyncAfter

linkVars == <<boardSeq, corruptTotal, delivered, lost, burst, reboots, fresh>>
vars == <<trackerVars, linkVars>>

Init == /\ TrackerInit
        /\ boardSeq = 0 /\ corruptTotal = 0 /\ delivered = None
        /\ lost = 0 /\ burst = 0 /\ reboots = 0 /\ fresh = 0

-----------------------------------------------------------------------------

NextSeq == IF Wraps THEN (boardSeq + 1) % SeqModulo ELSE boardSeq + 1

Emit == /\ Wraps \/ boardSeq < MaxSeq
        /\ boardSeq' = NextSeq

\* parse_record refuses a number that is no uint32, and _ingest then counts the
\* line as corrupt and goes on.  Only telemetry is observed; a reply, or a line
\* of a catalogue, goes where no number is looked at (see BoardService).
Ingest(type, seq) ==
    IF seq \in Uint
    THEN /\ IF IsTelemetry(type) THEN Observe(seq) ELSE UNCHANGED trackerVars
         /\ UNCHANGED corruptTotal
    ELSE corruptTotal' = corruptTotal + 1 /\ UNCHANGED trackerVars

CapFresh(n) == IF n <= ResyncAfter THEN n ELSE ResyncAfter

Deliver ==
    /\ Emit
    /\ Ingest("ain", NextSeq)
    /\ delivered' = NextSeq
    /\ burst' = 0
    /\ fresh' = CapFresh(fresh + 1)
    /\ UNCHANGED <<lost, reboots>>

\* Nobody can know of a record lost before the first that arrives.
Lose ==
    /\ Emit
    /\ burst < MaxBurst /\ lost < MaxLost
    /\ IF delivered = None THEN UNCHANGED <<lost, burst>>
       ELSE lost' = lost + 1 /\ burst' = burst + 1
    /\ UNCHANGED <<trackerVars, corruptTotal, delivered, reboots, fresh>>

\* The link repeats the latest record.  A repetition is not progress.
Redeliver ==
    /\ delivered # None
    /\ Ingest("ain", delivered)
    /\ fresh' = IF fresh = 0 THEN 0 ELSE 1
    /\ UNCHANGED <<boardSeq, delivered, lost, burst, reboots>>

\* A reply of any type; the board numbers them all 0.
Reply ==
    /\ \E type \in CommandResponseTypes : Ingest(type, 0)
    /\ UNCHANGED <<boardSeq, delivered, lost, burst, reboots, fresh>>

Reboot ==
    /\ reboots < MaxReboots
    /\ boardSeq' = 0
    /\ reboots' = reboots + 1
    /\ fresh' = 0
    /\ UNCHANGED <<trackerVars, corruptTotal, delivered, lost, burst>>

Reconnect ==
    /\ Reconnects
    /\ ResetTracker
    /\ UNCHANGED linkVars

Next == \/ Deliver \/ Lose \/ Redeliver \/ Reply \/ Reboot \/ Reconnect

Spec == Init /\ [][Next]_vars

-----------------------------------------------------------------------------
(* Properties *)

\* The types of the variables.
TypeOK ==
    /\ TrackerTypeOK
    /\ boardSeq \in Nat /\ corruptTotal \in Nat
    /\ delivered \in Nat \cup {None}
    /\ lost \in Nat /\ burst \in Nat
    /\ reboots \in 0..MaxReboots
    /\ fresh \in 0..ResyncAfter

\* Losses, repetitions, reconnections, reboots of the board and its replies to
\* commands, at any moment, never make the tracker report more missing records
\* than were lost.
NeverOvercounts == missingTotal <= lost

\* After a reboot ResyncAfter new records in a row bring the tracker back to
\* the board's counter, however far ahead it had been: the loss count does not
\* stay silent until the counter catches up.
BackInSync == fresh = ResyncAfter => last \in {delivered, None}

\* The tracker reports a restart only when the board did reboot: repeated and
\* lost records and reconnections are never taken for one.
RestartsAreReal == resyncCount <= reboots

\* While the board does not reboot and the host does not reconnect, the report
\* is exact: what is not reported yet is what was lost since the latest record,
\* across the wrap of the counter.
ExactAccounting == last # None => missingTotal + burst = lost

\* The link of this model damages nothing: parse_record refuses no record for
\* the number the board gave it.
NothingRefused == corruptTotal = 0
=============================================================================
