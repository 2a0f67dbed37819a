---------------------------- MODULE SerialServer ----------------------------
(***************************************************************************)
(* run_simulator_server (tools/simulator/serial_server.py): the loop that  *)
(* gives the board its clock.  An iteration takes the time, reads and      *)
(* feeds what has arrived, and only then ticks: every command is handled   *)
(* at the time of the tick before.  An iteration takes at most MaxLoop.    *)
(***************************************************************************)
EXTENDS DeviceSim

CONSTANTS
    MaxLoop,
    TxPeriod,         \* the setting tx.period_ms
    EnabledChannels,  \* how many channels are enabled
    MaxClock          \* bounds the clock

ASSUME LoopAssumption == /\ MaxLoop \in Nat /\ MaxClock \in Nat
                         /\ TxPeriod \in Nat /\ EnabledChannels \in Nat

VARIABLES
    clock,        \* the monotonic clock
    loopNow,      \* now_ms of the iteration
    reading,      \* is the loop between taking the time and ticking?
    hbAt,         \* history: when the last whole heartbeat was fed, or None
    write         \* history: the last write: was it allowed, and how long after
                  \*   that heartbeat, or None if there was none

vars == <<deviceVars, clock, loopNow, reading, hbAt, write>>

Init == /\ DeviceInit
        /\ clock = 0 /\ loopNow = 0 /\ reading = FALSE
        /\ hbAt = None /\ write = None

TakeTime == /\ ~reading
            /\ loopNow' = clock /\ reading' = TRUE
            /\ UNCHANGED <<deviceVars, clock, hbAt, write>>

FeedHb == /\ reading
          /\ OnHb
          /\ hbAt' = clock
          /\ UNCHANGED <<clock, loopNow, reading, write>>

FeedGarbledHb == /\ reading
                 /\ OnGarbledHb
                 /\ UNCHANGED <<clock, loopNow, reading, hbAt, write>>

FeedWrite == /\ reading
             /\ write' = [allowed |-> WriteAllowed,
                          age |-> IF hbAt = None THEN None ELSE clock - hbAt]
             /\ UNCHANGED <<deviceVars, clock, loopNow, reading, hbAt>>

EndIteration == /\ reading
                /\ Tick(loopNow, lastHbRx, TxPeriod, EnabledChannels)
                /\ reading' = FALSE
                /\ UNCHANGED <<clock, loopNow, hbAt, write>>

TimePasses == /\ clock < MaxClock
              /\ clock - loopNow < MaxLoop
              /\ clock' = clock + 1
              /\ UNCHANGED <<deviceVars, loopNow, reading, hbAt, write>>

Next == TakeTime \/ FeedHb \/ FeedGarbledHb \/ FeedWrite \/ EndIteration
        \/ TimePasses

Spec == Init /\ [][Next]_vars

-----------------------------------------------------------------------------
(* Properties *)

\* The types of the variables.
TypeOK ==
    /\ DeviceTypeOK /\ now <= loopNow
    /\ clock \in Nat /\ loopNow \in 0..clock /\ reading \in BOOLEAN
    /\ hbAt \in Nat \cup {None}
    /\ write \in {None} \cup [allowed : BOOLEAN, age : Nat \cup {None}]

\* Settings can be changed only by a host that is alive: a write is allowed
\* only if a heartbeat passed the checksum no longer ago than the timeout and
\* the lag of the loop, two iterations.
WriteNeedsHeartbeat ==
    write # None /\ write.allowed =>
        write.age # None /\ write.age <= HbTimeout + 2 * MaxLoop

\* ... and a host that sends heartbeats often enough is never refused.
HeartbeatAllowsWrite ==
    write # None /\ ~write.allowed /\ write.age # None =>
        write.age > HbTimeout - 2 * MaxLoop
=============================================================================
