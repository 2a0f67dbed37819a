----------------------------- MODULE CallTiming -----------------------------
(***************************************************************************)
(* The times of a call of BoardService.send (host/service/                 *)
(* board_service.py), in ticks of time.monotonic().                        *)
(***************************************************************************)
EXTENDS Integers

CONSTANTS
    Timeout,      \* timeout_s
    MaxPump,      \* a pump and the look at the clock after it take at most
                  \*   this: the serial port's timeout, and the processing
    MaxSleep,     \* a sleep of _POLL_INTERVAL_S takes at most this
    None

ASSUME TimingAssumption ==
    /\ Timeout \in Nat /\ MaxPump \in Nat /\ MaxSleep \in Nat
    /\ None \notin Nat
=============================================================================
