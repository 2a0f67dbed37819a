------------------------------ MODULE SendLoop ------------------------------
(***************************************************************************)
(* What the waiting loop of BoardService.send (host/service/               *)
(* board_service.py) promises, whatever carries the answer: it looks,      *)
(* reads, checks the wall clock and sleeps until the answer is there or    *)
(* the time is up.  The answer becomes complete at any moment, or never.   *)
(* An answer complete before the look is read by it; one that becomes      *)
(* complete while the port is being read may be.                           *)
(***************************************************************************)
EXTENDS CallTiming

VARIABLES
    wall,         \* time.monotonic(), 0 when the call starts to wait
    phase,        \* "looking", "reading", "checking", "sleeping",
                  \*   "answered" or "raised"
    since,        \* when the pump or the sleep under way began
    answer,       \* when the answer was complete, or None
    seen          \* was it complete at the last look?

vars == <<wall, phase, since, answer, seen>>

Init == /\ wall = 0 /\ since = 0
        /\ phase = "looking"
        /\ answer = None /\ seen = FALSE

Ended == phase \in {"answered", "raised"}
Expired == wall >= Timeout
Limit == IF phase = "sleeping" THEN MaxSleep ELSE MaxPump

Arrive == /\ ~Ended /\ answer = None
          /\ answer' = wall
          /\ UNCHANGED <<wall, phase, since, seen>>

Look == /\ phase = "looking"
        /\ phase' = "reading"
        /\ seen' = (answer # None)
        /\ UNCHANGED <<wall, since, answer>>

Take == /\ phase = "reading" /\ answer # None
        /\ phase' = "answered"
        /\ UNCHANGED <<wall, since, answer, seen>>

Miss == /\ phase = "reading" /\ ~seen
        /\ phase' = "checking"
        /\ UNCHANGED <<wall, since, answer, seen>>

GiveUp == /\ phase = "checking" /\ Expired
          /\ phase' = "raised"
          /\ UNCHANGED <<wall, since, answer, seen>>

Sleep == /\ phase = "checking" /\ ~Expired
         /\ phase' = "sleeping"
         /\ since' = wall
         /\ UNCHANGED <<wall, answer, seen>>

Wake == /\ phase = "sleeping"
        /\ phase' = "looking"
        /\ since' = wall
        /\ UNCHANGED <<wall, answer, seen>>

Tick == /\ ~Ended /\ wall - since < Limit
        /\ wall' = wall + 1
        /\ UNCHANGED <<phase, since, answer, seen>>

Next == Arrive \/ Look \/ Take \/ Miss \/ GiveUp \/ Sleep \/ Wake \/ Tick

Spec == Init /\ [][Next]_vars

-----------------------------------------------------------------------------
(* Properties *)

\* The types of the variables.
TypeOK ==
    /\ wall \in Nat /\ since \in 0..wall
    /\ phase \in {"looking", "reading", "checking", "sleeping", "answered", "raised"}
    /\ answer \in Nat \cup {None} /\ seen \in BOOLEAN

\* A call ends at the latest one sleep and one pump after its time is up, even
\* if the board says nothing and its own clock stands still.
WaitBounded == wall <= Timeout + MaxSleep + MaxPump

\* A call that raises "no answer" has missed no answer that was complete one
\* pump before its time was up.
AnsweredInTime == phase = "raised" /\ answer # None => answer >= Timeout - MaxPump
=============================================================================
