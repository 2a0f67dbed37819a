-------------------------- MODULE LoopbackSession --------------------------
(***************************************************************************)
(* The service on a LoopbackTransport (host/service/board_service.py): a   *)
(* write feeds the board at once, at the time of the last pump; a pump     *)
(* ticks the board with the host's clock, takes in what the board has put  *)
(* out and mirrors its mode.  Nobody pumps while the host is idle, which   *)
(* it is for at most MaxIdle.                                              *)
(***************************************************************************)
EXTENDS Board

CONSTANTS
    Attempts,     \* the pairs <<key, text>> the host tries to set
    MaxIdle,
    ClockStep,    \* the granularity of the clock, in ms
    MaxClock      \* bounds the clock

ASSUME IdleAssumption == MaxIdle \in Nat /\ MaxClock \in Nat /\ ClockStep \in Nat \ {0}
ASSUME AttemptAssumption == Attempts \subseteq (Key \cup {UnknownKey}) \X Text

VARIABLES
    clock,        \* what the host's clock() returns
    hostMode,     \* BoardService.mode
    schema,       \* the ConfigSchema of the last fetch, its items' cur kept up
                  \*   to date with what the board has acknowledged
    hbAt,         \* history: when the host last sent a heartbeat, or None
    last          \* history: the last operation of the host

vars == <<boardVars, clock, hostMode, schema, hbAt, last>>

\* A write: how long after the last heartbeat, and what the host's validator
\* says of it.
Write(verdict) == [op |-> "write", age |-> IF hbAt = None THEN None ELSE clock - hbAt,
                   verdict |-> verdict]
Other(op) == [op |-> op, age |-> None, verdict |-> "OK"]

Init == /\ BoardInit
        /\ clock = 0 /\ hostMode = "RUN"
        /\ schema = ParseCatalog(CatalogLines(FactoryConfig))
        /\ hbAt = None /\ last = Other("idle")

\* Mutant: the mode is mirrored before the board is ticked.
PumpMirrorsFirst(hbRx) == BoardTick(clock, hbRx) /\ hostMode' = Mode

\* pump, when the board last saw a heartbeat at hbRx.
PumpAfter(hbRx) == BoardTick(clock, hbRx) /\ hostMode' = Mode'

Pump == /\ NoSack
        /\ PumpAfter(lastHbRx)
        /\ last' = Other("pump")
        /\ UNCHANGED <<clock, schema, hbAt>>

\* heartbeat: the write feeds $HB, then pump.
Heartbeat == /\ NoSack
             /\ PumpAfter(now)
             /\ hbAt' = clock
             /\ last' = Other("heartbeat")
             /\ UNCHANGED <<clock, schema>>

\* send: the write feeds the command, then the first pump finds the answer.
Send(Handler, operation) ==
    /\ Handler
    /\ PumpAfter(lastHbRx)
    /\ last' = operation
    /\ UNCHANGED <<clock, hbAt>>

SetConfig(key, text) ==
    /\ Send(OnSet(key, text), Write(Validate(schema, key, text)))
    /\ schema' = IF reply' = "OK"
                 THEN [schema EXCEPT ![key].cur = HostValue(schema[key], text)]
                 ELSE schema

SetIncomplete == Send(OnSetIncomplete, Write("RANGE")) /\ UNCHANGED schema

Save == Send(OnSave, Write("OK")) /\ UNCHANGED schema

Reset ==
    /\ Send(OnReset, Write("OK"))
    /\ schema' = IF reply' = "OK"
                 THEN [key \in Key |-> [schema[key] EXCEPT !.cur = ItemOf(key).default]]
                 ELSE schema

GetConfig(key) ==
    /\ Send(OnGet(key), Other("read"))
    /\ schema' = IF reply' = "OK" THEN [schema EXCEPT ![key].cur = current[key]]
                                  ELSE schema

FetchSchema == Send(OnRead, Other("read"))
               /\ schema' = ParseCatalog(CatalogLines(current))

\* ID and STAT; and what the board does not know.
Ask == Send(OnRead, Other("read")) /\ UNCHANGED schema
AskNonsense == Send(OnUnknown, Other("nonsense")) /\ UNCHANGED schema

TimePasses == /\ clock + ClockStep <= MaxClock
              /\ clock + ClockStep - now <= MaxIdle
              /\ clock' = clock + ClockStep
              /\ last' = Other("idle")
              /\ NoSack /\ UNCHANGED <<deviceVars, hostMode, schema, hbAt>>

Next == \/ Pump \/ Heartbeat \/ SetIncomplete \/ Save \/ Reset \/ FetchSchema
        \/ Ask \/ AskNonsense \/ TimePasses
        \/ \E attempt \in Attempts : SetConfig(attempt[1], attempt[2])
        \/ \E key \in Key \cup {UnknownKey} : GetConfig(key)

Spec == Init /\ [][Next]_vars

-----------------------------------------------------------------------------
(* Properties *)

\* The types of the variables.
TypeOK ==
    /\ DeviceTypeOK /\ now <= clock
    /\ up /\ file = "none" /\ ~loadFailed /\ rejected = {} /\ ~edited
    /\ dirty \in BOOLEAN /\ reply \in Store!Replies \cup {"MODE"}
    /\ clock \in Nat /\ hostMode \in {"CONFIG", "RUN"}
    /\ DOMAIN current = Key /\ DOMAIN schema = Key
    /\ hbAt \in Nat \cup {None}
    /\ last.op \in {"idle", "pump", "heartbeat", "write", "read", "nonsense"}

\* A host that never leaves the board without a pump for longer than MaxIdle
\* has its writes allowed only that much too long after its last heartbeat ...
WriteNeedsHeartbeat ==
    last.op = "write" /\ reply # "MODE" =>
        last.age # None /\ last.age <= HbTimeout + MaxIdle

\* ... and refused only that much too soon.
HeartbeatAllowsWrite ==
    last.op = "write" /\ reply = "MODE" /\ last.age # None =>
        last.age > HbTimeout - MaxIdle

\* A heartbeat puts the board into CONFIG mode, and the host sees it there.
HeartbeatOpensConfig == last.op = "heartbeat" => hostMode = "CONFIG"

\* A host that believes the acknowledgements and the catalogue knows every
\* setting of the board: what set, reset, GET and LIST answer is what the board
\* runs with, refusals and the roll-back of a refused combination included.
HostPictureTrue == \A key \in Key : schema[key].cur = current[key]

\* The validators of host and board agree on every write the board judges: what
\* the host lets through the board refuses only for the capacity or the mode;
\* what the host refuses the board refuses too, except that it takes the present
\* value of a read-only setting.
ValidatorsAgree ==
    last.op = "write" /\ reply # "MODE" =>
        /\ last.verdict = "OK" => reply \in {"OK", "CAPACITY"}
        /\ last.verdict \in {"UNKNOWN_KEY", "RANGE"} => reply = last.verdict
        /\ last.verdict = "READONLY" => reply \in {"OK", "RANGE", "INTERLOCK", "READONLY"}
=============================================================================
