--------------------------- MODULE ServiceSession ---------------------------
(***************************************************************************)
(* The host service and a board at the two ends of a serial line.  Lines   *)
(* arrive in order and as late as they like.  The line may lose or damage  *)
(* a line, which the checksum and the JSON parser then find out.  The      *)
(* host's process may end at any point, also while it waits for an answer; *)
(* the next one starts with the port's buffer emptied of what it held,     *)
(* which may be less than all that is under way.                           *)
(***************************************************************************)
EXTENDS MarkonCli, FiniteSets

CONSTANTS
    Calls,           \* the commands the host issues, among STAT, GET, SET, LIST
    MaxCommands,     \* bound: commands written, heartbeats included
    MaxRecords,      \* bound: telemetry records sent
    MaxFaults        \* bound: lines lost or damaged, and ends of the host

ASSUME SessionAssumption ==
    /\ MaxCommands \in Nat /\ MaxRecords \in Nat /\ MaxFaults \in Nat
    /\ Calls \subseteq {"STAT", "GET", "SET", "LIST"}
    /\ IsFiniteSet(Entry) /\ End \notin Entry
    /\ None \notin Nat /\ None \notin [id : Nat, sub : Calls]

VARIABLES
    toBoard, toHost,  \* the lines in transit
    written,          \* history: commands written
    sent,             \* history: telemetry records sent
    faults,           \* history: lines lost or damaged, and ends of the host
    spoilt,           \* history: telemetry records lost or damaged with them
    expired           \* history: the verbs of the calls that got no answer

lineVars == <<toBoard, toHost, written, sent, faults, spoilt, expired>>
vars == <<serviceVars, lineVars>>

Init == /\ ServiceInit
        /\ toBoard = <<>> /\ toHost = <<>>
        /\ written = 0 /\ sent = 0 /\ faults = 0 /\ spoilt = {} /\ expired = {}

-----------------------------------------------------------------------------
(* The host *)

Write(command) == /\ written < MaxCommands
                  /\ written' = written + 1
                  /\ toBoard' = Append(toBoard, command)

Send(sub) == /\ Write(Command(written + 1, sub))
             /\ StartCall(Command(written + 1, sub))
             /\ UNCHANGED <<toHost, sent, faults, spoilt, expired>>

\* A pump of send, of heartbeat or of the monitor takes in the next line.
HostReads == /\ toHost # <<>>
             /\ Ingest(Head(toHost))
             /\ toHost' = Tail(toHost)
             /\ UNCHANGED <<toBoard, written, sent, faults, spoilt, expired>>

HostReturns == Return /\ UNCHANGED lineVars

HostExpires == /\ Expire
               /\ expired' = expired \cup {VerbOf(call.sub)}
               /\ UNCHANGED <<toBoard, toHost, written, sent, faults, spoilt>>

\* heartbeat writes and does not wait.
Heartbeat == /\ call = None
             /\ Write(Command(written + 1, "HB"))
             /\ UNCHANGED <<serviceVars, toHost, sent, faults, spoilt, expired>>

Fault == faults < MaxFaults /\ faults' = faults + 1

Records(lines) == {lines[i].seq : i \in {j \in DOMAIN lines :
                                            lines[j].kind = "telemetry"}}

HostRestarts == \E n \in 0..Len(toHost) :
    /\ Fault
    /\ call' = None /\ acks' = <<>> /\ lastPayload' = None
    /\ catalog' = <<>> /\ records' = <<>> /\ corruptTotal' = 0
    /\ result' = None
    /\ expired' = IF call = None THEN expired ELSE expired \cup {VerbOf(call.sub)}
    /\ spoilt' = spoilt \cup ToSet(records) \cup Records(SubSeq(toHost, 1, n))
    /\ toHost' = SubSeq(toHost, n + 1, Len(toHost))
    /\ UNCHANGED <<toBoard, written, sent>>

-----------------------------------------------------------------------------
(* The board *)

\* DeviceSim.feed: the lines each command is answered with.  GET and SET may be
\* refused; a damaged command is refused when its verb can still be read, and
\* ignored otherwise.
Answers(command) ==
    LET id == command.id
        ok == Sack(id, VerbOf(command.sub), TRUE)
        refused == Sack(id, VerbOf(command.sub), FALSE)
    IN  CASE command.sub = "HB"      -> {<<>>}
          [] command.sub = "STAT"    -> {<<Payload(id), ok>>}
          [] command.sub = "GET"     -> {<<Payload(id), ok>>, <<refused>>}
          [] command.sub = "SET"     -> {<<ok>>, <<refused>>}
          [] command.sub = "LIST"    ->
                {[i \in 1..Cardinality(Entry) |->
                     CatalogLine(id, SetToSeq(Entry)[i])]
                 \o <<CatalogLine(id, End), ok>>}
          [] command.sub = "garbled" ->
                {<<>>, <<Sack(id, VerbOf(command.was), FALSE)>>}

BoardAnswers ==
    /\ toBoard # <<>>
    /\ toBoard' = Tail(toBoard)
    /\ \E answer \in Answers(Head(toBoard)) : toHost' = toHost \o answer
    /\ UNCHANGED <<serviceVars, written, sent, faults, spoilt, expired>>

BoardEmits ==
    /\ sent < MaxRecords
    /\ sent' = sent + 1
    /\ toHost' = Append(toHost, Telemetry(sent'))
    /\ UNCHANGED <<serviceVars, toBoard, written, faults, spoilt, expired>>

-----------------------------------------------------------------------------
(* The line *)

Spoil(line) == spoilt' = IF line.kind = "telemetry" THEN spoilt \cup {line.seq}
                                                    ELSE spoilt

LoseLine == \E i \in DOMAIN toHost :
    /\ Fault /\ Spoil(toHost[i])
    /\ toHost' = RemoveAt(toHost, i)
    /\ UNCHANGED <<serviceVars, toBoard, written, sent, expired>>

GarbleLine == \E i \in DOMAIN toHost :
    /\ toHost[i] # Garbled
    /\ Fault /\ Spoil(toHost[i])
    /\ toHost' = [toHost EXCEPT ![i] = Garbled]
    /\ UNCHANGED <<serviceVars, toBoard, written, sent, expired>>

LoseCommand == \E i \in DOMAIN toBoard :
    /\ Fault
    /\ toBoard' = RemoveAt(toBoard, i)
    /\ UNCHANGED <<serviceVars, toHost, written, sent, spoilt, expired>>

GarbleCommand == \E i \in DOMAIN toBoard :
    /\ toBoard[i].sub # "garbled"
    /\ Fault
    /\ toBoard' = [toBoard EXCEPT ![i] =
                      [id |-> @.id, sub |-> "garbled", was |-> @.sub]]
    /\ UNCHANGED <<serviceVars, toHost, written, sent, spoilt, expired>>

Next == \/ \E sub \in Calls : Send(sub)
        \/ HostReads \/ HostReturns \/ HostExpires \/ Heartbeat \/ HostRestarts
        \/ BoardAnswers \/ BoardEmits
        \/ LoseLine \/ GarbleLine \/ LoseCommand \/ GarbleCommand

Spec == Init /\ [][Next]_vars

-----------------------------------------------------------------------------
(* Properties *)

Number == 1..MaxCommands
Verb == {"HB", "STAT", "CFG"}
SackLine == [kind : {"sack"}, id : Number, verb : Verb, ok : BOOLEAN]
PayloadLine == [kind : {"payload"}, id : Number]
CatalogLines == [kind : {"catalog"}, id : Number, entry : Entry \cup {End}]
TelemetryLine == [kind : {"telemetry"}, seq : 1..MaxRecords]

\* The types of the variables.
TypeOK ==
    /\ call \in [id : Number, sub : Calls] \cup {None}
    /\ acks \in Seq(SackLine)
    /\ lastPayload \in Number \cup {None}
    /\ catalog \in Seq(CatalogLines)
    /\ records \in Seq(1..MaxRecords)
    /\ corruptTotal \in 0..MaxFaults
    /\ result # None => result.id \in Number /\ result.sub \in Calls
    /\ toHost \in Seq(SackLine \cup PayloadLine \cup CatalogLines
                        \cup TelemetryLine \cup {Garbled})
    /\ written \in 0..MaxCommands /\ sent \in 0..MaxRecords
    /\ faults \in 0..MaxFaults /\ spoilt \subseteq 1..MaxRecords
    /\ expired \subseteq Verb

HasReturned == result # None /\ ~result.raised

\* A call gets the answer to its own command, unless an earlier call with the
\* same verb gave up: lost, damaged and late lines, heartbeats between the
\* calls and telemetry among the answers never make it take another's.
AnswersMatch ==
    HasReturned /\ VerbOf(result.sub) \notin expired => result.ack = result.id

\* ... and whatever gave up before: what send says of itself.
SendReturnsOwnAnswer == HasReturned => result.ack = result.id

\* The payload a caller reads after send is the answer to its own command or,
\* when the line spoilt it, nothing; never that of an earlier command.
PayloadMatches ==
    HasReturned /\ expired = {} => result.payload \in {result.id, None}

\* A schema is accepted only when it is the board's whole catalogue as of this
\* very call: no line missing, none left over from an earlier one.
SchemaMatches ==
    HasReturned /\ result.sub = "LIST" /\ expired = {} =>
        \A entry \in Entry : result.schema[entry] = result.id

\* No telemetry record disappears in the host: each one sent is recorded, still
\* in transit, or was spoilt by the line or with the process, also while a
\* catalogue is collected; and the records are in order.
TelemetryConserved ==
    /\ 1..sent = ToSet(records) \cup spoilt \cup Records(toHost)
    /\ \A i, j \in DOMAIN records : i < j => records[i] < records[j]

\* Unless a call has been given up before, get prints the value of its own key
\* whenever it exits with 0; it ends in a traceback only when something went
\* wrong on the line; and 1 means that the board has refused this command.
CliTellsTruth ==
    result # None /\ expired = {} =>
        /\ Exit(result) = "0" /\ result.sub = "GET" => Printed(result) = result.id
        /\ Exit(result) = "traceback" => faults > 0
        /\ Exit(result) = "1" => result.ack = result.id
=============================================================================
