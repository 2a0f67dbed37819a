---------------------------- MODULE BoardService ----------------------------
(***************************************************************************)
(* BoardService of host/service/board_service.py: the host's side of the   *)
(* command protocol.  A call writes one command and reads lines until an   *)
(* acknowledgement of its verb is among them or the deadline has passed;   *)
(* whatever else is read on the way is telemetry, the payload of a reply,  *)
(* a line of the catalogue, or damaged.                                    *)
(*                                                                         *)
(* A pump is a step for every line it takes in: the lines come from        *)
(* another process, and a pump that finds n of them is n steps.            *)
(*                                                                         *)
(* Every line carries the number of the command it answers.  The code has  *)
(* no such number: only the properties look at it.                         *)
(*                                                                         *)
(* A definition marked as a mutant is a bug one could write in place of    *)
(* the definition after it; no other definition uses it.                   *)
(***************************************************************************)
EXTENDS Naturals, Sequences, SequencesExt

CONSTANTS Entry,      \* the cfg_item and cfg_field lines of a catalogue
          End,        \* its cfg_end line
          None

VARIABLES
    call,           \* the command whose answer is awaited, or None
    acks,           \* _acks
    lastPayload,    \* last_payload: the number of the command it answers, or None
    catalog,        \* _catalog
    records,        \* records, as their sequence numbers
    corruptTotal,   \* corrupt_total
    result          \* how the last call ended, or None

serviceVars == <<call, acks, lastPayload, catalog, records, corruptTotal, result>>

\* A command is numbered; its verb is what an acknowledgement repeats.
Command(id, sub) == [id |-> id, sub |-> sub]
VerbOf(sub) == IF sub \in {"GET", "SET", "LIST"} THEN "CFG" ELSE sub

Sack(id, verb, ok)      == [kind |-> "sack", id |-> id, verb |-> verb, ok |-> ok]
Payload(id)             == [kind |-> "payload", id |-> id]
CatalogLine(id, entry)  == [kind |-> "catalog", id |-> id, entry |-> entry]
Telemetry(seq)          == [kind |-> "telemetry", seq |-> seq]
Garbled                 == [kind |-> "garbled"]

ServiceInit == /\ call = None /\ acks = <<>> /\ lastPayload = None
               /\ catalog = <<>> /\ records = <<>> /\ corruptTotal = 0
               /\ result = None

-----------------------------------------------------------------------------

\* _collect_catalog is set from before fetch_schema sends until send returns.
Collecting == call # None /\ call.sub = "LIST"

\* Mutant: whatever arrives while a catalogue is collected goes to it.
TakesAnyLine(line) == Collecting /\ line.kind \notin {"sack", "garbled"}

\* The lines _ingest puts aside for parse_catalog.
TakesCatalogLine(line) == Collecting /\ line.kind = "catalog"

\* _ingest: what one line does to the service.  A line of a catalogue nobody
\* collects is a payload like any other reply.
Ingest(line) ==
    LET toCatalog == TakesCatalogLine(line) IN
    /\ acks' = IF line.kind = "sack" THEN Append(acks, line) ELSE acks
    /\ catalog' = IF toCatalog THEN Append(catalog, line) ELSE catalog
    /\ lastPayload' = IF line.kind \in {"payload", "catalog"} /\ ~toCatalog
                      THEN line.id ELSE lastPayload
    /\ records' = IF line.kind = "telemetry" /\ ~toCatalog
                  THEN Append(records, line.seq) ELSE records
    /\ corruptTotal' = IF line.kind = "garbled" THEN corruptTotal + 1
                                                ELSE corruptTotal
    /\ UNCHANGED <<call, result>>

\* Mutant: the payload of the call before is left in place.
StartKeepsPayload(command) ==
    /\ call = None
    /\ call' = command
    /\ acks' = <<>>
    /\ catalog' = IF command.sub = "LIST" THEN <<>> ELSE catalog
    /\ UNCHANGED <<lastPayload, records, corruptTotal, result>>

\* Mutant: the catalogue is not emptied before a new one is fetched.
StartKeepsCatalog(command) ==
    /\ call = None
    /\ call' = command
    /\ acks' = <<>>
    /\ lastPayload' = None
    /\ UNCHANGED <<catalog, records, corruptTotal, result>>

\* send, up to the first read; fetch_schema empties the catalogue before it.
StartCall(command) ==
    /\ call = None
    /\ call' = command
    /\ acks' = <<>>
    /\ lastPayload' = None
    /\ catalog' = IF command.sub = "LIST" THEN <<>> ELSE catalog
    /\ UNCHANGED <<records, corruptTotal, result>>

\* Mutant: the first acknowledgement is taken whatever its verb.
MatchesAny(ack) == TRUE

\* The acknowledgements send takes for its own, the first of which it returns.
Matches(ack) == ack.verb = VerbOf(call.sub)

\* parse_catalog: the catalogue counts as whole when its cfg_end arrived and as
\* many different lines as it declares; a later line replaces an earlier one.
Received(lines) == {lines[i].entry : i \in DOMAIN lines} \ {End}
Whole(lines) == /\ \E i \in DOMAIN lines : lines[i].entry = End
                /\ Received(lines) = Entry
LatestLine(lines, entry) ==
    lines[Max({i \in DOMAIN lines : lines[i].entry = entry})].id
Schema(lines) == [entry \in Entry |-> LatestLine(lines, entry)]

Returned(ack) ==
    [id |-> call.id, sub |-> call.sub, raised |-> FALSE, ack |-> ack.id,
     ok |-> ack.ok, payload |-> lastPayload,
     schema |-> IF call.sub = "LIST" THEN Schema(catalog) ELSE None]

Raised == [id |-> call.id, sub |-> call.sub, raised |-> TRUE]

\* The search of send's loop after a pump: the call returns with the first
\* match.  fetch_schema raises when the answer is there and the catalogue not.
Return ==
    /\ call # None
    /\ \E i \in DOMAIN acks :
          /\ Matches(acks[i]) /\ \A j \in 1..i-1 : ~Matches(acks[j])
          /\ result' = IF call.sub = "LIST" /\ ~Whole(catalog)
                       THEN Raised ELSE Returned(acks[i])
    /\ call' = None
    /\ UNCHANGED <<acks, lastPayload, catalog, records, corruptTotal>>

\* The search of the last round, the deadline having passed: there is none.
Expire ==
    /\ call # None
    /\ \A i \in DOMAIN acks : ~Matches(acks[i])
    /\ call' = None
    /\ result' = Raised
    /\ UNCHANGED <<acks, lastPayload, catalog, records, corruptTotal>>
=============================================================================
