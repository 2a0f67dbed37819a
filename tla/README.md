# MarkON Studio: TLA+ models, checks and proofs

This directory models the host software and the board simulator of MarkON Studio
(`src/`): TLA+ modules translated from the Python code, TLC runs that check them on
small instances, and TLAPS proofs of the properties that matter most. The simulator
under `tools/simulator` is also the reference for the board's firmware, so what is
shown of it is meant for both.

## 1. The system

| Component | State | Operations | Talks to |
|---|---|---|---|
| setting store (`config_store.py`, `capacity.py`) | current value of every item, `dirty`, `load_failed`, `rejected_keys`, the file | `set`, `reset`, `save`, `load`, `catalog_lines` | called by the board's command handlers |
| board (`device_sim.py`) | `_now_ms`, heartbeat and emission stamps, `_seq` | `feed` (HB, ID, STAT, CFG), `tick`, `mode` | reads no clock: its caller ticks it |
| serial server (`serial_server.py`) | the clock, the byte buffer | one loop: take the time, feed, tick | drives a board and a serial port |
| transports (`board_service.py`) | pending lines or bytes | `write`, `read_lines`, `tick` | the loopback feeds a board directly |
| board service (`board_service.py`) | acknowledgements, last payload, catalogue lines, records, counters | `send`, `heartbeat`, `set_config`, `fetch_schema`, `pump` | one command at a time over a transport |
| schema (`config_schema.py`) | items and field bits | `parse_catalog`, `validate` | built from the service's catalogue lines |
| loss accounting (`records.py`) | last number, backward run, totals | `observe`, `reset`, `parse_record` | fed by the service with telemetry only |
| command queue (`command_queue.py`) | pending, in flight, results | `submit`, `take_results`, `drain_pending`, `complete` | GUI thread and worker thread |
| framing (`framing.py`) | none | `build_command`, `parse_line` | both ends of every line |
| telemetry records (`telemetry.py`) | none | `build_ain_record` | picks fields by a setting; see section 7 |
| command line tool (`markon_cli.py`) | none | `get`, `set`, `list`, `fields`, `monitor` | one process, one service |
| widgets, theme | none worth a model | | see section 7 |

What is hard in it:

* **Concurrency.** The queue is shared by two threads. The service and the board run
  on both sides of a line that delays what they say.
* **Failure.** The line loses lines, damages bytes and cuts characters. The board
  reboots and counts from 1 again. The process that owns the store dies inside `save`,
  and the file may be edited or damaged while it is down. The host process is killed in
  a call, and the next one finds the answer.
* **Time.** The board lives on the time of its last tick. The heartbeat timeout, the
  deadline of `send` and the host's idle time are measured on different clocks.
* **Two of everything.** Host and board each hold the rules of a setting and its value,
  in code of their own.
* **Ordering.** Coalescing moves a command forward, past a SAVE or a RESET. A late acknowledgement meets a
  later call. Telemetry falls between the lines of a reply.

The list of hazards with their lines is in `PROJECT.json`. What makes each component
correct:

* store: the running configuration is always one the ADC can serve, locked rails keep
  their defaults, a store that is not dirty survives a restart, an interrupted save is
  noticed, a refused write is taken back without a trace;
* loss accounting: never more losses than there were, exact while nothing reboots,
  back in step soon after a reboot, no invented reboots;
* service: an answer, payload or catalogue belongs to the call that returns it, and no
  telemetry disappears in the host;
* queue: no result is dropped, every command is answered, nothing but a RESET undoes the
  last value, SAVE stores nothing older than its press;
* heartbeat window: a write needs a recent whole heartbeat, and a recent heartbeat is
  enough;
* host and board together: the validators agree, the host knows what the board runs
  with;
* line and call: one command is one line, a damaged frame is refused, an answer in time
  is not missed, a call ends.

## 2. Modules

| Module | Models |
|---|---|
| `ConfigItems` | the catalogue of `default_store`, `_coerce`, `_to_raw`, the two rates of `capacity.py`: operators only |
| `ConfigStore` | the store, its file, crashes and edits; its catalogue is a parameter |
| `MCConfigStore` | binds `ConfigStore` to a part of `ConfigItems` |
| `DurableSettings` | abstract: a running and a stored configuration |
| `StoreRefinement` | the mapping of `ConfigStore` to `DurableSettings` |
| `ConfigStoreProofs` | theorems about both |
| `SeqTracker` | `SeqTracker.observe` and `reset`, branch by branch, and `is_telemetry` |
| `TelemetryLink` | the tracker composed with a counting board and a lossy line |
| `TelemetryLinkProofs` | theorems about both |
| `CommandQueue` | the queue's methods, each one atomic step under its lock |
| `QueueSession` | the queue composed with a GUI, a worker and a board's settings |
| `QueueSessionProofs` | theorems about both |
| `BoardService` | `send`, `fetch_schema`, `pump`, `_ingest`, `parse_catalog` |
| `MarkonCli` | what the command line tool makes of a call's outcome |
| `ServiceSession` | service and tool composed with a board, a faulty line and restarts |
| `ServiceSessionProofs` | theorems about the three |
| `DeviceSim` | the board's time, mode, heartbeats and emission |
| `SerialServer`, `SerialServerProofs` | the board driven by the server's loop; theorems |
| `ConfigSchema` | the host's validator, built from the board's catalogue lines |
| `Board` | `DeviceSim`, `ConfigStore` and the command handlers in one state |
| `LoopbackSession`, `MCLoopback` | that board, a service and a validator on the loopback |
| `LoopbackProofs` | theorems about them |
| `CallTiming`, `SendLoop` | abstract: the waiting loop of `send`; its time constants |
| `SendLoopProofs` | theorems about `SendLoop` |
| `Framing` | `build_line`, `parse_line`, the checksum, UTF-8: operators only |
| `SerialCall`, `MCSerialCall` | one call down to the bytes; it implements `SendLoop` |
| `SerialCallProofs` | theorems about `SerialCall`, lemmas about `Framing` |

Every mapped definition and its lines are under `map` in `PROJECT.json`. Names follow
the source in TLA+ case (`_check_combination` is `CheckCombination`). Variables named
*history* in their declaration belong to the properties, not to the code.

**Store.** `Set(key, text)` follows `set` line by line: unknown key, coercion, the
no-change shortcut, interlock before read-only (`Verdict`, before anything is written),
then `TryWrite`: the item takes the value, `CheckCombination` looks at the configuration
with the write in it (`MarginOf` gives the one item its previous value for the length of
a computation, as `_margin_of` does), and `RollBack` gives the item its previous value
back when the check refuses. `RefusedLeavesNoTrace` fails when the roll-back is
left out (its mutant), and so does the host's picture of the settings. `Boot` is
`default_store()` and `load()` in one step; nothing can happen between them.
`SaveInterrupted` leaves the file as it was, truncated or complete. A text is what the
parsers make of it (an integer, a decimal, a word, other characters), and a value
carries its Python type. `AvailableRate` and `RequiredRate` round down to
1/`RateScale` samples per second; a sum of whole numbers exceeds a rate exactly when it
exceeds its floor, and `RateScale = 60` makes the periods of the run whole.

**Telemetry.** A record is observed the moment it leaves the line: a tracker cannot
tell a delay. `Deliver` and `Lose` are what the line does with the next record,
`Redeliver` repeats the latest. `Reply` is a reply to a command, of any type; the board
numbers them all 0. It reaches `observe` only if `is_telemetry` lets it through, so it
changes nothing; with a list of types that lacks the catalogue's, the tracker reports
losses that were none (its mutant). `Ingest` refuses a number that is no uint32, as
`parse_record` does. `Reboot` sets the counter back, `Reconnect` calls `reset`, which nothing under
`src/` does yet although its comment says when to.

**Service.** Every line carries the number of the command it answers, which the code
does not have and only the properties read. A pump takes in any number of the lines
that are there, because a read does: `Ingest` is one of them, so a pump of n lines is n
steps. The search of `send`'s loop behind it is `Return` when an acknowledgement matches
and `Expire` when none does and the deadline has passed. A damaged line is refused by the checksum or by the JSON parser; a damaged
command is answered with its verb when that can be read (`_verb_of_broken_line`) and
not at all otherwise. An OK for `LIST` comes behind the catalogue, as in `_on_cfg`.
`HostRestarts` kills the host's process: its memory is gone, the operating system has
thrown away some of the lines that were waiting (a prefix), and a call under way counts
as one that gave up, because its answer may reach the next process. `Exit` is the exit
status, "traceback" the `TypeError` that `cmd_get` ends in without a payload.

**A call and its bytes.** A text is a sequence of code points and a port carries bytes.
`SerialCall` writes one command, cuts it into lines as the board's server (at line
feeds) and as `LoopbackTransport.write` (with `splitlines`) do, and looks at which
frames come out, of the whole command and of the command with any one byte damaged
(`HeardOrRefused`, with the refusal that `_verb_of_broken_line` leads to). A text that
was cut is a function from where its pieces begin to the pieces (`Pieces`); a decoded
text is put together of what each of its bytes contributes (`CharsAt`): a character, a
replacement character, or nothing inside of a whole character. `Decode` is Python's for
the bytes that can occur, ASCII and the characters that begin with 225 to 236, and
`WireAssumption` keeps the damaged bytes to those.
The answer is a JSON line with one character of three bytes and the
acknowledgement, up to one byte of it damaged. It arrives in bursts. `Look` reads
`in_waiting`, `Read` returns that many bytes or waits for one; between the two more may
arrive. `Needed` says after how many bytes the acknowledgement can be read, by which the
mapping to `SendLoop` defines when the answer was complete. `SendLoop` knows neither
bytes nor frames: only looks, reads and a clock.

**Queue.** `pending` is a Python dict: overwriting a key keeps its place. The worker is
not in the repository; `QueueSession` takes the one the queue's documentation describes
(drain, send one after the other, complete each) and marks it external. A command may
fail with or without having taken effect. `TakesEffect` is the board's side: SET and
RESET change the running settings (`After`), SAVE stores what they are then. Three
histories say what the properties compare with: `wanted` is what the commands would leave
one after the other as submitted; `overtaken` are the keys set anew while their waiting
command has a RESET behind it; `since` is, for each SAVE that waits or is being sent and
each key, what the key would hold at the press and every value set while the SAVE waited.
So SET v1, SAVE, SET v2 within one drain stores v2, newer than the press:
`SaveStoresNoOlder` allows that and nothing older. It speaks of each setting by itself:
with two settings, what is stored may combine values that were never wanted at one moment.

**Heartbeat window.** `Tick` is `tick`; both drivers call it last. In the server all
commands of an iteration are judged at the time of the iteration before. On the
loopback a write is judged at the time of the last pump, so at the end of an idle time
it is old by all of it.

**Board and host on the loopback.** `Board` puts the handlers between the two: each
first looks at the mode, then calls the store. `tick` uses the period and the channels
that the commands before it have left, so `BoardTick` reads the primed settings. A
`send` on the loopback is one step, because the write feeds the board and the first pump
finds the answer. `schema` is a `ConfigSchema` with the values a caller knows: from the
catalogue, from `GET`, after an OK for `SET` what `validate` returned, after an OK for
`RESET` the defaults. `last` and `hbAt` are history.

## 3. Runs

| Run | Question | Bounds, and why they suffice |
|---|---|---|
| `config_store` | Does any order of writes, saves, crashes, edits and boots break the store? | two channels, data rates and periods 30, 60 and 100, the 5 V rail, five foreign files (a rail off, an infeasible combination, values out of range, missing and unknown keys, a wrong type) beside every one the store writes. At 60 samples per second two channels of period 30 exceed the capacity together and not alone; at 30 one does. States that differ in `reply` alone are one (`MCView`): no action reads it, and `RefusedLeavesNoTrace` reads it after the step only. |
| `link_reboots` | What does the tracker report when the board reboots? | circle of 16, tolerance 8, plausible gap 3, run of 3 as in the code; 12 numbers, 6 losses up to 5 in a row, 3 reboots, replies of every type at any moment: the gap is exceeded, a reboot falls into a run of another, the counter passes its old value again. The proportions are the code's (gap < tolerance = half the circle). |
| `link_wraps` | Is the report exact around the wrap? | same circle, 8 losses, no bound on the counter |
| `queue` | Are results lost, commands starved, values reordered? | one setting with three values, two button tags for SAVE and RESET, one uncollected result: a RESET and a SAVE, or two of either, wait behind one setting, and a value is told from the factory's and from a later one |
| `service` | Does a call get its own answer, payload, catalogue, and does the tool say so? | three commands, one record, one fault (line lost, line damaged, host restarted), a catalogue of two lines and its end. Three commands make a call whose predecessor's predecessor timed out. |
| `serial_server` | How far does the window shift under a slow loop? | timeout 6, iteration at most 2, clock to 13: two timeouts |
| `loopback` | The same for an idle host; and do host and board agree on the settings? | the code's 3000 ms, idle at most 1500 and clock to 6000 in steps of 1500: two timeouts. One channel; an item of every type with values at both edges of its range, non-finite and non-numeric texts, a period and a channel that change the output. |
| `serial_call` | Is every command one line, every answer in time taken, every damaged one refused, every call ended? | every argument of up to two of twelve characters that mean something to the framing; any byte of the answer or of the command damaged into six others, or none; bursts that end inside the wide character, behind the JSON line, before and at the last byte. Timeout 3, pump at most 2, sleep at most 1, clock to 7: past the latest end, 6. |

Four runs show where the code does something else than it says (`findings` in
`PROJECT.json`):

* `loopback_idle`: a heartbeat after an idle time longer than the timeout does not open
  CONFIG mode on the loopback;
* `link_unwrapped`: the board's counter does not wrap, and the host refuses every record
  past the uint32 range;
* `queue_reset`: a SET resubmitted after a RESET is sent before it (two settings, three
  values);
* `service_late`: a late acknowledgement of the same verb is taken for the new call's.

The properties of the passing runs are stated so that they hold in spite of these:
`HeartbeatOpensConfig` under an idle time below the timeout, `OnlyResetOvertakes` with
the factory value where a RESET was overtaken, `AnswersMatch` unless a call with the same verb timed out before.

Definitions whose comment begins with *Mutant* are plausible bugs. Each property of a
passing run has one in `PROJECT.json` that breaks it when it replaces the definition
named there. No specification uses them.

`service` switches the deadlock check off: with all commands written, all lines read
and no call open, the bounded session has nothing left to do. So does `serial_call`:
its one call ends.

What `serial_call` shows of the code's edges: a character cut by a read is replaced in
a line that is still taken in (`ReadsWhatWasSent` says exactly when), and the loopback
cuts a command at U+0085, U+2028 and U+2029 where the serial server does not
(`OneCallOneLine` names the exception). A command beyond ASCII
may be damaged in one byte and keep its checksum, because the server decodes with
replacement characters before it checks; the comment of `xor_checksum` expects a
mismatch for all. The board refuses such a value all the same. And an argument may
hold the delimiters: with the J of `$CFG,J$H*48` damaged into a line feed, `$H*48` is a
frame that nobody sent. `DamagedCommandRefused` is therefore about plain arguments,
ASCII without `$` and `*`. `ValidatorsAgree` names the one difference of
the validators: the host refuses a read-only setting before it looks at the value. The
docstring of `validate` names specification section 5 for that order, which has it the
other way round.

## 4. Fairness

Two runs check liveness. In `queue`, `FairSpec` assumes weak fairness of the
worker's three steps and of the GUI's collection: the worker is a loop and the
collection a timer, and each step stays enabled until it is taken. Nothing is assumed
of submissions: `EveryTagAnswered` holds against a GUI that resubmits for ever because
a drain takes everything at once.

In `serial_call`, weak fairness of the host's steps in the loop (its thread runs: a
read returns at the latest when the port's timeout ends, a sleep ends) and of the clock.
Nothing is assumed of the board and the line: `EveryCallEnds` holds when nothing ever
arrives. The fairness is stated of what the steps do to the phase (`HostMoves`), which
is the same: in each of the four phases exactly one step of the host is possible and it
changes the phase.

## 5. Proofs

* **`ConfigStoreProofs`**, for every catalogue, coercion and file contents. Assumed
  (`KeyAssumption`, `FileAssumption`, `DefaultAssumption`, `CapacityAssumption`,
  `RoundTripAssumption` in `ConfigStore`, evaluated by TLC for the run's catalogue): the
  defaults are legal and feasible, and a value is read back from its own text. `Feasible`,
  `InterlockHeld` and `CleanMeansDurable` are not inductive alone. The invariant adds that
  also the configuration last saved is feasible and has its locked keys at their
  defaults, and what the file then is; so an interrupted save or a restart can be
  followed through the file. `RestoresOrFlags` is an action property that follows from
  it. So is `RefusedLeavesNoTrace`: `SetEffect` follows a write through its check, and
  giving one item its previous value back restores the whole function only because the
  types hold.
  `StoreImplementsDurableSettings` is the refinement: the stored configuration of
  `DurableSettings` is what a boot would make of the file (`StoredConfig`), and every
  step of the store is one step of the abstract pair or leaves it alone. It rests on
  `SaveBoot` (a legal configuration comes back from its own file) and `StoredLegal`
  (whatever the file holds, a boot makes something legal of it). It was first checked
  with TLC for one channel; for the two of `config_store` evaluating the mapping in
  every step is too slow, so no run has it.
* **`TelemetryLinkProofs`.** Type correctness needs nothing but the order of the
  constants. The other theorems assume `CountsUp`: the counter does not wrap, stays a
  plausible gap below the end of the circle, and no burst of losses reaches the
  tolerance. Without it they are false, in the code too: a reboot shortly before the
  wrap looks like a wrap with losses. The invariant `LinkInv` has four parts:
  `Positions` (tracker, latest record and board never further apart than was just
  lost), `Accounting` (what may still be reported is lost already), `CatchingUp` (a
  tracker that is ahead has seen each fresh record go backwards, and compares with the
  latest) and `Restarts` (whenever the tracker is ahead of the board there is a reboot
  it has not reported).
  `ExactAccounting` assumes `Continuous` instead: no reboot, no reconnection, no burst
  longer than the plausible gap, and a counter that wraps or stays inside the circle. A
  longer burst is a discontinuity, which the tracker does not count as missing records.
  Its invariant says that the tracker is at the latest record and the board ahead of it
  on the circle by exactly the records lost since (`InStep`), so that `Delta` of the next
  record is the burst plus one, also across the wrap.
* **`SerialServerProofs`**, for every timeout and iteration length. The invariant says
  by how much the board's time lags inside and between iterations (`Lag`) and that a
  heartbeat is stamped by at most two iterations too early (`Stamp`).
* **`SendLoopProofs`**, for every timeout, pump and sleep. Neither `WaitBounded` nor
  `AnsweredInTime` is inductive. The invariant ties the phase to the clock: a sleep
  begins before the deadline, so the look after it begins at most one sleep late; and an
  answer that the last look did not see became complete after that look began.
* **`SerialCallProofs`**, for every set of arguments, every set of bytes a damaged byte
  may become, every set of bursts and every timing; for the one command and the one
  answer of the module. Assumed (`WireAssumption`, evaluated by TLC on the run): the
  arguments are texts of characters of at most three bytes, the damaged bytes are among
  those `Decode` knows, and no burst ends outside of the answer. It goes up in layers,
  each stated as lemmas:
  * induction over the numbers, from the well-foundedness of `<` (`Induction`), from it
    the least and greatest elements that `Min` and `Max` choose, and what `FlattenSeq`
    makes of sequences: a function of partial results exists, is the only one, and splits
    where the sequence splits;
  * `Encode` and `Decode` of two halves are those of the whole where no character goes
    across (`DecodeConcat`), and a lone byte beyond ASCII is one replacement character;
  * `Pieces`, lines and `Strip` by where the separators are; a text read in two parts
    gives the lines of the first, and those of what the first left together with the
    second (`LinesMore`);
  * a checksum tells two texts apart that differ in one character of ASCII, or where one
    has the replacement character instead (`AsciiDamageShows`, `ReplacementShows`): one
    of the eight parities differs;
  * `BuiltIsRead`: what `build_line` makes of any payload without control characters,
    `parse_line` reads. `DamagedLine`: whatever one character of such a line becomes, a
    frame in it is the payload's. From these follow `OneCallOneLine` and
    `DamagedCommandRefused`, for arguments of any length.

  The other properties rest on the invariant `CallInv`, of which none is a part by
  itself: `InTime` (the phase and the clock), `Arrival` (how much has come, and that the
  answer counts as complete exactly when `Needed` bytes have), `Unseen` (an answer the
  last look did not see came after it) and `TakenIn`, which says of the buffer what it is
  at every point between two reads (`Fits`): before the line feed of the JSON line it
  holds nothing but bytes of that line; after it, what is left of the bytes behind it,
  however they were cut; and if the damage took this line feed, everything so far, which
  begins with a brace and can hold no frame. So a frame is found exactly when enough
  bytes have been read (`ReadIs`, `NeededIs`). `AcceptedWasSent`, `AnsweredInTime` and
  `WaitBounded` follow, and the refinement: each step is one of `SendLoop` or none
  (`ImplementsSendLoopHolds`). `ReadsWhatWasSent` needs `Recorded` as well: what the first
  n bytes of an undamaged JSON line have been decoded to (`Part`), with its wide
  character whole or, once a read ended inside it, without.
* **`QueueSessionProofs`**, for every set of settings and values, every number of
  automatic tags and every bound on the results. Assumed (`SessionAssumption`): settings
  and automatic tags are different, and the buttons send SAVE or RESET. The invariant
  `QueueInv` adds to the types that no two commands that wait have the same tag, and no
  two that the worker holds; without it a tag could stand for two commands in
  `in_flight`. `EveryCompletionTaken`, an action property, follows: `complete` never
  finds a tag unknown. For the values the invariant is `Promise`, about the line of
  commands still to be sent (`Line`: the rest of the batch, then what waits). The last
  command of the line that sets a key decides what the key will hold (`Leads`). As long as
  nothing failed, the whole line leads each key to what is awaited of it
  (`EndsAwaited`), the line before each SAVE leads it to a value of `since`
  (`SavesWanted`), and the SAVE just sent has stored one (`SavedWanted`). A drain and a
  completion leave the line as it is (`LineMoves`), a send takes off its head
  (`LeadsTail`), a new tag goes to its end (`LeadsLast`, `LeadsBefore`), and a tag that
  waits keeps its place (`SubmitLine`, `LeadsAlike`), which is where a RESET behind it and
  a SAVE behind it come in. `OnlyResetOvertakes` and `SaveStoresNoOlder` follow.
* **`LoopbackProofs`**, for every part of the catalogue of `default_store`, every set of
  texts and attempts and every idle time. Assumed: the settings are of the catalogue and
  the texts of the forms of `ConfigItems` (`BoardAssumption`), and attempts are pairs of
  the two. The invariant `SessionInv` has the store's shape (`StoreInv`), the lag of the
  board's time and of its heartbeat stamp behind the clock (`Lag`), the host's picture
  (`Picture`: the schema is what a new catalogue would say, which is more than the values
  `HostPictureTrue` compares, and which the next `validate` needs).
  `ValidatorsAgree` rests on lemmas about every form of item and text
  (`AcceptanceAlike`, `VerdictsAgree`): what the store and the schema accept. The length
  of a numeral is the model's `LengthOf`, so the theorem says nothing of longer ones.
  `HeartbeatOpensConfig` has the hypothesis that no idle time exceeds the timeout, as in
  `loopback`; `loopback_idle` refutes it without.
* **`ServiceSessionProofs`**, for every finite catalogue, every set of calls and every
  number of commands, records and faults. Assumed (`SessionAssumption`): the catalogue is
  finite and its end is not one of its entries, and `None` is neither a number nor a
  command. None of the properties is inductive: each speaks of the last result only,
  and what spoils a result is under way long before. The invariant follows the answers
  back along the line:
  * `InOrder`: the numbers grow from the acknowledgements in the host through the lines in
    transit to the commands the board has not read, and an acknowledgement is the last
    line of its answer. So once the answer to a call is there, nothing else is under way.
  * `OnlyOwn` and `OwnPayloads`: of a verb no call with which was given up nothing is
    under way but the command of the present call and its answer; of payloads and
    catalogues, which bear no verb, this holds as long as no call at all was given up.
  * `Intact` and `ValueFirst`: without a fault no command is damaged, and an OK to GET
    comes behind the value; `CliTellsTruth` needs them to exclude the traceback.
  * `TelemetryOrder`: the records in the host and then those in transit are in order.
  * `DamageCounted`: a damaged line is counted once, by the host that takes it in. The
    type of `corruptTotal` rests on it.

  What a loss, a damaged line and a restart have in common is stated once: what is left is
  an increasing selection of what was there, with some of it damaged (`Thinned`,
  `Spoilt`, `SpoiltCommands`), and one lemma says what such a step keeps
  (`LossKeepsExchange`, and `GivingUpKeepsExchange` when a call ends with it).

The inductive invariants were checked with TLC on the constants of a run before they were
proved.

Only model-checked, and why:

* `EveryTagAnswered` and `EveryCallEnds`: liveness under fairness.

## 6. Plan

Done, in this order: store, loss accounting, queue, service, board with its two drivers;
then framing and the serial call with its abstract loop, the whole board with the host's
validator, the command line tool with restarts, and the abstract store; then the proofs
of every invariant, action property and refinement that a run checks. Next:

1. an abstract queue (settings with their last values) that `QueueSession` implements
   where it does, proved along `Promise`;
2. an abstract call (one command, one answer or none) that `ServiceSession` implements
   while no call has been given up;
3. two calls in a row over the bytes of `SerialCall`, with what the first leaves in the
   buffer.

## 7. Not modelled

* What a record holds: the field mask, unit conversion and rounding of `telemetry.py`
  (one value made of another, without state), and in `parse_record` the checks of the
  version, the fields and their types: no part of `src/` sends an ill-typed record. Its
  check of the number is in `TelemetryLink`.
* The list of results of `CommandQueue` and the list of records of `BoardService` have no
  bound in the code; the models bound them.
* A store without a path, which forgets on purpose, is excluded from `CleanMeansDurable`.
* An NDJSON line with a damaged digit: nothing in the format tells it from a sound one.
* A character of a command cut by the server's read, and the serial exceptions that end
  the server's loop.
* `list`, `fields` and all printing of the command line tool: layout.
* Widgets and theme: presentation. Texts, labels and groups of `ConfigSchema` likewise.
* `BoardService.mode` on a serial line: nothing in the repository decides by it.
* `received_total` and `duplicate_count`: counted and never read by the tracker.
