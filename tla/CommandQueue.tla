---------------------------- MODULE CommandQueue ----------------------------
(***************************************************************************)
(* CommandQueue of host/gui/command_queue.py: the GUI thread submits       *)
(* commands and collects results, the worker thread drains the commands    *)
(* and completes them.  Every operation holds the lock for its whole body, *)
(* so each is one atomic step.                                             *)
(*                                                                         *)
(* A command is a record with a field tag.  pending is a Python dict from  *)
(* tag to command: a sequence with one command per tag, in which a second  *)
(* command of a tag takes the place of the first.                          *)
(*                                                                         *)
(* A definition marked as a mutant is a bug one could write in place of    *)
(* the definition after it; no other definition uses it.                   *)
(***************************************************************************)
EXTENDS Naturals, FiniteSets, Sequences, SequencesExt

VARIABLES
    pending,      \* submitted commands the worker has not drained
    inFlight,     \* the tags of the commands drained and not completed
    results       \* results the GUI has not collected

queueVars == <<pending, inFlight, results>>

QueueInit == pending = <<>> /\ inFlight = {} /\ results = <<>>

TagsOf(cmds) == {cmds[i].tag : i \in DOMAIN cmds}

PendingTags == TagsOf(pending)

\* Mutant: the commands the worker holds are not counted.
OutstandingPending == Len(pending)

\* in_flight: how many commands the GUI still expects an answer for.
Outstanding == Len(pending) + Cardinality(inFlight)

\* Mutant: the command that waits already is kept.
KeepsFirst(cmds, cmd) == cmds

\* Mutant: a command submitted anew waits behind all the others.
MovesToEnd(cmds, cmd) == Append(SelectSeq(cmds, LAMBDA c : c.tag # cmd.tag), cmd)

Overwrite(cmds, cmd) ==
    [i \in DOMAIN cmds |-> IF cmds[i].tag = cmd.tag THEN cmd ELSE cmds[i]]

\* Mutant: a tag submitted anew is no longer expected from the worker.
SubmitReplacesInFlight(cmd) ==
    /\ pending' = IF cmd.tag \in PendingTags THEN Overwrite(pending, cmd)
                                             ELSE Append(pending, cmd)
    /\ inFlight' = inFlight \ {cmd.tag}
    /\ UNCHANGED results

Submit(cmd) ==
    /\ pending' = IF cmd.tag \in PendingTags THEN Overwrite(pending, cmd)
                                             ELSE Append(pending, cmd)
    /\ UNCHANGED <<inFlight, results>>

TakeResults == results' = <<>> /\ UNCHANGED <<pending, inFlight>>

\* Mutant: what is drained is not marked as in flight.
DrainUnmarked == pending' = <<>> /\ UNCHANGED <<inFlight, results>>

\* Mutant: the commands are marked as in flight, not their tags.
DrainMarksCommands ==
    /\ inFlight' = inFlight \cup {pending[i] : i \in DOMAIN pending}
    /\ pending' = <<>>
    /\ UNCHANGED results

\* The caller gets the old value of pending.
DrainPending ==
    /\ inFlight' = inFlight \cup PendingTags
    /\ pending' = <<>>
    /\ UNCHANGED results

Complete(tag, ok) ==
    /\ IF tag \in inFlight
       THEN /\ inFlight' = inFlight \ {tag}
            /\ results' = Append(results, [tag |-> tag, ok |-> ok])
       ELSE UNCHANGED <<inFlight, results>>
    /\ UNCHANGED pending
=============================================================================
