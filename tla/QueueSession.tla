---------------------------- MODULE QueueSession ----------------------------
(***************************************************************************)
(* The command queue between its two threads.  The GUI turns widgets into  *)
(* SET commands tagged with their key, and buttons into SAVE or RESET      *)
(* commands without a tag, which get one of their own.  The worker is not  *)
(* in the repository: it is what the queue is documented for, a loop that  *)
(* drains the queue, sends one command after the other and completes each. *)
(*                                                                         *)
(* The board may refuse a command, and a command may take effect though    *)
(* its answer is lost.  SAVE stores the settings the board has then.       *)
(***************************************************************************)
EXTENDS CommandQueue

CONSTANTS
    Key, Value, Factory,   \* settings, their values, the value RESET restores
    AutoTag,               \* tags of the commands submitted without one
    Actions,               \* the verbs the buttons send, among SAVE and RESET
    MaxResults             \* bound: results the GUI leaves uncollected

ASSUME SessionAssumption == Factory \in Value /\ Key \cap AutoTag = {}
                            /\ Actions \subseteq {"SAVE", "RESET"}
                            /\ MaxResults \in Nat \ {0}

VARIABLES
    batch,        \* worker: the drained commands not completed yet
    outcome,      \* worker: of the first of them, or "unsent"
    board,        \* [Key -> Value]: the running settings of the board
    stored,       \* [Key -> Value]: the settings in its configuration file
    wanted,       \* history: the settings after the commands as submitted
    overtaken,    \* history: the keys set anew in a place before a RESET
    since,        \* history: for the SAVE of a tag, what was wanted of each
                  \* key when it was pressed and set while it waited
    failed        \* history: did some command fail?

boardVars   == <<board, stored>>
historyVars == <<wanted, overtaken, since>>
vars == <<queueVars, batch, outcome, boardVars, historyVars, failed>>

Init == /\ QueueInit
        /\ batch = <<>> /\ outcome = "unsent"
        /\ board = [k \in Key |-> Factory] /\ stored = board
        /\ wanted = board /\ overtaken = {}
        /\ since = [t \in AutoTag |-> [k \in Key |-> {}]]
        /\ failed = FALSE

\* The running settings after a command.
After(cmd, settings) ==
    CASE cmd.verb = "SET"   -> [settings EXCEPT ![cmd.tag] = cmd.value]
      [] cmd.verb = "RESET" -> [k \in Key |-> Factory]
      [] cmd.verb = "SAVE"  -> settings

TakesEffect(cmd) ==
    /\ board' = After(cmd, board)
    /\ stored' = IF cmd.verb = "SAVE" THEN board ELSE stored

SetCommand(k, v)     == [verb |-> "SET", tag |-> k, value |-> v]
ActionCommand(a, t)  == [verb |-> a, tag |-> t, value |-> Factory]

\* Does the command of a key wait before a RESET?
BeforeReset(key) ==
    \E i, j \in DOMAIN pending :
        i < j /\ pending[i].tag = key /\ pending[j].verb = "RESET"

WaitingSaves == {pending[i].tag : i \in {j \in DOMAIN pending :
                                            pending[j].verb = "SAVE"}}

Submits(cmd) ==
    /\ Submit(cmd)
    /\ wanted' = After(cmd, wanted)
    /\ UNCHANGED <<batch, outcome, boardVars, failed>>

\* What a key holds once the commands submitted so far are done.
Awaited(key) == IF key \in overtaken THEN Factory ELSE wanted[key]

GuiSet == \E k \in Key, v \in Value :
    /\ Submits(SetCommand(k, v))
    /\ overtaken' = IF BeforeReset(k) THEN overtaken \cup {k} ELSE overtaken \ {k}
    /\ since' = [t \in AutoTag |-> IF t \in WaitingSaves
                                   THEN [since[t] EXCEPT ![k] = @ \cup {v}]
                                   ELSE since[t]]

\* Counted tags never repeat: any tag no command or result still carries will do.
TagsInUse == PendingTags \cup TagsOf(batch) \cup inFlight \cup TagsOf(results)

GuiAct == \E a \in Actions, t \in AutoTag \ TagsInUse :
    /\ Submits(ActionCommand(a, t))
    /\ overtaken' = IF a = "RESET" THEN {} ELSE overtaken
    /\ since' = IF a = "SAVE"
                THEN [since EXCEPT ![t] = [k \in Key |-> {Awaited(k)}]]
                ELSE since

GuiCollect == /\ results # <<>>
              /\ TakeResults
              /\ UNCHANGED <<batch, outcome, boardVars, historyVars, failed>>

WorkerDrains ==
    /\ batch = <<>> /\ pending # <<>>
    /\ DrainPending
    /\ batch' = pending
    /\ UNCHANGED <<outcome, boardVars, historyVars, failed>>

WorkerSends ==
    /\ batch # <<>> /\ outcome = "unsent"
    /\ \/ outcome' = "ok" /\ TakesEffect(Head(batch)) /\ UNCHANGED failed
       \/ outcome' = "failed" /\ failed' = TRUE
          /\ (TakesEffect(Head(batch)) \/ UNCHANGED boardVars)
    /\ UNCHANGED <<queueVars, batch, historyVars>>

WorkerCompletes ==
    /\ batch # <<>> /\ outcome # "unsent"
    /\ Len(results) < MaxResults
    /\ Complete(Head(batch).tag, outcome = "ok")
    /\ batch' = Tail(batch)
    /\ outcome' = "unsent"
    /\ since' = [t \in AutoTag |-> IF t = Head(batch).tag
                                   THEN [k \in Key |-> {}] ELSE since[t]]
    /\ UNCHANGED <<boardVars, wanted, overtaken, failed>>

Next == GuiSet \/ GuiAct \/ GuiCollect
        \/ WorkerDrains \/ WorkerSends \/ WorkerCompletes

Spec == Init /\ [][Next]_vars

\* The worker loops, the GUI's timer collects; nobody has to submit anything.
FairSpec == /\ Spec
            /\ WF_vars(WorkerDrains) /\ WF_vars(WorkerSends)
            /\ WF_vars(WorkerCompletes) /\ WF_vars(GuiCollect)

-----------------------------------------------------------------------------
(* Properties *)

Command == [verb : {"SET"}, tag : Key, value : Value] \cup
           [verb : Actions, tag : AutoTag, value : {Factory}]

\* The types of the variables.
TypeOK ==
    /\ pending \in Seq(Command) /\ batch \in Seq(Command)
    /\ inFlight \subseteq Key \cup AutoTag
    /\ results \in Seq([tag : Key \cup AutoTag, ok : BOOLEAN])
    /\ outcome \in {"unsent", "ok", "failed"}
    /\ board \in [Key -> Value] /\ stored \in [Key -> Value]
    /\ wanted \in [Key -> Value] /\ overtaken \subseteq Key
    /\ since \in [AutoTag -> [Key -> SUBSET Value]]
    /\ failed \in BOOLEAN

\* The worker's completion of every command it holds will be taken: the queue
\* expects exactly the tags the worker still holds, each once, though the GUI
\* submits the same tags again meanwhile.
NoResultLost ==
    /\ inFlight = TagsOf(batch)
    /\ Cardinality(inFlight) = Len(batch)

\* in_flight counts down to zero exactly when everything submitted is answered.
IdleMeansAnswered == Outstanding = 0 <=> pending = <<>> /\ batch = <<>>

\* Only a RESET can overtake: once everything submitted is answered and
\* nothing failed, the board holds the last value wanted of every setting, and
\* where it does not, the setting took a place before a RESET that waited and
\* holds the factory value.
OnlyResetOvertakes ==
    pending = <<>> /\ batch = <<>> /\ ~failed =>
        \A k \in Key : board[k] = Awaited(k)

\* SAVE stores nothing older than its press: each stored value was wanted when
\* the button was pressed, or was set while the SAVE waited and took a place
\* before it.
SaveStoresNoOlder ==
    batch # <<>> /\ outcome = "ok" /\ ~failed =>
        LET cmd == Head(batch)
        IN cmd.verb = "SAVE" => \A k \in Key : stored[k] \in since[cmd.tag][k]

\* "Only the last value matters": once everything submitted is answered and
\* nothing failed, the board holds what the commands, one after the other as
\* they were submitted, would have left there.
LastValueSurvives ==
    pending = <<>> /\ batch = <<>> /\ ~failed => board = wanted

\* Every command gets an answer, however fast the GUI submits others.
EveryTagAnswered ==
    \A t \in Key \cup AutoTag : t \in PendingTags ~> t \in TagsOf(results)
=============================================================================
