--------------------------- MODULE DurableSettings ---------------------------
(***************************************************************************)
(* What the setting store of the board (tools/simulator/config_store.py)   *)
(* promises its clients: a running configuration and a stored one, both    *)
(* legal at all times, where a start brings back what is stored and        *)
(* nothing but a save, a save cut short or somebody else's hand on the     *)
(* file changes that.                                                      *)
(***************************************************************************)
CONSTANTS Key,
          Legal,      \* the configurations the board may run with
          Factory     \* the one it has when nothing was saved

VARIABLES up, running, stored

vars == <<up, running, stored>>

Init == up = FALSE /\ running = Factory /\ stored = Factory

Start == /\ ~up /\ up' = TRUE
         /\ running' = stored
         /\ UNCHANGED stored

\* One setting changes, whatever was refused before.
Change == /\ up /\ UNCHANGED <<up, stored>>
          /\ \E key \in Key : \A other \in Key \ {key} : running'[other] = running[other]
          /\ running' \in Legal

Reset == up /\ UNCHANGED <<up, stored>> /\ running' = Factory

Save == up /\ stored' = running /\ UNCHANGED <<up, running>>

\* A stop in the middle of a save may have stored the new configuration, kept
\* the old one, or lost both.
Stop == /\ up /\ up' = FALSE
        /\ running' = Factory
        /\ stored' \in {stored, running, Factory}

\* The file is edited while nobody runs.
Edit == ~up /\ stored' \in Legal /\ UNCHANGED <<up, running>>

Next == Start \/ Change \/ Reset \/ Save \/ Stop \/ Edit

Spec == Init /\ [][Next]_vars
=============================================================================
