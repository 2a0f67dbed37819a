----------------------------- MODULE MarkonCli -----------------------------
(***************************************************************************)
(* The command line tool (tools/cli/markon_cli.py): what a command that    *)
(* makes one call of the service exits with and prints.  The number of a   *)
(* payload stands for the value it holds.                                  *)
(*                                                                         *)
(* A definition marked as a mutant is a bug one could write in place of    *)
(* the definition after it; no other definition uses it.                   *)
(***************************************************************************)
EXTENDS BoardService

\* Mutant: get prints the payload without looking at the acknowledgement.
PrintsUnchecked(outcome) == outcome.sub = "GET" /\ ~outcome.raised

\* get subscripts last_payload when the acknowledgement says OK.
Prints(outcome) == outcome.sub = "GET" /\ ~outcome.raised /\ outcome.ok

\* 0: done; 1: refused by the board; 2: a ProtocolError, which main reports.
\* An exception main does not expect ends the process with a traceback: there is
\* no payload to subscript.
Exit(outcome) ==
    IF outcome.raised THEN "2"
    ELSE IF Prints(outcome)
         THEN IF outcome.payload = None THEN "traceback" ELSE "0"
    ELSE IF outcome.ok THEN "0" ELSE "1"

Printed(outcome) == outcome.payload
=============================================================================
