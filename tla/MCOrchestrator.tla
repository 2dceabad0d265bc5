--------------------------- MODULE MCOrchestrator ---------------------------
(***************************************************************************)
(* Values for the constants of Orchestrator in the runs of TLC.            *)
(***************************************************************************)
EXTENDS Orchestrator

CONSTANTS balance, transfer, fallback

TwoIntents == {balance, transfer}

\* The balance query is dispatched before the transfer, as in demo_intents.py.
DemoPriority == [i \in AllIntents |->
                   IF i = balance THEN 2 ELSE IF i = transfer THEN 1 ELSE 0]

Nobody   == {}
Everyone == Requests
\* The one between the others: it may decide what the first proposed, and the
\* third meets what it left.
TheSecond == {2}
=============================================================================
