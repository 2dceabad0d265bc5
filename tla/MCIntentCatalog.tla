--------------------------- MODULE MCIntentCatalog ----------------------------
(***************************************************************************)
(* Values for the constants of IntentCatalog in the runs of TLC.           *)
(***************************************************************************)
EXTENDS IntentCatalog

CONSTANTS transfer, help, url1, url2

Intent(url, fallback, priority, status) ==
  [field    |-> [f \in Fields |-> url],
   status   |-> status,
   fallback |-> fallback,
   priority |-> priority]

TwoCodes  == {transfer, help}
OneField  == {"agent_url"}
TwoUrls   == {url1, url2}
Ranks     == {1, 2}

\* An intent moves to another agent, or becomes the fallback of the others.
TwoPayloads == {Intent(url2, FALSE, 1, "active"), Intent(url1, TRUE, 2, "active")}

OneOfEach == [c \in Codes |-> IF c = transfer THEN Intent(url1, FALSE, 1, "active")
                                              ELSE Intent(url1, TRUE, 2, "active")]

OneDemo == [c \in {transfer} |-> Intent(url1, FALSE, 1, "active")]
=============================================================================
