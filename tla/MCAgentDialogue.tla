--------------------------- MODULE MCAgentDialogue ----------------------------
(***************************************************************************)
(* Values for the constants of AgentDialogue in the runs of TLC.           *)
(***************************************************************************)
EXTENDS AgentDialogue, TLC

Says(form, given, cues) ==
  [given |-> given, cues |-> cues, form |-> form, digits |-> None, length |-> "other"]

SaysNumber(length, v) ==
  [given |-> Nothing, cues |-> {}, form |-> "words", digits |-> v, length |-> length]

TwoValues == {1, 2}
Two       == {2}

(* A first request, the rest of it, corrections that the patterns find or   *)
(* do not, one in which they also find a name, and numbers.                 *)
SevenMessages ==
  {Says("pattern", "name" :> 1 @@ "amount" :> 1, {"name", "amount"}),
   Says("pattern", "card" :> 1 @@ "phone" :> 1, {"card", "phone"}),
   Says("words", "amount" :> 2, {"amount"}),
   Says("pattern", "amount" :> 1, {"name", "amount"}),
   Says("words", "phone" :> 2, {}),
   SaysNumber("card", 2),
   SaysNumber("four", 1)}

FourPayloads ==
  {[status |-> "unknown",   ishandover |-> "false",  slots |-> "card" :> 1],
   [status |-> "unknown",   ishandover |-> "absent", slots |-> Nothing],
   [status |-> "running",   ishandover |-> "absent", slots |-> "phone" :> 2],
   [status |-> "queued",    ishandover |-> "absent", slots |-> "card" :> None]}
=============================================================================
