------------------------- MODULE MCChatHistory -------------------------
(* Parameters of the runs of ChatHistory: the ids of calls are alike.     *)
EXTENDS ChatHistory

IdSymmetry == Permutations(Ids)
========================================================================
