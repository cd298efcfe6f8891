------------------------- MODULE MCChallengePrompt -------------------------
(***************************************************************************)
(* ChallengePrompt for TLC: its constants are numbers, given in the cfg.   *)
(***************************************************************************)
EXTENDS ChallengePrompt
=============================================================================
