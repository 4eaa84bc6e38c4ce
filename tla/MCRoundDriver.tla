--------------------------- MODULE MCRoundDriver ---------------------------
(***************************************************************************)
(* A day of five blocks for TLC.  As in the season, the next round's salt  *)
(* window closes exactly where this round's weights window opens, its pack *)
(* is made and committed inside that weights window, the commitment margin *)
(* is a gap, and the weights window stays open to the end of the epoch.    *)
(* The reveal is at offset 1, so that a sign it is used with matters.      *)
(* Run prompt has a sixth block, in the execution window: an EXECUTE then  *)
(* lasts longer than the delay, and ends just before the next round opens. *)
(***************************************************************************)
EXTENDS RoundDriver

MCSubmissionClose == -4
MCSaltCommit      == -3
MCRandomness      == -2

(* Round r is live from block 5r - 4 to block 5r + 4; the validator is     *)
(* started in the salt window of round 1.  (In prompt: from 6r - 4 to      *)
(* 6r + 5, and it is started just before.)                                 *)
MCOneRound  == {1}
MCTwoRounds == 1 .. 2
MCStart     == {1}
=============================================================================
