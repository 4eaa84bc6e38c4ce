----------------------------- MODULE MCGateway -----------------------------
(***************************************************************************)
(* Small runs for TLC.  A completion is estimated at 2 and comes back at 1 *)
(* or 3, up to three attempts are made, a search costs 1, is allowed once: *)
(* with a ceiling of 4 two completions fit side by side, and either one's  *)
(* overrun takes the run past it.  With the tight ceiling of 3 one fits    *)
(* beside a search, but not beside another.                                *)
(***************************************************************************)
EXTENDS Gateway

CONSTANTS r1, c1, c2

MCOneRun   == {r1}
MCOneCall  == {c1}
MCTwoCalls == {c1, c2}

MCMaximumRcc         == [r \in Runs |-> 4]
MCTightRcc           == [r \in Runs |-> 3]
MCMaximumRequests    == [r \in Runs |-> 3]
MCTwoRequests        == [r \in Runs |-> 2]
MCMaximumSearchCalls == [r \in Runs |-> 1]

MCEstimates == {2}
MCCharges   == {1, 3}
MCDearer    == {3}
=============================================================================
