---------------------------- MODULE MCExecution ----------------------------
(***************************************************************************)
(* A field for TLC.  The owner's uid 0, uid 1 and its copy uid 2 commit to *)
(* the same bytes; uid 1 gives a management key, the others runtime keys.  *)
(***************************************************************************)
EXTENDS Execution

MCUids         == 0 .. 2
MCManagement   == {1}
MCOwner        == {0}
MCDigest       == [u \in MCUids |-> "bytes"]
MCChallenges   == 1 .. 2
MCReference    == {REFERENCE_UID}
=============================================================================
