------------------------------ MODULE MCSignal ------------------------------
(***************************************************************************)
(* Small instances of Signal for TLC.                                      *)
(***************************************************************************)
EXTENDS Signal, TLC

MCInstalls == {0} \X {"custom"}
=============================================================================
