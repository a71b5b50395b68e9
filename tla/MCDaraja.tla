------------------------------- MODULE MCDaraja -------------------------------
(***************************************************************************)
(* Instances of DarajaAdapter for TLC.                                     *)
(***************************************************************************)
EXTENDS DarajaAdapter

=============================================================================
