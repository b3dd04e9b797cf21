---------------------------- MODULE MCVerifyCli -----------------------------
(***************************************************************************)
(* Two commands at a time, and any deployment at any URL (VerifyCli). What *)
(* one command at a time does is looked at in MCAttestation.               *)
(***************************************************************************)
EXTENDS VerifyCli, TLC

Processes == Permutations(Proc)

\* The release a pinned user asks for is the one before the upgrade.
MCRelease == {v \in Deployment : v.app = "v1"}
=============================================================================
