------------------------------ MODULE MCSyncMuc ------------------------------
(***************************************************************************)
(* Instances of SyncMuc for TLC.                                           *)
(***************************************************************************)
EXTENDS SyncMuc

CONSTANTS alice, bob, carol

InputABAC == << alice, bob, alice, carol >>
InputABACABA == << alice, bob, alice, carol, alice, bob, alice >>
=============================================================================
