-------------------------- MODULE MCMasternodeSync --------------------------
(***************************************************************************)
(* One place in vNodes whose connection is renewed at any moment: each     *)
(* renewal is the next peer that has not been asked.  (The invariants were *)
(* also checked with a second place, taken by a peer of an old version.)   *)
(***************************************************************************)
EXTENDS MasternodeSync
=============================================================================
