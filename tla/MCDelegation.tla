----------------------------- MODULE MCDelegation -----------------------------
(* Delegation over one of the small fleets, chosen by the configuration.    *)
EXTENDS Delegation, SmallFleets
=============================================================================
