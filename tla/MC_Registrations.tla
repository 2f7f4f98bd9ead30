-------------------------- MODULE MC_Registrations --------------------------
(* Model-checking instance of Registrations: three validators, two fee    *)
(* recipient addresses and two relays, with symmetry over relays and over *)
(* addresses.                                                             *)
EXTENDS Registrations, TLC

CONSTANTS a1, a2, r1, r2

MCAddresses == {a1, a2}
MCRelays == {r1, r2}
MCSymmetry == Permutations(MCRelays) \cup Permutations(MCAddresses)
=============================================================================
