---------------------------- MODULE MCReserveList ----------------------------
(* Four contracts for a list of three, an address that is no contract and  *)
(* the zero address; the widths keep the proportions of 128, 128, 256 and  *)
(* 256.                                                                    *)
EXTENDS ReserveList, TLC

CONSTANTS a1, a2, a3, a4, eoa, zero, u1, u2

MCContracts == {a1, a2, a3, a4}
MCAddresses == MCContracts \cup {eoa, zero}
MCUsers == {u1, u2}

(* Nothing tells contracts, or users, apart. *)
MCSymmetry == Permutations(MCContracts) \cup Permutations(MCUsers)
=============================================================================
