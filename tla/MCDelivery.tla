----------------------------- MODULE MCDelivery -----------------------------
(***************************************************************************)
(* A frame of two blocks, a frame of three blocks with a parity (two of    *)
(* the three are more than 60 %, so it may be handed over in part), a      *)
(* phantom, and a frame of one block two ids ahead of a cursor that is     *)
(* stuck at the frame of three.                                            *)
(***************************************************************************)
EXTENDS Delivery

HoldsV == {1}
DataV == [i \in 0 .. 3 |-> <<2, 3, 0, 1>>[i + 1]]
ParityV == [i \in 0 .. 3 |-> <<0, 1, 0, 0>>[i + 1]]

=============================================================================
