----------------------------- MODULE MCReadBack -----------------------------
(***************************************************************************)
(* Numbers modulo 6 (8 with soft buffers), half a turn, jumps and gaps     *)
(* scaled with it. Block 3 is a parity row; where the base layer is sent   *)
(* it takes block 7, whose NACK then meets the number of block 1. One soft *)
(* buffer, a capture of two frames, a restart of the transmitter; two      *)
(* messages, each of at most two entries; two channels and two widths; two *)
(* saves at a time and one change of the settings.                         *)
(***************************************************************************)
EXTENDS ReadBack
MCRows == {3}
MCBase == {7}
=============================================================================
