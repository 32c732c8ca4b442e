------------------------------ MODULE MCConvTx ------------------------------
(***************************************************************************)
(* A block takes one or two units of air and the queue holds three: two    *)
(* slow blocks overfill it, a slow and a fast one fill it exactly, and     *)
(* three fast blocks meet the bound on blocks.                             *)
(***************************************************************************)
EXTENDS ConvTx

MCAirs == {1, 2}

=============================================================================
