--------------------------- MODULE MCPictureRate ---------------------------
(***************************************************************************)
(* Four rungs; two cameras, of which the file carries the address of one,  *)
(* with different bitrates and ranges.                                     *)
(***************************************************************************)
EXTENDS PictureRate, TLC
MCNeed == 0 :> 0 @@ 1 :> 10 @@ 2 :> 20 @@ 3 :> 40
MCOwn == "cam1" :> 2 @@ "cam2" :> 1
MCAccepts == "cam1" :> <<2, 3>> @@ "cam2" :> <<1, 3>>
=============================================================================
