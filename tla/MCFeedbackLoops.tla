--------------------------- MODULE MCFeedbackLoops ---------------------------
(***************************************************************************)
(* Two repairs before a keyframe, and survival mode after two keyframes in *)
(* a row that nothing answers.  Four rungs: the first, second, fourth and  *)
(* sixth of the code's table; a probed rung gets five blocks a window, or, *)
(* in a stream of few blocks, three, of which four windows would be needed *)
(* to end the repeat step.                                                 *)
(***************************************************************************)
EXTENDS FeedbackLoops
Th == <<0, 40, 105, 175>>
We == <<4, 6, 13, 20>>
ThreshV == [r \in 0..3 |-> Th[r + 1]]
WeightV == [r \in 0..3 |-> We[r + 1]]
Upto(n, x) == [r \in 0..3 |-> IF r <= n THEN 100 ELSE x]
Chan(snr, stream, probe, rep, reports) ==
  [snr |-> snr, stream |-> stream, probe |-> probe, rep |-> rep, reports |-> reports, blocks |-> 5]
Clear == Chan(260, Upto(3, 0), Upto(3, 0), TRUE, TRUE)
Poor  == Chan(5, [Upto(-1, 0) EXCEPT ![0] = 60], [Upto(-1, 0) EXCEPT ![0] = 60], TRUE, TRUE)
Hit   == Chan(260, Upto(-1, 60), Upto(-1, 60), TRUE, TRUE)
Jammed == Chan(260, [r \in 0..3 |-> 10], [r \in 0..3 |-> 10], TRUE, TRUE)
Lure  == Chan(260, [Upto(3, 0) EXCEPT ![2] = 60], Upto(3, 0), TRUE, TRUE)
Worn  == Chan(260, Upto(2, 90), Upto(2, 90), TRUE, TRUE)
Gone  == Chan(0, Upto(-1, 0), Upto(-1, 0), FALSE, TRUE)
Mute  == Chan(260, Upto(3, 0), Upto(3, 0), TRUE, FALSE)
Thin  == [Clear EXCEPT !.blocks = 3]
FirstV == {Clear, Mute}
ProfilesV == {Clear, Poor, Hit, Jammed, Lure, Worn, Gone, Mute, Thin}
=============================================================================
