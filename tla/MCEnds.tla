------------------------------- MODULE MCEnds -------------------------------
(***************************************************************************)
(* Two boards and captures of two datagrams; five pictures through a queue *)
(* of three; two roles given by another computer; four frames and a window *)
(* of two; two workers, stores of one slot, so that all are full at some   *)
(* time, a valve of two results, so that one slow worker opens it; of four *)
(* captures one comes as samples and as soft bits, one as samples that the *)
(* board leaves out, the others decoded: one more than the workers, the    *)
(* queue and the channel hold.                                             *)
(***************************************************************************)
EXTENDS Ends
MCItems ==
  [seq : {1}, kind : {"iq", "soft"}] \cup [seq : {3}, kind : {"skip"}] \cup
  [seq : {2, 4}, kind : {"dec"}]
=============================================================================
