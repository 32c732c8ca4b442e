--------------------------- MODULE MCCameraPass ---------------------------
(* One camera, which may also not be named; a queue of two, so that it is  *)
(* full at some time, and then long enough for its reader not to wait for  *)
(* the interval between two units.                                         *)
EXTENDS CameraPass
CONSTANT cam
MCUrls == {cam}
MCPass == [standby |-> FALSE, rtsp |-> TRUE, rtsp_pass |-> TRUE, url |-> cam]
MCChoices ==
  {MCPass, [MCPass EXCEPT !.standby = TRUE], [MCPass EXCEPT !.rtsp = FALSE],
   [MCPass EXCEPT !.rtsp_pass = FALSE], [MCPass EXCEPT !.url = NoUrl]}
=============================================================================
