------------------------------- MODULE MCLink -------------------------------
(* A small instance of Link for TLC: the spans keep the order they have in the *)
(* firmware (a command timeout of 5 s, a keepalive interval of 30 s, 45 s of   *)
(* grace at the broker).                                                       *)
EXTENDS Link
=============================================================================
