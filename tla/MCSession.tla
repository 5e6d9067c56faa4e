----------------------------- MODULE MCSession -----------------------------
(* Model values for Session: the cfgs choose the topics, the depth of the two *)
(* queues and how many changes and faults a behaviour may hold.               *)
EXTENDS Session
=============================================================================
