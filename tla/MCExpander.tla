----------------------------- MODULE MCExpander -----------------------------
(* A cover whose two relays sit on two chips, and a switch beside one of them; *)
(* the second relay board is an active-low one.                                *)
EXTENDS Expander, TLC

CONSTANTS button, up, down

Wiring == button :> 1 @@ up :> 1 @@ down :> 2
=============================================================================
