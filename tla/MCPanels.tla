------------------------------ MODULE MCPanels ------------------------------
(* A small instance of Panels for TLC: a panel with a button and a PIR, and one *)
(* with a gated light that is toggled by the one and switched by the other.     *)
EXTENDS Panels

Button == <<"a", "hall", "button", "1", "event">>
Pir == <<"a", "hall", "pir", "1", "state">>
Lamp == <<"b", "loft", "light", "1", "state">>
Gate == <<"b", "loft", "light", "1", "night_mode">>
MCPanelSet == {"a", "b"}
MCOwn == [a |-> <<Pir>>, b |-> <<Lamp, Gate>>]
MCButtons == [a |-> {Button}, b |-> {}]
Row(topic, payload, kind, value_) ==
    [topic |-> topic, payload |-> payload, kind |-> kind, value |-> value_, lamp |-> Lamp]
MCRows == [a |-> <<>>,
           b |-> <<Row(Button, "press_1", "press", TRUE),
                   Row(Pir, "1", "edge", TRUE), Row(Pir, "0", "edge", FALSE)>>]
MCCommands == {Message(GateCommand(Gate), v, TRUE) : v \in {"0", "1"}}
              \cup {Message(Topic(Lamp, "set_binary"), "1", FALSE)}
=============================================================================
