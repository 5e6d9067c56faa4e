------------------------------ MODULE MCWiring ------------------------------
(* Small files: entries that are right, and entries that are each wrong or     *)
(* unusual in a way of their own; what is wrong with two of them together is   *)
(* for the walk to find.                                                       *)
EXTENDS Wiring

Logins == {[username |-> Wrong], [username |-> "panel"], [password |-> "secret"], [username |-> "panel", password |-> TooLong]}

light(id, backend) == [id |-> id, backend |-> backend]
blind(backend, options) == [type |-> "blinds", id |-> 3, backend |-> backend, options |-> options]
relays == [kind |-> "cover", up |-> [expander |-> 0, pin |-> 0], down |-> [expander |-> 0, pin |-> 1]]
local == [kind |-> "cover", up |-> [pin |-> 6], down |-> [pin |-> 9]]
apart == [kind |-> "cover", up |-> [pin |-> 6], down |-> [expander |-> 1, pin |-> 1]]

File ==
    [expanders |-> {[index |-> 0, address |-> 32, int_pin |-> 5],
                    [index |-> Wrong, text |-> 288 + 1, int_pin |-> 6]},
     actuators |-> {light(1, [pin |-> 5]), light(1, [kind |-> "mcp", expander |-> 0, pin |-> 0]),
                    [type |-> "pir"] @@ light(1, [expander |-> -2, pin |-> 6]),
                    light(2, [kind |-> "mcp", pin |-> 0]), light(Wrong, [pin |-> 7]),
                    blind(relays, [travel_ms |-> 3, travel_up_ms |-> 4, tilt_ms |-> 2]),
                    blind(apart, [travel_ms |-> Wrong, travel_up_ms |-> 3, travel_down_ms |-> 2, tilt_ms |-> 1]),
                    blind(local, [travel_ms |-> 3, travel_down_ms |-> 2, tilt_ms |-> 2]),
                    blind([pin |-> 6], [travel_ms |-> 3])},
     sensors |-> {[type |-> "pir", id |-> 1, pin |-> [pin |-> 7]], [type |-> "humidity", id |-> 2, pin |-> [pin |-> 7]]},
     buttons |-> {[id |-> 1, kind |-> "momentary", gestures |-> TRUE, pin |-> [pin |-> 8]],
                  [id |-> 1, kind |-> "toggle", gestures |-> TRUE, pin |-> [pin |-> 9]],
                  [id |-> 1, kind |-> "momentary", pin |-> [expander |-> 0, pin |-> 16]]},
     bindings |-> {[rule |-> "toggle", targets |-> <<[type |-> "light", id |-> 1]>>,
                    sources |-> <<[button |-> 1], [button |-> 1, gesture |-> "press_2"]>>],
                   [rule |-> "cover", targets |-> <<[type |-> "blinds", id |-> 3]>>, sources |-> <<[button |-> 1]>>],
                   [rule |-> "motion", targets |-> <<[type |-> "light", id |-> 1]>>, off_delay_ms |-> 9,
                    sources |-> <<[sensor |-> [type |-> "pir", id |-> 1]], [topic |-> "pir"]>>],
                   [rule |-> "toggle", targets |-> <<[type |-> "light", id |-> 1]>>,
                    sources |-> <<[topic |-> "pir", payload |-> "1"], [topic |-> "event", payload |-> "press_1"]>>],
                   [rule |-> "motion", targets |-> <<[type |-> "light", id |-> 1]>>,
                    sources |-> <<[topic |-> "pir"]>>]}]

Lengths == [expanders |-> 2, actuators |-> 2, sensors |-> 1, buttons |-> 2, bindings |-> 2]
=============================================================================
