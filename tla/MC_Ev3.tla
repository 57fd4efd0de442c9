------------------------------- MODULE MC_Ev3 -------------------------------
(* Instance of Ev3 for model checking: one task sets an LED, the other reads a *)
(* touch sensor, which a motor follows, a button and a light sensor.           *)
EXTENDS Ev3

Calls == [t \in Tasks |->
            IF t = "lights"
            THEN {Call("led_set", 2, 3)}
            ELSE {Call("sensor_touch_get_state", 1, 0), Call("button_get_state", 0, 0),
                  Call("sensor_light_get", 2, 0)}]

ASSUME TasksApart == OwnPins /\ OneReader

Samples == [c \in 0..15 |-> IF c = 8 THEN 700 ELSE 200]
=============================================================================
