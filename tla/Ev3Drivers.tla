----------------------------- MODULE Ev3Drivers -----------------------------
(* The EV3 drivers (gpio.c, led.c, button.c, motor.c, sensor.c, adc.c, spi.c)  *)
(* as programs: a call of a driver is the sequence of the device register      *)
(* accesses it makes, in the order of the code.  A read-modify-write of a      *)
(* register is two accesses, a load and a store.  Module Ev3 executes them.    *)
EXTENDS PinInfo, Sequences, Functions

Acc(op, arg) == [op |-> op, arg |-> arg]

-----------------------------------------------------------------------------
(* gpio.c                                                                     *)

Bad_SYSCFG_UNLOCK == <<Acc("unlock", 0)>>
SYSCFG_UNLOCK == <<Acc("unlock", 0), Acc("unlock", 1)>>
SYSCFG_LOCK == <<Acc("lock", 0), Acc("lock", 1)>>

\* A mux register is changed in two read-modify-writes: the pin's function is
\* cleared by the first and set by the second.
gpio_init_pin(pin) ==
  SYSCFG_UNLOCK \o <<Acc("load_mux", pin), Acc("and_mux", pin),
                     Acc("load_mux", pin), Acc("or_mux", pin)>> \o SYSCFG_LOCK

Bad_gpio_init_outpin(pin) ==
  SYSCFG_UNLOCK \o gpio_init_pin(pin)
    \o <<Acc("clr", pin), Acc("dir_out", pin)>> \o SYSCFG_LOCK
gpio_init_outpin(pin) ==
  SYSCFG_UNLOCK \o gpio_init_pin(pin)
    \o <<Acc("clr", pin), Acc("load_dir", pin), Acc("dir_out", pin)>> \o SYSCFG_LOCK

gpio_init_inpin(pin) ==
  SYSCFG_UNLOCK \o gpio_init_pin(pin)
    \o <<Acc("load_dir", pin), Acc("dir_in", pin)>> \o SYSCFG_LOCK

Bad_gpio_set(pin, value) ==
  <<Acc(IF value = 0 THEN "clr" ELSE "set", pin)>> \o gpio_init_outpin(pin)
gpio_set(pin, value) ==
  gpio_init_outpin(pin) \o <<Acc(IF value = 0 THEN "clr" ELSE "set", pin)>>

gpio_get(pin) == gpio_init_inpin(pin) \o <<Acc("get", pin)>>

\* Rounds of the same number of accesses, one after the other.
Joined(rounds) ==
  LET L == Len(rounds[1])
  IN  [i \in 1 .. L * Len(rounds) |-> rounds[1 + ((i - 1) \div L)][1 + ((i - 1) % L)]]

\* The accesses of op on each of a sequence of pins (a loop of the code).
ForEach(op(_), pins) == Joined([i \in 1..Len(pins) |-> op(pins[i])])

-----------------------------------------------------------------------------
(* spi.c and adc.c.  A frame is the channel it asks for.                       *)

\* Waits until SPIDAT0 is free and writes it, waits for an answer and reads it.
Bad_spi_update(data) == <<Acc("rx", 0), Acc("tx", data)>>
spi_update(data) == <<Acc("tx", data), Acc("rx", 0)>>

adc_get(channel) == spi_update(channel)

-----------------------------------------------------------------------------
(* led.c: led 1 is LED_LEFT, 2 LED_RIGHT, 3 both; a colour is red (bit 0) and  *)
(* green (bit 1).                                                              *)

leds == << [pin1 |-> GPIO_PIN(6, 13), pin2 |-> GPIO_PIN(6, 7)],
           [pin1 |-> GPIO_PIN(6, 12), pin2 |-> GPIO_PIN(6, 14)] >>

OneLed(n, color) == gpio_set(leds[n].pin1, color % 2) \o gpio_set(leds[n].pin2, color \div 2)

led_set(led, color) ==
  (IF led % 2 = 1 THEN OneLed(1, color) ELSE <<>>)
    \o (IF led \div 2 = 1 THEN OneLed(2, color) ELSE <<>>)

LedPins == <<leds[1].pin1, leds[1].pin2, leds[2].pin1, leds[2].pin2>>
Bad_led_init == <<>>
led_init == ForEach(gpio_init_outpin, LedPins)

-----------------------------------------------------------------------------
(* button.c                                                                   *)

buttons == << GPIO_PIN(6, 6), GPIO_PIN(7, 12), GPIO_PIN(7, 15),
              GPIO_PIN(7, 14), GPIO_PIN(1, 13), GPIO_PIN(6, 10) >>

button_get_state(button) == gpio_get(buttons[button + 1])

button_init == ForEach(gpio_init_inpin, buttons) \o <<Acc("pull", "up_group_25")>>

-----------------------------------------------------------------------------
(* motor.c: motor_state 0 is MOTOR_BACKWARD, 1 MOTOR_OFF, 2 MOTOR_FORWARD.     *)

MotorPorts ==
  << <<GPIO_PIN(3, 15), GPIO_PIN(3, 6), GPIO_PIN(5, 4),  GPIO_PIN(5, 11), GPIO_PIN(0, 4)>>,
     <<GPIO_PIN(0, 3),  GPIO_PIN(2, 1), GPIO_PIN(2, 5),  GPIO_PIN(5, 8),  GPIO_PIN(2, 9)>>,
     <<GPIO_PIN(6, 8),  GPIO_PIN(5, 9), GPIO_PIN(3, 8),  GPIO_PIN(5, 13), GPIO_PIN(3, 14)>>,
     <<GPIO_PIN(5, 10), GPIO_PIN(5, 3), GPIO_PIN(5, 15), GPIO_PIN(6, 9),  GPIO_PIN(2, 8)>> >>

motor_set_state(port, state) ==
  gpio_set(MotorPorts[port + 1][1], IF state = 2 THEN 1 ELSE 0)
    \o gpio_set(MotorPorts[port + 1][2], IF state = 0 THEN 1 ELSE 0)

motor_init ==
  ForEach(LAMBDA port : ForEach(gpio_init_outpin, port), MotorPorts)
    \o <<Acc("pull", "down_all")>>

-----------------------------------------------------------------------------
(* sensor.c: pin1, pin2, pin5, pin6, buffer, adc1, adc2 of each port.          *)

SensorPorts ==
  << <<GPIO_PIN(8, 10), GPIO_PIN(2, 2),  GPIO_PIN(0, 2),  GPIO_PIN(0, 15), GPIO_PIN(8, 11), 6, 5>>,
     <<GPIO_PIN(8, 12), GPIO_PIN(8, 15), GPIO_PIN(0, 14), GPIO_PIN(0, 13), GPIO_PIN(8, 14), 8, 7>>,
     <<GPIO_PIN(8, 9),  GPIO_PIN(7, 11), GPIO_PIN(0, 12), GPIO_PIN(1, 14), GPIO_PIN(7, 9), 10, 9>>,
     <<GPIO_PIN(6, 4),  GPIO_PIN(7, 8),  GPIO_PIN(0, 1),  GPIO_PIN(1, 15), GPIO_PIN(7, 10), 12, 11>> >>

sensor_touch_get_state(port) ==
  adc_get(SensorPorts[port + 1][6]) \o adc_get(SensorPorts[port + 1][7])

\* What sensor_touch_get_state makes of its two samples: TRUE for
\* SENSOR_TOUCH_DOWN (an EV3 sensor by the second, an NXT one by the first).
TouchDown(data1, data2) == data2 > 3000 \/ (data1 > 500 /\ data1 < 1000)

sensor_light_get(port) ==
  gpio_set(SensorPorts[port + 1][3], 1) \o adc_get(SensorPorts[port + 1][6])

sensor_init ==
  ForEach(LAMBDA p : gpio_init_inpin(p[1]) \o gpio_init_inpin(p[2]) \o gpio_init_outpin(p[3])
                       \o gpio_init_pin(p[4]) \o gpio_init_pin(p[5]), SensorPorts)
    \o <<Acc("pull", "down_all")>>
=============================================================================
