------------------------------- MODULE MCI8259 -------------------------------
(* Instances of I8259 for TLC: two or three pins per controller, so that a   *)
(* pin can be above or below the cascade, and mode writes chosen per run.     *)
EXTENDS I8259

\* devices on the master's pins 0 and 2 and on the slave's pins 0 and 2;
\* the cascade is the master's pin 1
AllLines == {0, 2, 3, 5}
\* with two pins: a device on the master's pin 0 and one on the slave's
BothFirst == {0, 2}

\* ICW2: multiples of the number of pins, the low bits are dropped
OneBase == {2}

\* OCW1
SomeMasks == {{}, {0, 1}}

\* OCW2: non-specific ends of interrupt only; or also rotation on automatic
\* end, and the two ends of interrupt that rotate
OnlyEoi  == {1}
Rotating == {1, 4, 5, 7}

\* OCW3: poll commands
PollOnly == {[poll |-> TRUE, select |-> "none", special |-> "none"]}

\* ICW1 and ICW4
Boots  == {[init4 |-> TRUE, single |-> FALSE], [init4 |-> FALSE, single |-> TRUE]}
AutoEoi == {[sfnm |-> FALSE, aeoi |-> TRUE]}

NoWrites == {}
=============================================================================
