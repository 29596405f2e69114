\* Touches, option updates, sleeps, USB sessions and a touchscreen that goes and
\* comes, at any moment of the loop.
SPECIFICATION Spec
CONSTANTS
    Times = {0, 2, 4}
    UsbmsDelay = 3
    Cap = 5
INVARIANTS
    TimerTypeOK
PROPERTIES
    IdleNotEarly
    IdleSleepComes
