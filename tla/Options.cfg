\* Edits, requests, sleeps, the charger and reboots, at every step of reading.
SPECIFICATION Spec
CONSTANTS
    Models = {"n306"}
    Edited = {"6-ledUsage", "10-chargerController"}
    Absent = {"appsList", "2-cpuGovernor", "10-chargerController"}
    Targets = {"/a", "/b"}
INVARIANTS
    OptionsTypeOK
    AnsweredMeansRead
    OneController
    NotHeldByController
PROPERTIES
    UpdateAnswered
