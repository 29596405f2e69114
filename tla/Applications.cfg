\* Programs that come and go at every step of freezing, continuing and killing.
SPECIFICATION Spec
CONSTANTS
    MaxPid = 5
    Programs = {"guiScript", "appBin", "mount", "library", "client"}
INVARIANTS
    AppsTypeOK
    StoppedAreListed
    OnlyAppsStopped
    LockedFirst
    WaitsForTheDying
PROPERTIES
    FreezeReaches
    ImplementsHeldApps
    LockScreenComes
