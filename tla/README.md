# Verification of the InkBox power daemon

The power daemon (`src/src/*.cpp`) puts an e-reader to sleep and wakes it up. One watchdog
thread turns requests (power button, sleep cover, idle timer, a file written by another
program) into detached job threads that stop applications, switch peripherals off, write
`mem` to `/sys/power/state`, and undo it all afterwards. Nothing is joined: a dozen global
variables and five mutexes in `functions.cpp` hold the threads together, and a user may press
the button at any moment. This directory models that protocol and what it does to the device,
checks it with TLC and proves its central invariants with TLAPS.

All paths below are relative to `src/src/` unless they say otherwise.

## 1. Inventory

### Components

| Part | State it keeps | Operations |
|---|---|---|
| **watchdog** (`watchdog.cpp`) | position in its loop; takes `watchdogStartJob`, `watchdogNextStep`; writes `sleepJob`, `currentActiveThread` | one loop, the only launcher of jobs: take a request, turn it into an order, wait for the running job, launch the next; then serve what a finished job asked for |
| **prepareSleep** | `diePrepare`, `lockscreenPid` | twelve guarded blocks: copy the screen, stop applications, save the light, Wi-Fi and USB networking off, ask for goSleep, deep sleep |
| **goSleep** (`goingSleep.cpp`) | `dieGoing`, the charger's state | mute the buttons, suspend again and again until something else is wanted, unmute, ask for afterSleep |
| **afterSleep** | `dieAfter` | undo deep sleep, lock screen, screen, applications, light, networks |
| **monitorEvents** | `customCaseCount` | power button and hall sensor: raise a request unless `ignoreEvents` |
| **idleSleep** | `countIdle` | count seconds without touch; look whether all is quiet; raise a request |
| **configUpdate** | inotify's watches | `sleepCall` raises a request (perhaps for a deep sleep), `updateConfig` reads the options again and is answered |
| **functions** | all globals and mutexes, the options | `prepareVariables()`, launching, file, string and process helpers |
| **appsFreeze** | `appsPids` | search `/proc`, stop, continue and kill |
| **pipeHandler** | the FIFO | tell the GUI `start` and `stop0` |
| **fbinkFunctions** | the copy of the screen | copy, clear, restore |
| **cinematicBrightness** | `/tmp/savedBrightness` | save, dim, restore |
| **wifi** | `/run/was_connected_to_wifi` | off, on |
| **usbnet** | `wasUsbNetOn` | off, on |
| **devices** | `touchscreenStatus`, the LED, the governor | touchscreen module, LED, CPU governor |
| **main** | - | read the options, start the threads, set the LED after 30 seconds |

`src/src-old` and `src/old-manager` are earlier programs that the build leaves out, `src/lib` is
vendored; none is modelled.

### How they interact

    monitorEvents  --watchdogStartJob, newSleepCondition-->  watchdog
    idleSleep      --        "                          -->     |
    configUpdate   --        " , deepSleep, deepSleepPermission |
                                                                | sleepJob (the order)
         prepareSleep / goSleep / afterSleep  <--- launch ------+ currentActiveThread (the slot)
                 |   ^                                          |
                 |   +--- CEP(), CEG(), CEA() read sleepJob ----+
                 +---- watchdogNextStep, currentActiveThread = Nothing --->

* **Order.** `sleepJob` says what the device should be doing. A job compares it with its own
  name before every block and, once it differs, *dies*: it runs through to its end without
  doing its guarded blocks.
* **Slot.** `currentActiveThread` is set by the watchdog before it launches and cleared by the
  job as its last act. The watchdog polls it before it launches the next job.
* **Next step.** `watchdogNextStep`, which no mutex protects, is how prepareSleep asks for
  goSleep and goSleep for afterSleep.
* **Muting.** While goSleep runs, `ignoreEvents` turns button presses into notes in
  `newSleepCondition`, which `CEG()` reads.

* **Files and processes.** The options live in files that the GUI edits, one at a time; what is
  stopped and continued is found by searching command lines in `/proc`, while processes come and
  go. Neither is protected by anything.

### What is hard, and what must hold

`PROJECT.json` lists every hazard at its line. In short:

* detached threads: two jobs at work at once (`AtMostOneJob`, `ImplementsJobSlot`);
* unprotected variables read twice: a dead end of the watchdog (`NeverExits`);
* buttons muted by a job that can die anywhere (`MutedOnlyInGoSleep`, `PressEndsGoSleep`);
* a mutex unlocked by a thread that does not own it, `configUpdate.cpp:128`
  (`ImplementsJobSlot` and `NobodyStuck`, in the run that has that thread), and the LED's mutex
  given away in mid-job (`NobodyStuck`, `PressEndsGoSleep`);
* waits on waits: the watchdog on the job, the job on the watchdog's mutexes, an option update
  on the job's LED, afterSleep on the user and on the lock screen, prepareSleep on a script
  (`NobodyStuck`, `PolledJobIsTold`, `EndingJobAdvances`, `RequestIsTaken`,
  `OrderedOutJobEnds`, `UpdateAnswered`, `LockScreenComes`, `WaitsForTheDying`,
  `NotHeldByController`);
* two half-done jobs repeated in any pattern by fast presses: what must be back when the
  user stops (`AppsBackAtRest`, `NetworkBackAtRest`, `GovernorBackAtRest`,
  `StoppedAppsWereTold`, `LoaderNotMistaken`, and, not holding, `LightBackAtRest`,
  `TouchscreenBackAtRest`, `LockscreenNotCopied`), and what no pattern of presses may bring
  back before the user has left the lock screen (`NotBehindLockscreen`);
* process numbers that are stale when used, and searches that find somebody else
  (`StoppedAreListed`, `OnlyAppsStopped`, `FreezeReaches`, `LockedFirst`, `ImplementsHeldApps`,
  `OneController`);
* files read while they are edited, and answers that cross requests (`AnsweredMeansRead`);
* a counter that three threads write without a lock and that is compared for equality
  (`IdleNotEarly`, `IdleSleepComes`).

## 2. Modules

| Module | What it is |
|---|---|
| `SleepControl` | the control core: watchdog, the three jobs, monitorEvents, idleSleep, configUpdate, the globals and mutexes between them |
| `JobSlot` | abstract specification: what the watchdog promises about jobs |
| `PowerDaemon` | `SleepControl` with what every block does to the device |
| `HeldApps` | abstract specification: what the daemon promises about the programs it stops |
| `Applications` | the processes that the jobs search, stop, continue, kill and launch |
| `Options` | the options' files and copies, an update from request to answer, the charger controller |
| `IdleTimer` | the idle counter and the touchscreen's device |
| `MCSleepControl`, `MCPowerDaemon` | instances for TLC (symmetry, view); the other modules are checked as they are |
| `SleepControlProofs`, `PowerDaemonProofs`, `ApplicationsProofs`, `OptionsProofs`, `IdleTimerProofs` | theorems about the modules they are named after |
| `JobBlockProofs`, `ProgressProofs` | theorems about `SleepControl`: the places of a job's list, and what keeps the threads going |

`PowerDaemon` is the composition: every step of it is a step of `SleepControl`, which
`PowerDaemonProofs` proves. `Applications`, `Options` and `IdleTimer` look at one component more
closely than the composition can afford; what they take from the rest is stated below and is no
more than `SleepControl` shows. `HeldApps` is the promise that `PowerDaemon` and `Applications`
share.

### Correspondence: the control core and the device

* **Grain.** A step is the code between two points at which another thread can see or change
  something. The sections of `watchdogStartJob_mtx`, `newSleepCondition_mtx` and
  `ignoreEvents_mtx` hold single assignments and are atomic. `sleep_mtx` (kept by the watchdog
  across 400 ms and into the next lock, `watchdog.cpp:78-140`), `currentActiveThread_mtx`
  (kept by idleSleep across a shell command, `idleSleep.cpp:119-133`) and `occupyLed` (kept by
  a job for its whole body) are variables that name their owner.
* **`unlock()` does not ask.** An unlock sets the mutex to `free` whoever has it. For
  `configUpdate.cpp:128`, which unlocks a mutex its thread never locked, the standard leaves the
  outcome undefined; for a plain `std::mutex` the usual C libraries check no owner and release
  it, and that is what `CallForbidsAnother` does.
* **Jobs are lists of steps.** `Steps` gives the blocks of prepareSleep and afterSleep in order.
  `CheckOrder` is `CEP()`/`CEA()`, `Act` the block after it; `Unguarded` names the blocks the
  code runs whatever the die flag says. Blocks without an effect that another part can see (the
  Xorg notice, the clock, ssh sessions, the USB gadget role) are left out together with their
  check, which the next check repeats. A die flag is never cleared within a job, so the merged
  checks lose no behaviour.
* **goSleep** has a position for every assignment. The many `CEG()` calls of `smartWait()`, with
  nothing but sleeping between them, count as one: what makes goSleep die stays so until it is
  gone.
* **`Skip`** is written and turned into `Nothing` inside one section of `sleep_mtx`
  (`watchdog.cpp:78-232`); no other thread can see it, so it is no value of the model.
* **The kernel's suspend** stops every thread: nothing but `Wake` happens while `suspended`.
  `Wake` may bring a changed charger (`chargerChanged`), which is what `goingSleep.cpp:179-222`
  compares.
* **Options are constants here.** An update (`UpdateConfig`, `UpdateEffect`) takes its time and its
  turn at `occupyLed`, drops the copy of the screen, may set the governor and records USB
  networking, but changes no option's value; that a first boot clears `reconnectWifi`
  (`functions.cpp:275`) or that the user switches the lock screen on between two sleeps is not
  in these two modules. How options are read is the business of `Options`.
* **The charger and USB mass storage** answer afresh at each question of the watchdog
  (`Decide`).
* **The device.** `PowerDaemon` conjoins to each `Act` the effect of its block. One application
  stands for the list of them, the level of the light is the user's or zero. No variable of the
  device decides a step of the control core, except the lock screen, which therefore lives in
  `SleepControl`. An option update (`UpdateEffect`) races with the jobs. InkBox's start-up, during
  which a lock screen's picture is copied after all (`prepareSleep.cpp:94`), is over; without a lock
  screen afterSleep may clear the screen (`afterSleep.cpp:96-98`), which depends on the background
  option. Unloading the touchscreen's module may fail; loading it may fail only with
  `LoaderMayFail`, that is, four times in a row.

### Correspondence: applications

* **Searching.** `Contains` says which search terms of the code find which command; a term also
  finds what merely contains it, as `app` finds the mount and the `.bin` of an application.
  `getPidByName` takes the least number, as `/proc` is read, and nothing if that is a mounted
  image (`appsFreeze.cpp:43-47`); `getPidsByNameAll` skips those.
* **Numbers.** `-1` means what it means to `kill(2)`: everybody but init. A number is given
  again once no variable of the daemon holds it (`Free`); the kernel counts up through all
  numbers before it repeats one, so that one which the daemon still holds over a sleep does not
  come back within the model.
* **Jobs.** `SleepControl` shows that at most one runs. Which one depends on the presses: two
  afterSleeps follow each other when a press ends a goSleep and goSleep's own wish for an
  afterSleep is served as well, so here either kind follows either. `Die` is the end of a job at
  any of its checks.
* **Scripts.** Hence up to three scripts called `launch_lockscreen.sh` may be there (the start-up's
  and those of two afterSleeps), and of three kills by name the first may find the lock screen
  alone: `waitpid()` may be for a script that has not been killed. Its lock screen has, and the
  script (`functions.cpp:545`) exits when its lock screen does.
* **The world.** Programs start and exit at any step; the files that name the user's application
  and the X client follow the user. There is one process of each command, except of the
  programs that use the libraries and of X clients. `guiScript` stands for InkBox's start-up,
  during which another lock screen and its script run that the daemon has not launched.
* **What is assumed.** A launched lock screen comes up (fairness of `LockStarts`) and does not go
  again before the waiting afterSleep has looked (`Exit`). Two numbers are left to it, so that a
  full table is no reason to fail.

### Correspondence: options

* **Reading.** `Order` is the order of `prepareVariables()`; each option is a step, so that the
  GUI may edit between any two. `FileDefault` and `MemoryDefault` are what the code writes to a
  missing file and to memory, which is not always the same. Options of the same form (dark mode,
  the X flags, blanking) are left out.
* **The request.** inotify reports one event for writes that come before it is read (`event`), and
  the daemon's own answer is such a write. The GUI waits for its answer before it asks again,
  for which `src/other/docs.md:83` gives it the `false`. `Reboot` keeps the files and nothing else.
* **The LED.** A job holds it from beginning to end (`JobTakesLed`), `main` wants it once.
* **The charger controller** is known by the path it was launched from. `killProcess` gets a
  literal text that names no process (`watchdog.cpp:301`), so it has no effect. `waitpid()` is a
  state of the watchdog.

### Correspondence: the idle timer

One turn of `startIdleSleep()`'s loop is look, drain, read, sleep, store: `countIdle` is read
before the increment and stored after it (`idleSleep.cpp:181-184`), with `afterSleep`'s reset
possible in between. Raising the request is one step (`Ask`), whose details are in
`SleepControl`. A sleep (`SleepBegins`, `SleepEnds`, `AfterSleepResets`) takes the touchscreen
away and brings it back; `device` distinguishes the one the thread has open from one that
replaced it.

`map` in `PROJECT.json` gives the lines of each definition. Definitions named `Faulty...` stand
before the one they spoil by a plausible slip; each property has one that breaks it.

### Abstract specifications

`JobSlot` says in five actions what the code's polling is for: there is one slot; a job is
announced for an empty slot, one thread takes it up, the slot is empty again once that thread
has gone, and the buttons are muted only by a goSleep at work and never across its end.
`SleepControl` implements it with the slot as `currentActiveThread`, the workers as the live
threads, the muting as `ignoreEvents` (`ImplementsJobSlot`, checked by TLC and proved).

`HeldApps` says what stopping and continuing is for, without jobs, lists and searches: programs
are held only while they are there; those that are let go are let go all at once; and where
there is to be a lock screen, only in a waking in which it has come up (it runs at that moment)
and has been left (it does not run at that moment). A waking may be given up at any time, then
the next one begins with the lock screen again. It does not promise that they are ever let go;
at rest that is `AppsBackAtRest`.

`PowerDaemon` and `Applications` both implement it (`ImplementsHeldApps`, checked by TLC and
proved), and that is what ties them together. In the first the held programs are `appsPids`,
which is one application, and how far a waking has got follows from the place of the afterSleep
that is not dying; in the second they are the stopped processes but the lock screen, which
afterSleep continues on its own (`unfreezeApp`), and the waking is the position of the job. So
what the composition abstracts to one application and an atomic block keeps the same promise as
the searches, signals and scripts in detail.

## 3. Runs

### What holds

| Run | Instance | Shows |
|---|---|---|
| `Buttons` | power button, hall sensor with option 8, idle timer of a rooted device, lock screen, charger with option 3 off, USB mass storage | `TypeOK`, `AtMostOneJob`, `NeverExits`, `MutedOnlyInGoSleep`, `PolledJobIsTold`, `EndingJobAdvances`, `ImplementsJobSlot` |
| `SleepCalls` | power button, deep and ordinary `sleepCall`, option updates with the LED | `NeverExits`, `GovernorBackAtRest`, `NobodyStuck`, `ImplementsJobSlot`: one job at a time and no circle of waits even though `sleepInotifyCall()` opens the watchdog's section |
| `Liveness` | power button and option updates, lock screen | `RequestIsTaken`, `PressEndsGoSleep`, `OrderedOutJobEnds` |
| `Device` | power button, lock screen, the model whose touchscreen module is unloaded | `DeviceTypeOK`, `AppsBackAtRest`, `NetworkBackAtRest`, `StoppedAppsWereTold`, `NotBehindLockscreen`, `LoaderNotMistaken`, `ImplementsHeldApps` |
| `Applications` | five process numbers; the start-up script, an application with its mount, users of libraries, X clients; both values of every file and option | `AppsTypeOK`, `StoppedAreListed`, `OnlyAppsStopped`, `LockedFirst`, `WaitsForTheDying`, `FreezeReaches`, `LockScreenComes`, `ImplementsHeldApps` |
| `Options` | two edited options (the LED's and the charger controller's), three files that may be missing, two programs | `OptionsTypeOK`, `AnsweredMeansRead`, `OneController`, `NotHeldByController`, `UpdateAnswered` |
| `IdleTimer` | option values 0, 2 and 4, a USB delay of 3 | `TimerTypeOK`, `IdleNotEarly`, `IdleSleepComes` |

**Bounds.** Two thread identities serve detached jobs, one more than ever works at a time: a
launch beside a running job, which is what `AtMostOneJob` forbids, would find the second one
free. The threads are interchangeable, so runs of safety properties use symmetry; the liveness
run uses one thread and no symmetry (with one job at a time a second identity adds nothing).
`SleepCalls` counts states that differ only elsewhere on the device as one (`GovernorView`): no
variable of the device feeds back into the daemon and the governor depends on no other.

`Applications` needs init, two numbers for the lock screen and its script, and two for others:
that is enough for a process to precede or follow one of the same name, for a mount to hide an
application, and for a number to be lost between search and signal. The theorems lift the bound.
`Options` edits one option read before the LED is set and used by it, and one with a process
behind it, and lets files be missing before, between and after them; all eleven options are
read. In `IdleTimer` two option values and 0 let an update raise, lower and switch off the
option around a running count. `Cap` is above every option value: a count beyond it can never
again equal one, in the code as in the model, before something resets it.

Nothing else is bounded, and every passing run visits all reachable states of its instance. Each
option of the control core takes both values across the runs; option 5 (Wi-Fi reconnection),
without which the daemon promises nothing about Wi-Fi, is on. Deadlock is checked everywhere.

**Fairness.** `FairSpec` of `SleepControl` asks that each thread which can run does run (strong
fairness per thread: a thread may find a mutex taken or the device suspended again and again, but
every other thread sleeps 50 to 400 ms between its turns, so it gets its turn) and that a
suspended device is woken some day. The user owes nothing: presses may stop, the lock screen may
stay. Presses may also go on for ever. `IdleTimer` asks that its thread runs on; `Applications`
that a job waiting for the lock screen looks again and that a launched lock screen starts;
`Options` that the thread that reads runs on and that whoever holds the LED gives it back some
day, with strong fairness for taking the LED, for which jobs, `main` and the reader compete. For
a job this is an assumption on the user too, and more than `OrderedOutJobEnds` gives: an
afterSleep that nobody tells to end holds the LED until the user leaves the lock screen, and an
update waits as long (a goSleep lends it in each turn of its loop).

### What does not hold

Each of these runs looks for one behaviour that a comment, a log line or a document rules out,
and finds it.

| Run | The text | What the code does |
|---|---|---|
| `LightLost` | the case "massive power button spamming" of `restoreBrightness()` (`cinematicBrightness.cpp:41`) | A prepareSleep that follows an afterSleep cut short before it restored the light saves level 0 over the user's (`prepareSleep.cpp:170`). |
| `LockscreenCopied` | "To avoid screen shooting the previous lockscreen" (`prepareSleep.cpp:91`) | The guard asks whether `lockscreen-bin` runs. After a press on the lock screen it may go (left by the user, or killed by an aborted prepareSleep) while its picture stays, since the applications are stopped; the next prepareSleep copies that picture as what is to be restored. |
| `ChargerLeavesApps` | "because of fast clicking something could get not unfreezed" (`appsFreeze.cpp:191`) | With option 3 off and the charger plugged in between two presses, the second press withdraws the order without launching afterSleep (`watchdog.cpp:232`): what prepareSleep has stopped stays stopped. |
| `ChargerWake` | "The device woke up because of a charger, but option '4 - chargerWakeUp' is disabled, so it will continue to wake up" (`goingSleep.cpp:213-215`), and `src/other/docs.md:40` | The comparison before that line is the wrong way round: goSleep leaves its loop when the charger's state is *equal*, and suspends again when it differs. |
| `TouchscreenLost` | "we need this module..." (`devices.cpp:308`) | A press taken between afterSleep's last check and its `sleepJob = Nothing` (`afterSleep.cpp:192-196`) is overwritten; the prepareSleep launched for it unloads the touchscreen's module, which it does without a check, and dies: the device is awake and cannot be touched. |

**Seen while modelling, without a run.**

* A first boot writes `false` to 6-ledUsage and clears `reconnectWifi` (`functions.cpp:275`), and
  `300` to 7-idleSleep but 60 to memory (`functions.cpp:286-287`): the defaults of `docs.md` are
  in the files and not in force until the next update. `Options` has both; its theorem about
  answers assumes that these two files exist.
* A button's note that arrives once goSleep has muted the buttons raises no request, makes
  goSleep die at once and ask for an afterSleep; if the watchdog is held up between the launch and
  `watchdogNextStep = Nothing` (`watchdog.cpp:286-288`), it erases that wish and the device stays
  with the order GoingSleep, its applications stopped, until the next press.
* From the last `CEG()` to the write of `mem` (`goingSleep.cpp:141-182`) nothing looks at
  `newSleepCondition`: the device suspends although the user has just pressed.
* The lost press of `TouchscreenLost` loses the permission for `sleepCall` when it was one.
* idleSleep looks at three variables one after the other and raises its request afterwards
  (`idleSleep.cpp:115-139`): a press in between makes the idle request the wake-up of the sleep
  just ordered.
* prepareSleep asks for goSleep and then checks its order once more (`prepareSleep.cpp:220-223`);
  when the watchdog has served the request in between, `deepSleepGo()` is skipped.
* monitorEvents and configUpdate set `watchdogStartJob` before `newSleepCondition`, against
  `functions.cpp:71`, with no effect but on a notification.
* The answer to an update overwrites a request that was written meanwhile
  (`configUpdate.cpp:108-110`), and a request written before the watch exists, or left by a
  reboot, raises no event.
* The watchdog waits for a charger controller of an earlier path as long as that one runs
  (`watchdog.cpp:303`), serving no request.
* A replaced touchscreen leaves idleSleep reading a dead descriptor (`idleSleep.cpp:165`) if it
  was back before the thread noticed.
* `unfreezeApps()` passes the -1 of an application that was not found to `kill()`
  (`appsFreeze.cpp:214`), which continues every process; `freezeApps()` does not.
* A mounted image whose process precedes the application's hides it from `getPidByName()`
  (`appsFreeze.cpp:43`): such an application without a `.bin` is not stopped.
* An option file that is empty ends the process in `stoi()`.

## 4. Proofs

Every safety property that a passing run checks is proved for all values of the constants, from the
assumptions named below; so are the refinements of `JobSlot` and `HeldApps`. None of the properties
is inductive alone; each module of proofs has an invariant `IInv` (or `DInv`, `CInv`) that is shown
to hold initially and to be kept by each action.

### The control core: `SleepControlProofs`

For every set of threads, every set of sources and all options (`ConstantsAssumption`: options
are Booleans, sources are among the five, thread names differ from the other owners of mutexes).

| Theorem | Statement |
|---|---|
| `TypeCorrect` | `Spec => []TypeOK` |
| `Invariance` | `Spec => []IInv` |
| `OneJob`, `NoExit`, `Muted`, `Told` | `Spec => []` of `AtMostOneJob`, `NeverExits`, `MutedOnlyInGoSleep`, `PolledJobIsTold` |
| `SlotImplemented` | `Spec => ImplementsJobSlot` |

`AtMostOneJob` is kept by a launch only if the watchdog has not lost sight of the slot since it
found it empty; `NeverExits` needs to know who may write `watchdogNextStep` between its two
reads. `IInv` conjoins the properties with

* `JobShape`: a thread without a job stands still, and each kind of job is only at positions of
  its own;
* `SlotShape`: what the slot holds at each position of the watchdog. From `mark` on there is
  nobody at work; at `launch` the slot is the job wanted;
* `NextShape`: between `reset` and `consume` of the second half of the pass `watchdogNextStep` is
  not `Nothing` (jobs write it, only the watchdog clears it);
* `OrderShape`: whose order `sleepJob` is at each position, which gives `PolledJobIsTold`: a job
  that waits for a button or a user is polled only after its order has been replaced;
* `LedShape`: who has the mutex `occupyLed`, which `NoneStuck` needs.

Each piece has a lemma on one step, split over the watchdog's actions, a job's and the others';
lemmas on what these three groups leave alone (`WatchdogEffect`, `JobEffect`, `OtherEffect`) do
most of the work. `SlotImplemented` uses the invariant to map every step to an action of `JobSlot`
or to a stutter. None of these theorems assumes that the sections of `currentActiveThread_mtx`
exclude each other: with `sleepCall` among the sources they do not, since `configUpdate.cpp:128`
opens them.

### What keeps the threads going: `JobBlockProofs`, `ProgressProofs`

For the same constants, `sleepCall` included.

| Theorem | Statement |
|---|---|
| `PlacesKept` | `Spec => []Positions` |
| `GivenBack` | `Spec => []Held` |
| `NoneStuck` | `Spec => []NobodyStuck` |
| `EndingAdvances` | `Spec => EndingJobAdvances` |

`Positions` says at which place of its list a job is and that it does a guarded block only while
it is not dying. `Held` says that whoever owns a mutex, the LED or the slot is inside the
section, or is the job at work: no early return or exit leaves one behind. It is kept even by
the `unlock()` of a thread that does not own the mutex, since that only frees it.

`NobodyStuck` speaks of every set of threads, so that it rules out circles of any length and
also the wait for a mutex that its owner has forgotten. Its proof eliminates what a member of a
stuck set can await, one thing after the other. The watchdog and idleSleep wait for nothing
while they have `currentActiveThread_mtx`, so nobody of the set awaits that; the watchdog in
possession of `sleep_mtx` can await nothing else, so nobody awaits `sleep_mtx` either; the LED is
with an update, which waits for nothing, or with the one job at work, which no longer waits for
it; and the job that the watchdog polls for could only have awaited one of these three.

`EndingJobAdvances` is the safety core of two liveness properties. `Remaining` measures the distance
of a job from its end; for a job that is told to end, or that waits for nobody, it falls with each
step and is changed by nobody else's, and the job does not stop being one that is to end: the
watchdog does not order again what is still running unless it is a prepareSleep (`OrderShape`), and
nobody but goSleep itself erases a note. Without the condition the claim is false: afterSleep waits
at the lock screen and goSleep goes round its loop. What is left to fairness, and to TLC, is that
the steps are taken.

### The device: `PowerDaemonProofs`

| Theorem | Statement | Assumes |
|---|---|---|
| `ControlKept` | `DeviceSpec => Spec` | |
| `DeviceInvariance` | `DeviceSpec => []DInv` | |
| `DeviceTypeCorrect`, `AppsTold` | `DeviceSpec => []` of `DeviceTypeOK`, `StoppedAppsWereTold` | |
| `StoppedBehindLockscreen` | `DeviceSpec => NotBehindLockscreen` | |
| `PromiseKept` | `DeviceSpec => ImplementsHeldApps` | |
| `LoaderRight` | `DeviceSpec => []LoaderNotMistaken` | `~LoaderMayFail` |
| `AppsBack`, `GovernorBack` | `DeviceSpec => []` of `AppsBackAtRest`, `GovernorBackAtRest` | `NeverVoided` |
| `NetworksBack` | `DeviceSpec => []NetworkBackAtRest` | `NeverVoided`, no updates |
| `WifiBack` | the half of it about Wi-Fi | `NeverVoided` |

`ControlKept` carries `IInv` of the control core over. On top of it `DInv` says at which place of
its list a job is (`Positions`, from `JobBlockProofs`), that the applications were told before they
are stopped (`ToldFirst`), and that the powersave governor implies a deep sleep which afterSleep has
not yet forgotten (`GovernorRaised`).

What is back at rest follows from what an unordered device looks like (`Clean`). An order is
withdrawn in two places: by the last block of afterSleep, when what an afterSleep that did not
die has put right (`Undone`) is everything; and by the watchdog on the way to a next step, where
it is replaced before the pass ends (hence `Unordered`, which looks at the watchdog as well). A
third place, a request voided by the charger or by a USB session, is what `ChargerLeavesApps`
shows; `NeverVoided` (option 3 on, no USB session) excludes it. That a prepareSleep does nothing
guarded while it has no order is `BlockOrdered`; its unguarded blocks change none of what
`Clean` speaks of, and the touchscreen, which they do change, is what `TouchscreenLost` loses.
`NetworksShape` adds that what is down is recorded to be brought back; an update may record a
USB service as off while it is down, so `NetworksBack` has none. Wi-Fi is recorded in a file
that no update touches, hence `WifiBack`.

`NotBehindLockscreen` needs one fact more, `PastLockscreen`: an afterSleep that has passed its
wait and is not dying has seen the lock screen go, and nobody but an afterSleep before its wait
shows one. A press may kill that afterSleep; then it continues nothing, and the next one starts
with a lock screen of its own. `PromiseKept` maps each block of afterSleep to its step of
`HeldApps` (6 shows, 8 leaves, 10 lets go) and every other step to none, to processes that come
and go, or to a waking that is given up (`WakesNoFurther`).

### Applications, options, idle timer

| Module | Theorem | Statement | Assumes |
|---|---|---|---|
| `ApplicationsProofs` | `TypeCorrect`, `NoneForgotten`, `AppsOnly`, `LockComesFirst`, `WaitIsShort` | `Spec => []` of `AppsTypeOK`, `StoppedAreListed`, `OnlyAppsStopped`, `LockedFirst`, `WaitsForTheDying` | |
| | `AllReached` | `Spec => FreezeReaches` | |
| | `PromiseKept` | `Spec => ImplementsHeldApps` | |
| `OptionsProofs` | `TypeCorrect`, `OneProgram`, `NotHeld` | `Spec => []` of `OptionsTypeOK`, `OneController`, `NotHeldByController` | |
| | `HeldOnlyByChange` | `Spec => []NobodyAwaited`: the watchdog waits for no program that runs | the file of 10-chargerController keeps its value |
| | `Answered` | `Spec => []AnsweredMeansRead` | `DefaultsAgree` |
| `IdleTimerProofs` | `TypeCorrect` | `Spec => []TimerTypeOK` | |
| | `NotEarly` | `Spec => IdleNotEarly` | |

* **Applications**, for any number of processes and any set of programs that others start: the
  invariant says that searches find what they are meant to find because there is one process of each
  command that is sought alone (`Unique`), that a lock screen is awaited only by the job that
  launched it and none is left when prepareSleep waits (`ScriptShape`, `LockKilled`), that nothing
  but what sleeps gets on the lists (`Stoppable`), which gives `AppsOnly`, provided that the kernel
  repeats no number that the daemon still holds (`Free`), and how far `freezeApps()` has come with
  what it has to stop (`FreezeShape`). `PromiseKept` needs one fact more, `FoundIsLock`: the number
  that afterSleep found, when it continues the lock screen, is the lock screen's, or nobody's by
  now, and not the -1 that would continue everybody. `MinIn`, that a least number exists, is proved
  from the cardinality of initial segments.
* **Options**, for every device, every set of edited options, missing files and programs:
  `Controllers` says that the program remembered is the only one that may run; `Unchanged` that, as
  long as its option's file is not changed, it is the one the file names; `ReadSoFar` that
  what has been read in this pass is in force unless edited since, which carries over to the
  answer. `DefaultsAgree` says that the files of 6-ledUsage and 7-idleSleep exist: for these two
  the code sets memory and file differently (see above), and the property fails.
* **Idle timer**, for all option values, delays and caps: the count, and the value that an
  increment has in hand, never exceed the seconds since the last touch (`Counted`).

### Only model-checked

The liveness properties: `RequestIsTaken`, `PressEndsGoSleep`, `OrderedOutJobEnds`,
`LockScreenComes`, `UpdateAnswered`, `IdleSleepComes`. Fairness and `ENABLED` are beyond the
prover. Of the first three, `NoneStuck` and `EndingAdvances` prove what the code contributes:
nobody waits in a circle, and each step of a job that is to end brings it nearer to its end.

## 5. Not modelled, and what could follow

* **The LED's light.** The mutex `occupyLed` is modelled, the light is not, and no write to it is a
  step. The mutex does not protect the light either: `ledManager()` tries the lock and gives it
  back before it drives the LED (`devices.cpp:107-108`), and an update drives it without the lock
  (`setLedState(false)` at `functions.cpp:277`, and without option 6 at `devices.cpp:135-138`),
  while a job may be using it. Two threads may leave `ledState` and the light at odds: a module
  with one step per write would show when.
* **Updates that change an option under way.** Jobs read `lockscreen`, `reconnectWifi` and the like
  as globals while an update may write them; the control core and the device have them constant.
* **Networks under updates and a user who switches them.** An update while the device sleeps records
  USB networking as off (`functions.cpp:165`), which leaves only `WifiBack`;
  `/run/was_connected_to_wifi` is never removed while Wi-Fi is off (`wifi.cpp:151`).
* **Failing launches.** If the lock screen cannot be launched, or is gone before afterSleep has
  looked, afterSleep waits for ever (`afterSleep.cpp:121-123`).
* **monitorEvents' devices.** Finding, opening and grabbing the power button's device, the
  backlog of its events, and the Kindle Touch's netlink loop, which raises the same request in
  the same order unless a file cancels the press.
* **The kernel log and the lengths of waits** in goSleep: the failure count only sets how long it
  waits before the next attempt.

Left out for good: drawing, model-specific paths, creating the pipe and the screen in `main`,
parsing numbers and strings. They decide no step of the protocol. `src/src-old`,
`src/old-manager` and `src/lib` are not part of the program that is built, or not of this
repository.
