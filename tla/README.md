# TeslaGPUFanControl in TLA+

The daemon drives motherboard PWM headers from the temperatures of passively
cooled GPUs.  It runs unattended, so its design (ADR-0001 to ADR-0003) is about
failing loudly: any fault silences the hardware watchdog and the kernel reboots
the box into the firmware's full-speed fan policy.  This directory models that
design as the code in `src/src` implements it, checks it on small instances with
TLC, and proves the central safety properties for all instances with TLAPS.

## The system

| Component | State | Operations | Talks to |
|---|---|---|---|
| Duty arithmetic (`curve.rs`, `units.rs`, `group.rs`) | none | `Curve::new`, `evaluate`, `Pct::clamp`, `target_pct`, `Pwm::from` | called by the loop |
| Fault tracker (`watchdog.rs`) | a counter per GPU (temperature), per GPU (power), per fan; the latch `any_fault` | `tick_gpu`, `tick_gpu_power`, `tick_fan`, `any_fault` | ticked by the loop, read before the feed |
| Fan (`fan.rs`) | `pwm_enable_snapshot`, `last_set_pct`, `spin_up_state`; the hwmon channel's `pwmN_enable` and `pwmN` | `open`, `take_manual_control`, `set`, `set_max`, `read_rpm`, `tick_spin_up`, `check_health`, `restore` | the kernel driver, which may change the channel by itself |
| Main loop (`main.rs`, `run_daemon`) | the poll's `temps` and `should_slam`; `last_set_pct`, `spin_up_entries`, `last_power_check` | one poll: read, check power, drive, slam, feed, sleep | all of the above, NVML, the watchdog, systemd |
| Hardware watchdog handle (`watchdog.rs`) | the open device | `open`, `feed`, `disarm_and_close` | the kernel's timer |
| Process life cycle (`main.rs`, the unit file) | how far start-up or shutdown has come, the signal flags | the seven start-up steps, the shutdown, every way to die | the kernel's timer, systemd |
| Power limits (`power.rs`, `nvml.rs`, `main.rs`) | the driver's limit per GPU; `last_power_check` | R6 at start-up, the periodic drift check, the opt-in restore | NVML, the fault tracker |
| Reload and dump (`main.rs`) | the live configuration | `handle_sighup`, `handle_sigusr1` | the loop's next poll |
| Configuration (`config.rs`) | none | `parse`, `validate`, `load` | start-up, reload, calibration |
| Chips (`chip.rs`) | none; the kernel's numbering of `/sys/class/hwmon` | `scan`, `resolve` | start-up, calibration |
| Calibration (`main.rs`, `run_calibrate`) | its own fans, the abort flag | check for a daemon, take over, sweep, restore | the same channels as the daemon, without the watchdog |
| Logger, NVML wrapper, scripts | see `PROJECT.json` | | |

What is hard about it:

* the daemon is single-threaded, but the machine is not: between any two steps a
  chip falls back to firmware mode, a rotor seizes, a GPU stops answering, a
  signal arrives, or the process dies;
* two records of the last duty (the loop's and the fan's) and two records of the
  spin-up grace (`spin_up_state` and `spin_up_entries`) must agree for the grace
  to mean anything;
* other tools raise power limits, and a reload can change limit and interval while
  a check is pending, without the test that a start makes;
* a reload swaps some fields of the configuration, keeps others, and leaves what
  start-up copied as it was; which combinations arise depends on the whole
  sequence of files;
* the kernel numbers the hwmon devices anew at every boot, two processes can hold
  one channel, and only the process that took a channel over knows what to
  restore;
* start-up and shutdown are ordered so that a death at any point is safe, and
  that depends on three parties with clocks of their own: the daemon, the
  kernel's watchdog, and systemd.

What makes each component correct: the arithmetic keeps floors, ceilings and
monotonicity; the tracker declares exactly the runs of failures longer than the
threshold and never forgets; the loop maxes everything on a fault and goes
silent for good, and never reboots a healthy box; no GPU stays above its power
limit for longer than the checks take to notice; the life cycle never leaves a
fan in manual mode without a running watchdog; the configuration in force is
always a valid one and says what was last accepted; each fan drives the channel
it names, and a clean end gives every channel back.

## Modules

| Module | Models | Notes |
|---|---|---|
| `Cooling` | `units.rs`, `curve.rs`, `group.rs` | operators only; `NoTemp` is an absent key of the `temps` map; `ValidView` collects rules G5 to G8 |
| `FaultTracker` | `FaultTracker` | one action per tick; a counter past its threshold stays there, which no comparison can tell |
| `Fan` | `Fan` and its channel | each method maps a fan record and the sysfs access that fails to the fan left behind and whether it answered Ok |
| `PollLoop` | the main loop | `INSTANCE FaultTracker`, `EXTENDS Fan` and so `Cooling`; one action per step of the poll |
| `PowerLimit` | R6, the drift check, SIGHUP for the power-limit fields, the restore at shutdown | `INSTANCE FaultTracker`, of which it uses the power counters; milliwatts in the driver, watts in the daemon |
| `FailSafe` | ADR-0002 and ADR-0003, without the daemon | abstract: which fans are held in manual mode, which nobody can give back, does the timer run, is a process up |
| `Lifecycle` | `run_daemon` outside the loop, the watchdog device, systemd | refines `FailSafe` |
| `Config` | `config.rs`; `handle_sighup`, `structurally_identical`, `swap_data_fields` | operators only, on `Cooling`'s `ValidCurve`; a file is a sequence of sections whose values are already read, or `Malformed` |
| `Channels` | `chip.rs`, `run_calibrate`, and start-up, reload and clean stop as far as they concern files and channels | `EXTENDS Config, Fan`; a boot's numbering, the channels' modes, a daemon and a calibration |
| `MCCooling`, `MCFaultTracker`, `MCPollLoop`, `MCPowerLimit`, `MCLifecycle`, `MCChannels` | | the instances TLC checks; they add inputs, files or a history. `MCCooling` and `MCFaultTracker` are also stated for any constants, and proved about |
| `CoolingProofs`, `MCCoolingProofs`, `FaultTrackerProofs`, `MCFaultTrackerProofs`, `PollLoopProofs`, `PowerLimitProofs`, `LifecycleProofs`, `ChannelsProofs` | | the theorems |

`PollLoop`'s `pc` is the place in the loop body: `LoopTop` is main.rs:231-247,
`ReadTemp` 248-268, `CheckPower` 270-334, `DriveFan` one fan's turn at 355-401,
`Slam` 403-405, `Feed` 408-413, `Sleep` 415-417.  The actions under "The machine
around the daemon" can happen between any two of them: `Drift` (suspend and
resume), `Break` (a rotor that seizes, a PWM register that is deaf to writes),
`GoBlind`, `Sigterm`.  `Hazards` names the ones an instance includes; `flaky_*`
let a single access fail.  GPUs and fans are numbered in visiting order.
`live` is `cfg`: with `reload` in `Hazards` a poll may begin under any of
`Configs`, which differ in bands, power limits, poll interval and thresholds.
`GpuThreshold`, `FanThreshold`, `MinRpm`, `MaxRpm` and `Grace` are the values copied
at start-up, and no reload changes them.

`PowerLimit` follows the same process, but only what concerns power limits:
`Start` and `Apply` are main.rs:114-150, `LoopTop` the loop's condition and
`handle_sighup`, `CheckPower` 270-334, `Restore` 429-431.  A configuration is the
record of those fields and of its structure, all that a reload compares taken
together: a start takes any file that loads, a reload only one of the running
structure (`Reloadable`).  `Rejected` is a file that does not load.  `Edit`,
`Sighup`, `Sigterm`, `ForeignWrite`, `Crash` and `Reboot` may happen at any time.  `PollLoop` keeps only the outcome of a check.

`Channels` has two processes of the same shape.  `StartDaemon` is main.rs:111-134
(load, scan, resolve, verify, all before the first fan is touched),
`StartCalibration` 720-731, `Take` a fan's turn in either takeover: the
calibration resolves and verifies only there.  `Reload` is `HandleSighup` of
whatever `load` answers for the file that lies there now; `Drive` the loop's
`ensure_manual_mode`; `Sweep` 753-785 with its percentages and the abort flag;
`RestoreNext` and `Exit` the end of either.  `Crash`, `Drift` and `Reboot` (with a
new numbering) may happen at any time.  `stranded` remembers that a process ended
with a channel it had not given back.  A handle in the daemon's map takes the
place of the one its id had (`Kept`), as `fans.insert` does.  Deaths and the watchdog are the business
of `Lifecycle`; here a death only ends the process.

`Lifecycle`'s `phase` is the place in `run_daemon`: `Refuse` and `Arm` are steps
1 to 4 of ADR-0003, `TakeFan` step 5 fan by fan, `Register` READY=1 and the
signal flags, `Poll` an iteration seen from afar, `Leave`, `RestoreFan` and
`Disarm` the shutdown.  Any death is `Die`: the process's memory is gone, the
channels and the kernel's timer are as they were.  Opening the device starts the
timer; a close without the magic `V` leaves it running, which is what
watchdog.rs:231-233 relies on (the documents are not of one mind: see
"Where code and documents disagree").  The driver's timeout, `limit`, is what
`Arm` made of the file's `timeout_s`, or the driver's own where setting it failed.
Two histories: `lost`, the fans in manual mode whose firmware mode nobody knows
any more, because the process found them so when it started or because its restore
failed; and `ended`, whether the last process crashed.

## What TLC checks

| Run | Question | Bounds |
|---|---|---|
| `cooling` | Does the arithmetic keep bands, ends, curve points and monotonicity? | every valid curve of 2 or 3 points over 3 temperatures and 3 percentages, two GPUs, two bands each, 11 temperatures and a failed read |
| `tracker` | Is the latch set exactly after a run longer than the threshold? | every history of up to 5 outcomes of each source (temperature, power, fan) of one GPU and one fan, in every interleaving, thresholds 1 and 2 |
| `loop_fault` | Does a fault of one group max both, do the fans of a group move together and never below a readable floor, is a healthy box left alone? | 2 GPUs with different bands, one temperature, 3 fans, two groups; failed reads, power failures, drift, slow fans; reloads to and fro between poll intervals 1 and 2, other bands, with and without power limits; a timeout of 5 which the driver takes as 3 |
| `loop_live` | Is the latch sound and the silence final, does every fault end in the reboot, is every dead sensor or rotor found? | 1 GPU, 1 fan, grace 2, timeout 5, one temperature; every hazard but failing temperature reads and power failures, reloads between two poll intervals |
| `channels` | Under which configurations can the daemon run? Does each fan drive its channel? Do all channels come back? | 3 devices in 6 numberings, 2 fans; the 70-odd files that one edit makes of a valid one, each rule met and missed by one; failing accesses, crashes, drift; chips and ids without repetition (see `find_repeated`) |
| `power` | How long can a GPU be above its limit? Does the daemon write what it was asked to and nothing else? Is a limit that cannot be set declared? | 2 GPUs, three configurations of one structure, one of another and a rejected file, intervals 1 and 2, one limit out of the driver's range; failing reads and sets, foreign writes (one of them less than a watt above), deaths, reboots |
| `life_safe` | Is a fan that can still be given back ever without a guard? Does the life cycle implement `FailSafe`? Does a fault reboot the box before systemd replaces the silent daemon? | 3 fans; every hazard but `close_disarms`, failing restores included; RestartSec 1, timeout 6, WatchdogSec 6, the shipped 5 s : 30 s : 30 s; also a timeout of 8, and a driver's own of 3 |

The thresholds are 1 or 2 so that a run of failures, a recovery and a second run
fit into a behaviour; nothing in the code looks at a counter but to compare it
with its threshold, and the proofs cover all values.  Two GPUs and three fans
are the least with which "another group" and "another fan of the group" exist;
three fans in `life_safe` give a takeover or a restore with a first, a middle and a
last fan.  A file of `channels` is one edit away from a valid one, which
reaches every rule and every field, and two edits away from every other file, which
is what a reload compares; the mixtures of longer sequences come from reloading
again.  Timeouts are the least that W5 admits, or small numbers in the order
the run asks about; with two poll intervals W5 admits 5.  The
kernel counts to `Accepted`, what the driver made of the `Timeout` that W5 saw:
the code logs the difference and goes on (watchdog.rs:186-197), and
`HealthyNeverRebooted` holds while the driver takes at least half of it
(`FeedsInTime`).  `spinAge`, `powerAge`, `downAge` stop at the limit they are
compared with; `wdAge` is bounded by the reboot.  Time is counted in polls and
passes in `Sleep` only, so a poll's own duration is taken as short against the
interval; a blocked NVML call is not modelled.

Fairness: `FairSpec` of `PollLoop` says the loop goes on while it can, weakly
fair.  The daemon is one thread whose only wait is a bounded sleep, and the loop
leaves by the flag or is ended by the reboot.  Nothing is assumed about the
machine: reads may fail or not, fans need not recover.  `FairSpec` of
`Lifecycle` adds that time passes and that a living process moves on, the one of
`Channels` that a calibration which was started goes on; nobody has to start,
stop or reload anything.

`loop_live` leaves out failing temperature reads and jumps on purpose: with them
`SeizedIsDetected` does not hold (`find_masked`); its reloads move the floor by no
more than the jump, for the same reason.  `channels` leaves out `overlap`, a daemon
that starts beside a calibration or the reverse: `is-active` does not exclude it,
and whoever comes second snapshots manual mode.

`life_safe` restarts the daemon while its predecessor's fans are still in manual
mode, as the shipped unit file does.  ADR-0003's window (`NoWindow`) is open then
(`find_restart`); `Guarded`, `FailSafeSpec` and `SnapshotsAreFirmware` say what remains:
everything holds for the fans outside `lost`, so that an early restart or a
failed restore costs the fans it touched and no other.  `FaultStopsTheTimer` and
`KernelBeforeSystemd` speak of a kernel timeout no longer than WatchdogSec, as
shipped: no rule of `validate` asks for it, and with a longer one (the 8 of the
run) systemd aborts the silent daemon first, the restarted one feeds the
watchdog again, and the fault is forgotten.  A crash after the fault has the same
effect, whatever the timeouts, and is excused as an operator's stop is: the fault
lives in the process's memory only.

### Where code and documents disagree

| Run | What happens |
|---|---|
| `find_rearm` | a re-arm re-enters spin-up, but the elapsed time still runs from start-up, so the next reading is counted as a stall |
| `find_masked` | reads that fail now and then make the duty jump, and each jump hides a seized fan for another grace window |
| `find_restart` | a restart within the watchdog's timeout snapshots manual mode; a clean stop then leaves the fans in it and disarms (shipped: RestartSec 5 s, timeout 30 s) |
| `find_stale` | a reload that lowers a failure threshold is logged as done, but the tracker keeps counting against its own copy (docs/PLAN.md:657-660 lists the thresholds as hot-reloadable) |
| `find_repeated` | two `[fan:x]` sections with different channels are accepted; the maps by id keep the second, and the first channel, taken over, is neither driven nor restored |

Two more disagreements are among the documents themselves, with the code on one
side; the models follow the code.

*Does the timer survive the daemon's death?*  watchdog.rs:231-233 ("without it, the
kernel reboots after timeout_s"), PLAN.md:384, step 4 of ADR-0003 and
CONFIG-TUTORIAL.md:318 say it does, and the whole fail-safe rests on it.
PLAN.md:696 says that on a crash the kernel closes the device and "with
`nowayout=0` (documented prerequisite) this auto-disarms the timer", and goes on to
count on the same timer's expiry "(b)" for the way back to the firmware;
the repository's README.md:32-34 leans the same way, as it has a crash reboot the
box "with `nowayout=1`".  Both happen: a driver that
knows the magic close keeps the timer running without the `V`, one that does not
know it stops the timer at any close, and the code never asks which one it has
(`WDIOF_MAGICCLOSE`).  `Lifecycle` has the second reading as the adversity
`close_disarms`, under which `Guarded` and `FailSafeSpec` fail with the first crash
after a takeover: the fans stay in manual mode and nothing is left to reboot
the box.  `life_safe` leaves it out, and the theorems that need the first reading
name it as their hypothesis `Survives`.

*Does a fault take `threshold` failures or one more?*  The code declares it
"strictly above" the threshold (watchdog.rs:69-71, 79, 101, 126), and so say its tests,
PLAN.md:391 and :401 ("crosses", ">") and CONTEXT.md:27 ("exceeds").  PLAN.md:178-179
("on fan_fail_threshold consecutive polls"), PLAN.md:795-796 and CONTEXT.md:30 and :52
have it on the `threshold`-th failure in a row, one poll earlier.
`FaultExactlyOnRun` states what the code does: under the other reading it would fail on the
history of exactly `threshold` failures.

Three more behaviours a reader should know of, which the models have and no run
asks about.  `resolve` ignores `device_path` (deferred, says chip.rs:91), which rule
S9 counts as a part of a fan's identity and CONFIG-TUTORIAL.md:68 recommends for two
chips of one name: with such a file and two such chips `NobodyLeftBehind` and
`EachFanItsChannel` fail in `Channels`, the two fans having one channel.  After the failing source recovers, the fans follow the curve again
although the fault stands and the watchdog stays silent (`should_slam` is per
poll; CONTEXT.md:44 can be read otherwise).  And a SIGHUP and a SIGTERM in one
sleep end in a shutdown under the old configuration, since the loop looks at the
shutdown flag first, so that the restore of power limits CONFIG-TUTORIAL.md:221-225
configures may not happen.

Quietly accepted by the code, and so by `Config`: repeated [global] or [watchdog]
sections (the last wins); a fan with only a `device_path` (rule F5 lets it pass,
`resolve` then refuses); a changed `log_file` or `watchdog.enabled` at a reload,
which is neither compared nor taken over, so `ReloadIsWhole` exempts both.  It
speaks of the configuration, not of the copies start-up made of it: a new `min_rpm`,
`max_rpm` or grace does not reach the fans, nor a new `log_level` the logger,
although PLAN.md:661-662 lists `min_rpm`, `max_rpm` and `log_level` as hot-reloadable.

`find_masked` also shows why `ReadableFloor` speaks of readable GPUs only: a failed
read of a group's only GPU drives its fans at 0 percent, below `min_fan_pct`.

## What is proved

Every invariant and every action property of the passing runs is also a theorem,
for every value of the constants that satisfies the modules' assumptions, and so
is the refinement of `FailSafe`.  The assumptions are `NoTempAssumption`,
`MCCoolingAssumption` (the views are such as rules G1 to G8 let pass),
`ThresholdAssumption`, `FanAssumption`, `LoopAssumption`, `ConfigAssumption` (G1 to
G8 and W5), `PowerAssumption`, `LifecycleAssumption` and `ChannelsAssumption`; TLC
evaluates them in the runs.

| Module | Theorems | For |
|---|---|---|
| `CoolingProofs` | `PwmIsFaithful`, `CurveNeverFalls`, `TargetInBand`, `TargetNeverFalls` | all percentages, valid curves, bands, groups |
| `MCCoolingProofs` | `BandsHold`, `EndsKept`, `CurvesFollowed`, `NeverSlower` | the properties of the run `cooling` |
| `FaultTrackerProofs` | `TrackerCorrect`, `LatchHolds` | |
| `MCFaultTrackerProofs` | `ExactlyOnRun` | histories of any length |
| `PollLoopProofs` | `LoopTypes`, `LoopLatched`, `FaultIsFinal`, `NoSpuriousReboot`, `FaultMaxesAll`, `GroupsMoveTogether`, `FloorsHold` | every hazard, failing reads and reloads included |
| `PowerLimitProofs` | `PowerTypes`, `OnlyAskedWrites`, `ExposureHolds` | every hazard |
| `LifecycleProofs` | `LifeTypes`, `SnapshotsCanRestore`, `KernelIsFirst` | any timeouts and restart delay, every hazard |
| | `AlwaysGuarded`, `LifeImplementsFailSafe` | the same, with `Survives` |
| | `SlowRestartsLeaveNoWindow` | `Survives`, `SlowRestarts` |
| `ChannelsProofs` | `BoxTypes`, `MixturesStayValid` | any files, every hazard |
| | `ReloadsAreWhole` | `FilesUnambiguous` |
| | `FansKeepTheirChannels` | `FilesDrivable` |
| | `ChannelsGoBack` | `FilesDrivable`, no `overlap` |

**Arithmetic.**  `TargetInBand` rests on `FirstWindow` (a temperature inside a
curve has a first window, so the search never falls through), `BetweenTwoPoints`
(the truncating interpolation stays between its two points) and `MaxPercent` (the
maximum exists); existence comes from the well-foundedness of the naturals.
`EvaluateIsLine` says that any window around a temperature gives the answer, not
only the first, which is where two windows meet; with `CurveRises` (a curve rises
from any point to any later one, by a least counterexample) and `LineRises`
(division truncates monotonically) it gives `CurveNeverFalls`.  The clamp and the
maximum keep the order (`ClampRises`, `TargetNeverFalls`).

**Tracker.**  `ExactlyOnRun` is proved from `Tracked`: each counter is the length
of the run of failures its source's history ends in, cut at threshold + 1, beyond
which the code's comparison cannot tell counts apart.  A tick of one source
leaves the other histories and counters alone (`Moved`).

**Main loop.**  `LoopInv` adds two facts to the types: `Ticking`, the watchdog
expires in a `Sleep` and nowhere else, without which `wdAge` could leave its
range; and `Fed`, without a fault the watchdog is never older than one poll, which
W5 makes less than half its timeout under whichever configuration the poll began
(`LivePoll`), and so less than what the driver accepts if that is at least half.
`DutyInv` relates the place in the poll to the fans: `GpusAnnounced` and
`PowerAnnounced`, a counter that went over its threshold in this poll has set
`should_slam`; `Following`, the fans that had their turn are at the target of
their group; `Maxed`, after a slam every fan that obeys is at full duty until the
feed.  A power counter's age is 0 only within the poll of its check, which is why
`LoopAssumption` needs the longest interval to be positive (P4 asks for at
least 10 s).  The three properties of `loop_fault` about duties follow.

**Power limits.**  `ExposureInv` says that the polls a GPU has been above its
limit are paid for by its failed checks, a longest interval each, and by the
polls since the last check (`Owed`); and that after its turn in a poll a GPU's
check is never due, without which that age could stand still while the exposure
grows.  `OnlyAskedWrites` needs the types only.

**Life cycle.**  Nothing is assumed of restarts, timeouts or restores.  The one
hypothesis is `Survives`: a close without the `V` leaves the timer running
(`close_disarms` is not among the hazards), which is a fact about the driver.
`Snaps` follows the fans along `run_daemon`: before its takeover a fan is `Home`,
in the firmware's mode, or lost; after it is `Known`, its snapshot the firmware's, or
lost; in the shutdown it is at home again once restored.  It needs no condition,
since `Start` puts every fan that is found in manual mode into `lost` and no other step
can spoil a snapshot.  `Timer` adds that the timer runs from `Arm` to `Disarm` and,
however the process ended, that it is idle only with every fan at home; that is
where `Survives` is used.  The refinement maps `held` to the fans in manual mode
outside `lost` and goes action by action.  `KernelIsFirst` rests on `Pace`: while
systemd watches the daemon, its clock is never ahead of the kernel's, because the
takeover comes between `Arm` and READY=1 and a poll that feeds one feeds the other.
`SlowRestartsLeaveNoWindow` closes ADR-0003's window under a condition that the
shipped unit file does not meet, a restart no earlier than the longest
timeout and no failing restore; `find_restart` shows that it is needed.

**Configuration and reload.**  What `Parse` returns has a shape that depends on
the kinds of sections only (`Shaped`), so the fields of a running and a new
configuration correspond.  `MixturesStayValid` goes rule by rule over the mixture
that a swap makes of two valid, structurally identical configurations: most
rules see only fields that were kept, as S1 to S9 do, or only fields that came
together from the new file, as G1 to G8 and P2 do; W5 sees new thresholds and a
kept timeout, which the files share.  Repeated ids do no harm there: each block
takes its fields from some block of the new file.  `ReloadsAreWhole` needs
`FilesUnambiguous`, ids that tell the blocks of each kind apart: with a repeated
id both blocks get the last one's fields.

**Channels.**  `Placed`: the j-th handle drives the channel the j-th fan names, and
no two handles share one, from the first takeover through every reload, which
changes no fan's identity.  `FilesDrivable` asks for ids and channels of their own
(another number, chip or path): `validate` promises neither, as no rule compares ids
and S9 does not compare `hwmon_path` nor a chip with the one behind a path.
`MCChannels` states that the files of `channels` are such and those of
`find_repeated` are not.  `Returning`: a process that is down has no handles, at
most one process is up, and while nothing was stranded every handle's snapshot is
the firmware's and every channel in manual mode has a handle (`Remembered`).

Left to TLC: `FaultEndsInReboot`, `BlindIsDetected`, `SeizedIsDetected`,
`FaultStopsTheTimer`, `UnmeetableIsDeclared` and `CalibrationGivesBack`.  They are
liveness under fairness, which the prover cannot reason about (nor about
ENABLED).

## What is not modelled, and the plan

Worth proving next: the safety half of the liveness properties, such as a bound
on the polls between a GPU's last answer and the fault (`BlindIsDetected` without
the clock), or on the time from a fault to the reboot; both are invariants with
a history variable, of the kind of `ExposureBounded`.

Left out for good: the rest of the NVML wrapper, the logger, the text of notifications and
log lines, the syntax of INI files and of single values (a key has a value, is
blank or does not parse), install and helper scripts (I/O without protocol), and the mode with
`watchdog.enabled = false`, which by its own warning has no fail-safe.  Time inside
a poll is not modelled: a call into NVML or sysfs that blocks is beyond what the
code could answer to.
