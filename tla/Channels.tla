------------------------------ MODULE Channels ------------------------------
(***************************************************************************)
(* Which hwmon channel a configured fan gets, and how channels come back:  *)
(* chip discovery (chip.rs), start-up, reload and clean stop of the daemon *)
(* as far as they concern the configuration and the channels, and the      *)
(* calibration command (main.rs, run_calibrate), which takes fans over     *)
(* without a watchdog.  The kernel numbers the hwmon directories anew at   *)
(* every boot; an operator edits the file at any time, so that a load      *)
(* reads whatever was written last.                                        *)
(*                                                                         *)
(* Of a fan's record (Fan) only the channel's mode and the snapshot matter *)
(* here.  What deaths do to the watchdog, and with it to the box, is in    *)
(* Lifecycle; here they only end a process without a restore.              *)
(***************************************************************************)
EXTENDS Config, Fan

CONSTANTS
    Devices,      \* the hwmon devices of the box
    ChipName,     \* device -> the contents of its name file, or NoName
    PwmChannels,  \* device -> the n with pwmN, pwmN_enable and fanN_input
    Dirs,         \* the directories hwmon0, hwmon1, ... they appear under
    NoName,
    Files,        \* what the operator may write into the configuration file
    Hazards       \* which adverse events this instance includes

Processes == {"daemon", "calibration"}
Adversities == {"overlap", "crash", "flaky_sysfs", "drift"}

VARIABLES
    dirs,      \* directory -> device, in this boot
    mode,      \* channel -> what its pwmN_enable holds
    proc,      \* process -> its place and its memory
    stranded   \* history: a process ended without giving a channel back

vars == <<dirs, mode, proc, stranded>>

Channel == UNION {{d} \X PwmChannels[d] : d \in Devices}
Numberings == {m \in [Dirs -> Devices] : IsInjective(m)}

ASSUME ChannelsAssumption ==
    /\ IsFiniteSet(Devices) /\ DOMAIN ChipName = Devices
    /\ PwmChannels \in [Devices -> SUBSET (Nat \ {0})]
    /\ Hazards \subseteq Adversities

(* What load may answer: the file may have become any of Files.            *)
Loads == {Load(file) : file \in Files}

-----------------------------------------------------------------------------
(* Phases: "down", "taking" (take_manual_control, fan by fan), "running"   *)
(* (the daemon's loop), "sweeping" (the calibration's), "restoring".       *)
Down == [phase |-> "down", cfg |-> None, chips |-> <<>>, handles |-> <<>>,
         next |-> 1, pct |-> 10]

FanIds == UNION {Ids(cfg.fans) : cfg \in Loads \ {Rejected}}
Handle == [id : FanIds, at : Channel, snapshot : {BiosMode, Manual}]

TypeOK ==
    /\ dirs \in Numberings /\ stranded \in BOOLEAN
    /\ mode \in [Channel -> {BiosMode, Manual}]
    /\ DOMAIN proc = Processes
    /\ \A p \in Processes :
          /\ proc[p].phase \in {"down", "taking", "restoring",
                                IF p = "daemon" THEN "running" ELSE "sweeping"}
          /\ proc[p].handles \in Seq(Handle)
          /\ proc[p].phase = "sweeping" => proc[p].next \in DOMAIN proc[p].handles
          /\ proc[p].pct \in {5 * k : k \in 2..12}

Init ==
    /\ dirs \in Numberings
    /\ mode = [ch \in Channel |-> BiosMode]
    /\ proc = [p \in Processes |-> Down]
    /\ stranded = FALSE

-----------------------------------------------------------------------------
(* Mutants.                                                                *)

(* An abort that leaves at once.                                           *)
SweepAborting ==
    LET c == proc["calibration"]
    IN  /\ c.phase = "sweeping"
        /\ proc' = [proc EXCEPT !["calibration"] =
              IF c.pct < 60 THEN [c EXCEPT !.pct = @ + 5] ELSE Down]
        /\ UNCHANGED <<dirs, mode, stranded>>

(* The end of the sweep looked for in the percentages only.                *)
SweepPastTheEnd ==
    LET c == proc["calibration"]
    IN  /\ c.phase = "sweeping"
        /\ proc' = [proc EXCEPT !["calibration"] =
              IF c.pct < 60 THEN [c EXCEPT !.pct = @ + 5]
              ELSE [c EXCEPT !.pct = 10, !.next = @ + 1]]
        /\ UNCHANGED <<dirs, mode, stranded>>

(* The chip's name before the literal path.                                *)
ResolveChipFirst(chips, fan) ==
    IF fan.chip \in DOMAIN chips THEN chips[fan.chip]
    ELSE IF fan.hwmon_path \in Dirs THEN fan.hwmon_path ELSE None

-----------------------------------------------------------------------------
(* chip::scan: the chip names and, for each, a directory of that name; of  *)
(* several the one read_dir lists last, in an order of its own.            *)
Scans ==
    LET names == {ChipName[d] : d \in Devices} \ {NoName}
    IN  {m \in [names -> Dirs] : \A n \in names : ChipName[dirs[m[n]]] = n}

(* chip::resolve: hwmon_path, which must exist, before chip; device_path   *)
(* is not looked at.  None is an error.                                    *)
Resolve(chips, fan) ==
    IF fan.hwmon_path # None
    THEN IF fan.hwmon_path \in Dirs THEN fan.hwmon_path ELSE None
    ELSE IF fan.chip \in DOMAIN chips THEN chips[fan.chip] ELSE None

(* verify_fan_sysfs (R2).                                                  *)
HasFiles(path, fan) == path # None /\ fan.pwm_channel \in PwmChannels[dirs[path]]

(* The directory a process uses for a fan: the daemon keeps them by id.    *)
Path(p, fan) ==
    Resolve(proc[p].chips,
            IF p = "daemon" THEN LastWithId(proc[p].cfg.fans, fan.id) ELSE fan)

(* The fan behind a handle, and what can come of an access to it.          *)
FanOf(h) == [Open(mode[h.at], 255) EXCEPT !.snapshot = h.snapshot]
Failing == IF "flaky_sysfs" \in Hazards THEN Access ELSE {"none"}

(* A new handle: in the daemon's map it takes the place of the one its id  *)
(* had before, which is dropped.                                           *)
Kept(p, handles, h) ==
    IF p = "daemon" /\ \E i \in DOMAIN handles : handles[i].id = h.id
    THEN [i \in DOMAIN handles |-> IF handles[i].id = h.id THEN h ELSE handles[i]]
    ELSE Append(handles, h)

-----------------------------------------------------------------------------
Enter(p, cfg, chips) ==
    /\ proc[p].phase = "down"
    /\ proc' = [proc EXCEPT ![p] = [Down EXCEPT !.phase = "taking", !.cfg = cfg,
                                                !.chips = chips]]
    /\ UNCHANGED <<dirs, mode, stranded>>

(* run_daemon up to the takeover: every fan is resolved and verified       *)
(* before the first is touched; otherwise it refuses, as if never started. *)
StartDaemon ==
    /\ "overlap" \in Hazards \/ proc["calibration"].phase = "down"
    /\ \E cfg \in Loads \ {Rejected}, chips \in Scans :
          /\ \A f \in Range(cfg.fans) : HasFiles(Resolve(chips, f), f)
          /\ Enter("daemon", cfg, chips)

(* run_calibrate, which uses the fans of its configuration only.           *)
(* `systemctl is-active` knows a daemon only once it is ready.             *)
StartCalibration ==
    /\ proc["daemon"].phase # "running"
    /\ "overlap" \in Hazards \/ proc["daemon"].phase = "down"
    /\ \E cfg \in Loads \ {Rejected}, chips \in Scans :
          Enter("calibration", Only(cfg, {"fans"}), chips)

(* The process ends with its handles: no one else knows the snapshots.     *)
End(p) ==
    /\ proc' = [proc EXCEPT ![p] = Down]
    /\ stranded' = (stranded \/ proc[p].handles # <<>>)

(* The next fan is taken over.  The calibration resolves and verifies it   *)
(* only now; an error ends the process, without restoring the ones before. *)
Take(p) ==
    /\ proc[p].phase = "taking"
    /\ proc[p].next <= Len(proc[p].cfg.fans)
    /\ LET f    == proc[p].cfg.fans[proc[p].next]
           path == Path(p, f)
       IN  IF ~HasFiles(path, f) THEN End(p) /\ UNCHANGED mode
           ELSE \E fails \in Failing :
                  LET at    == <<dirs[path], f.pwm_channel>>
                      taken == TakeManualControl(Open(mode[at], 255), fails)
                      h     == [id |-> f.id, at |-> at, snapshot |-> taken.fan.snapshot]
                  IN  IF ~taken.ok THEN End(p) /\ UNCHANGED mode
                      ELSE /\ mode' = [mode EXCEPT ![at] = taken.fan.enable]
                           /\ proc' = [proc EXCEPT ![p].next = @ + 1,
                                                   ![p].handles = Kept(p, @, h)]
                           /\ UNCHANGED stranded
    /\ UNCHANGED dirs

(* All are taken: READY=1, or the signal flags of the calibration.  The    *)
(* chips have served.                                                      *)
Ready(p) ==
    /\ proc[p].phase = "taking"
    /\ proc[p].next > Len(proc[p].cfg.fans)
    /\ proc' = [proc EXCEPT ![p].phase = IF p = "daemon" THEN "running" ELSE "sweeping",
                            ![p].chips = <<>>, ![p].next = 1]
    /\ UNCHANGED <<dirs, mode, stranded>>

Reload(new) ==
    /\ proc["daemon"].phase = "running"
    /\ proc' = [proc EXCEPT !["daemon"].cfg = HandleSighup(@, new)]
    /\ UNCHANGED <<dirs, mode, stranded>>

(* A set re-arms the channel (of the duty see PollLoop).                   *)
Rearmed(h) ==
    \E fails \in Failing :
        mode' = [mode EXCEPT ![h.at] = EnsureManual(FanOf(h), fails).fan.enable]

Drive ==
    /\ proc["daemon"].phase = "running"
    /\ \E h \in Range(proc["daemon"].handles) : Rearmed(h)
    /\ UNCHANGED <<dirs, proc, stranded>>

(* One step of the sweep: `break 'outer` on the abort flag, or a set of    *)
(* pct, 4 s and a reading; from 10 to 60 percent and on to the next fan.   *)
Sweep ==
    LET c == proc["calibration"]
    IN  /\ c.phase = "sweeping"
        /\ \/ /\ proc' = [proc EXCEPT !["calibration"].phase = "restoring"]
              /\ UNCHANGED mode
           \/ /\ Rearmed(c.handles[c.next])
              /\ proc' = [proc EXCEPT !["calibration"] =
                    IF c.pct < 60 THEN [c EXCEPT !.pct = @ + 5]
                    ELSE IF c.next < Len(c.handles) THEN [c EXCEPT !.pct = 10, !.next = @ + 1]
                    ELSE [c EXCEPT !.phase = "restoring"]]
        /\ UNCHANGED <<dirs, stranded>>

Stop ==
    /\ proc["daemon"].phase = "running"
    /\ proc' = [proc EXCEPT !["daemon"].phase = "restoring"]
    /\ UNCHANGED <<dirs, mode, stranded>>

(* The handles are restored one by one, the daemon's in the order of a     *)
(* HashMap; one that fails is logged and left.  Then the process exits.    *)
RestoreNext(p) ==
    /\ proc[p].phase = "restoring"
    /\ \E i \in IF p = "daemon" THEN DOMAIN proc[p].handles ELSE {1} \cap DOMAIN proc[p].handles,
          fails \in Failing :
          LET h    == proc[p].handles[i]
              done == Restore(FanOf(h), fails)
          IN  /\ mode' = [mode EXCEPT ![h.at] = done.fan.enable]
              /\ stranded' = (stranded \/ ~done.ok)
              /\ proc' = [proc EXCEPT ![p].handles = RemoveAt(@, i)]
    /\ UNCHANGED dirs

Exit(p) ==
    /\ proc[p].phase = "restoring" /\ proc[p].handles = <<>>
    /\ End(p)
    /\ UNCHANGED <<dirs, mode>>

Step(p) == Take(p) \/ Ready(p) \/ RestoreNext(p) \/ Exit(p)
Daemon == StartDaemon \/ Step("daemon") \/ Drive \/ Stop
          \/ \E new \in Loads : Reload(new)
Calibration == StartCalibration \/ Step("calibration") \/ Sweep

-----------------------------------------------------------------------------
(* SIGKILL, or a signal before its flag is registered.                     *)
Crash(p) ==
    /\ "crash" \in Hazards /\ proc[p].phase # "down"
    /\ End(p)
    /\ UNCHANGED <<dirs, mode>>

Drift(ch) ==
    /\ "drift" \in Hazards /\ mode[ch] = Manual
    /\ mode' = [mode EXCEPT ![ch] = BiosMode]
    /\ UNCHANGED <<dirs, proc, stranded>>

(* Also the kernel's answer to an unfed watchdog.                          *)
Reboot ==
    /\ dirs' \in Numberings
    /\ mode' = [ch \in Channel |-> BiosMode]
    /\ proc' = [p \in Processes |-> Down]
    /\ stranded' = FALSE

Next ==
    \/ Daemon \/ Calibration
    \/ Reboot
    \/ \E p \in Processes : Crash(p)
    \/ \E ch \in Channel : Drift(ch)

Spec == Init /\ [][Next]_vars
(* A calibration that was started goes on; nobody has to start one.        *)
FairSpec == Spec /\ WF_vars(Step("calibration") \/ Sweep)
-----------------------------------------------------------------------------
(* What validate does not ask of a file, and what the theorems about       *)
(* reloads and channels need: ids that tell the blocks apart, and channels *)
(* that the text tells apart, by number, by chip or by path.  S9 does not  *)
(* compare hwmon_path, and no rule a chip with the one behind a path.      *)
DistinctIds(blocks) == \A i, j \in DOMAIN blocks : blocks[i].id = blocks[j].id => i = j
Unambiguous(c) == DistinctIds(c.gpus) /\ DistinctIds(c.fans) /\ DistinctIds(c.groups)

Apart(f, g) ==
    \/ f.pwm_channel # g.pwm_channel
    \/ f.hwmon_path = None /\ g.hwmon_path = None /\ f.chip # g.chip
    \/ f.hwmon_path # None /\ g.hwmon_path # None /\ f.hwmon_path # g.hwmon_path
OneChannelEach(fans) == \A i, j \in DOMAIN fans : i # j => Apart(fans[i], fans[j])

FilesUnambiguous == \A c \in Loads \ {Rejected} : Unambiguous(c)
FilesDrivable ==
    \A c \in Loads \ {Rejected} : DistinctIds(c.fans) /\ OneChannelEach(c.fans)

-----------------------------------------------------------------------------
(* Whatever sequence of files was loaded and reloaded, the configuration   *)
(* that results is one validate accepts: rules that relate a swapped field *)
(* to one that stays (W5 to the timeout, S4 and S5 to the groups) or two   *)
(* swapped ones (P2) hold of the mixture.                                  *)
RunningIsValid == proc["daemon"].phase # "down" => Valid(proc["daemon"].cfg)

(* A reload takes effect whole: afterwards the running configuration says  *)
(* what the file says, but for the log file and watchdog.enabled, which    *)
(* are not compared either, and the order of the sections.                 *)
Says(c, new) ==
    /\ c.global = [new.global EXCEPT !.log_file = c.global.log_file]
    /\ c.watchdog = [new.watchdog EXCEPT !.enabled = c.watchdog.enabled]
    /\ Range(c.gpus) = Range(new.gpus)
    /\ Range(c.fans) = Range(new.fans)
    /\ Range(c.groups) = Range(new.groups)

ReloadIsWhole ==
    [][LET old == proc["daemon"].cfg
           cfg == proc'["daemon"].cfg
       IN  proc["daemon"].phase = "running" /\ cfg \notin {old, None} =>
               \A new \in Loads : HandleSighup(old, new) = cfg => Says(cfg, new)]_vars

(* A handle on the channel a fan names, of the chip or under the path it   *)
(* names.                                                                  *)
Drives(h, f) ==
    /\ h.id = f.id /\ h.at[2] = f.pwm_channel
    /\ IF f.hwmon_path = None THEN ChipName[h.at[1]] = f.chip
       ELSE f.hwmon_path \in Dirs /\ h.at[1] = dirs[f.hwmon_path]

(* S9 ("competing writes"), R1 and R2 together: through every renumbering, *)
(* edit and reload, each fan of the running configuration has a handle on  *)
(* its channel, and no two share one.                                      *)
EachFanItsChannel ==
    LET d == proc["daemon"]
    IN  d.phase = "running" =>
            /\ \A f \in Range(d.cfg.fans) : \E h \in Range(d.handles) : Drives(h, f)
            /\ Cardinality({h.at : h \in Range(d.handles)}) = Len(d.cfg.fans)

(* ADR-0002: on a clean shutdown every touched channel goes back to the    *)
(* firmware.  When no process is left and none was cut short, no channel   *)
(* is in manual mode, which then nobody would watch.                       *)
NobodyLeftBehind ==
    (\A p \in Processes : proc[p].phase = "down") /\ ~stranded
        => \A ch \in Channel : mode[ch] = BiosMode

(* docs/PLAN.md on calibration: it restores the snapshots when it is done  *)
(* or aborted.  So a sweep always comes to an end, with every channel back *)
(* in the firmware's hands unless some process was cut short.              *)
CalibrationGivesBack ==
    proc["calibration"].phase = "sweeping"
        ~> /\ proc["calibration"].phase = "down"
           /\ stranded \/ \A ch \in Channel : mode[ch] = BiosMode
=============================================================================
