------------------------------- MODULE Config -------------------------------
(***************************************************************************)
(* The configuration (config.rs) and its reload (main.rs, handle_sighup):  *)
(* what load accepts, and what a reload does to the running configuration. *)
(* The code is pure, so this module is a set of operators.                 *)
(*                                                                         *)
(* A file is a sequence of sections [kind, id, keys]; "keys" maps the keys *)
(* that are present to what the key's own parser makes of the text, None   *)
(* for a blank optional text, Malformed for text it refuses.  Sections may *)
(* repeat, also with the same id.  A configuration is a record of the two  *)
(* single sections and the sequences of the others.  A rule that is broken *)
(* and a file that does not parse have the same consequence, Rejected;     *)
(* unknown keys only warn (T2).                                            *)
(***************************************************************************)
EXTENDS Cooling, SequencesExt

CONSTANTS
    Malformed,   \* text that does not parse as what its key wants
    None,        \* an optional key without a value
    Rejected     \* load's Err

-----------------------------------------------------------------------------
(* Mutants.                                                                *)

(* One field forgotten in the comparison, one in the swap.                 *)
IdenticalButForTheTimeout(a, b) ==
    /\ a.watchdog.device = b.watchdog.device
    /\ {<<g.id, g.nvml_index>> : g \in Range(a.gpus)} = {<<g.id, g.nvml_index>> : g \in Range(b.gpus)}
    /\ {<<f.id, f.chip, f.pwm_channel>> : f \in Range(a.fans)} =
          {<<f.id, f.chip, f.pwm_channel>> : f \in Range(b.fans)}
    /\ Range(a.groups) = Range(b.groups)

SwapWithoutTheMaximum(running, new) ==
    [new EXCEPT !.global.power_limit_validate_max_w =
                    running.global.power_limit_validate_max_w]

-----------------------------------------------------------------------------
(* Parsing.                                                                *)
Required ==
    [global   |-> {"config_version", "poll_interval_ms", "log_level"},
     watchdog |-> {"enabled", "device", "timeout_s", "gpu_fail_threshold"},
     gpu      |-> {"nvml_index", "curve", "min_fan_pct", "max_fan_pct"},
     fan      |-> {"pwm_channel", "min_rpm", "max_rpm", "fan_fail_threshold",
                   "spin_up_grace_s"},
     group    |-> {"gpus", "fans"}]

Default ==
    [global   |-> [log_file |-> None, power_limit_check_interval_s |-> 120,
                   power_limit_restore_on_shutdown |-> FALSE,
                   power_limit_validate_max_w |-> 1000],
     watchdog |-> <<>>,
     gpu      |-> [power_limit_enabled |-> FALSE, power_limit_w |-> None],
     fan      |-> [chip |-> None, device_path |-> None, hwmon_path |-> None],
     group    |-> <<>>]

Kinds == DOMAIN Required
Known(kind) == Required[kind] \cup DOMAIN Default[kind]

(* A section's header is one of the five kinds (T1), its required keys are *)
(* there, and every known key's text is what the key wants.                *)
SectionParses(s) ==
    /\ s.kind \in Kinds
    /\ Required[s.kind] \subseteq DOMAIN s.keys
    /\ \A k \in Known(s.kind) \cap DOMAIN s.keys :
          s.keys[k] # Malformed /\ (k = "curve" => ValidCurve(s.keys[k]))

(* A duty is cut to a byte, so that 300 percent is read as 255.            *)
Value(kind, s, k) ==
    IF k \notin DOMAIN s.keys THEN Default[kind][k]
    ELSE IF k \in {"min_fan_pct", "max_fan_pct"} /\ s.keys[k] > 255 THEN 255
    ELSE s.keys[k]

Fields(kind, s) == [k \in Known(kind) |-> Value(kind, s, k)]
Block(kind, s) ==
    [k \in {"id"} \cup Known(kind) |-> IF k = "id" THEN s.id ELSE Value(kind, s, k)]

Sections(file, kind) == SelectSeq(file, LAMBDA s : s.kind = kind)
Blocks(file, kind) ==
    LET own == Sections(file, kind)
    IN  [i \in 1..Len(own) |-> Block(kind, own[i])]

Parses(file) ==
    /\ \A i \in DOMAIN file : SectionParses(file[i])
    /\ \A kind \in {"global", "watchdog"} : Sections(file, kind) # <<>>

(* The last of several [global] or [watchdog] sections wins; the others    *)
(* add up, also under one id.                                              *)
Parse(file) ==
    [global   |-> Fields("global", Last(Sections(file, "global"))),
     watchdog |-> Fields("watchdog", Last(Sections(file, "watchdog"))),
     gpus     |-> Blocks(file, "gpu"),
     fans     |-> Blocks(file, "fan"),
     groups   |-> Blocks(file, "group")]

-----------------------------------------------------------------------------
(* Validation, by the families of rules in config.rs.                      *)
Ids(blocks) == {b.id : b \in Range(blocks)}

(* How often the groups name id on one side, "gpus" or "fans".             *)
References(c, side, id) ==
    Cardinality(UNION {{<<i, j>> : j \in {k \in DOMAIN c.groups[i][side] :
                                             c.groups[i][side][k] = id}} :
                           i \in DOMAIN c.groups})

Selector(fan) == <<fan.chip, fan.device_path, fan.pwm_channel>>

StructureRules(c) ==
    /\ c.gpus # <<>> /\ c.fans # <<>> /\ c.groups # <<>>                \* S1-S3
    /\ \A id \in Ids(c.gpus) : References(c, "gpus", id) = 1            \* S4
    /\ \A id \in Ids(c.fans) : References(c, "fans", id) = 1            \* S5
    /\ \A g \in Range(c.groups) :
          /\ g.gpus # <<>> /\ g.fans # <<>>                             \* S6
          /\ Range(g.gpus) \subseteq Ids(c.gpus)                        \* S7
          /\ Range(g.fans) \subseteq Ids(c.fans)
    /\ \A i, j \in DOMAIN c.gpus :                                      \* S8
          c.gpus[i].nvml_index = c.gpus[j].nvml_index => i = j
    /\ \A i, j \in DOMAIN c.fans :                                      \* S9
          Selector(c.fans[i]) = Selector(c.fans[j]) => i = j

GpuRules(c) ==
    \A g \in Range(c.gpus) :
        /\ ValidCurve(g.curve)                                          \* G1-G4
        /\ \A p \in Range(g.curve) : p[1] \in 0..110 /\ p[2] \in Percent
        /\ g.min_fan_pct <= g.max_fan_pct                               \* G7
        /\ {g.min_fan_pct, g.max_fan_pct} \subseteq Percent             \* G8

FanRules(c) ==
    \A f \in Range(c.fans) :
        /\ f.min_rpm < f.max_rpm                                        \* F1
        /\ f.fan_fail_threshold >= 1                                    \* F2
        /\ f.pwm_channel >= 1                                           \* F4
        /\ {f.chip, f.device_path, f.hwmon_path} # {None}               \* F5

Thresholds(c) ==
    {c.watchdog.gpu_fail_threshold} \cup {f.fan_fail_threshold : f \in Range(c.fans)}

(* What the bounded keys may be.                                           *)
Timeouts == 5..600
PollIntervals == 100..10000
CheckIntervals == 10..3600
WattCeilings == 100..10000

WatchdogRules(c) ==
    /\ c.watchdog.device # None                                         \* W1
    /\ c.watchdog.timeout_s \in Timeouts                                \* W2
    /\ c.watchdog.gpu_fail_threshold >= 1                               \* W3
    /\ c.global.poll_interval_ms \in PollIntervals                      \* W4
    /\ \A t \in Thresholds(c) :                                         \* W5
          c.global.poll_interval_ms * t < c.watchdog.timeout_s * 500
    /\ c.global.config_version = 1                                      \* W7

PowerRules(c) ==
    /\ \A g \in Range(c.gpus) :
          /\ g.power_limit_enabled => g.power_limit_w # None            \* P1
          /\ g.power_limit_w # None =>                                  \* P2
                g.power_limit_w \in 25..c.global.power_limit_validate_max_w
    /\ c.global.power_limit_check_interval_s \in CheckIntervals         \* P4
    /\ c.global.power_limit_validate_max_w \in WattCeilings             \* P5

Valid(c) ==
    StructureRules(c) /\ GpuRules(c) /\ FanRules(c) /\ WatchdogRules(c) /\ PowerRules(c)

Load(file) == IF Parses(file) /\ Valid(Parse(file)) THEN Parse(file) ELSE Rejected

-----------------------------------------------------------------------------
(* Reload.  The code collects blocks into maps by id, so that of several   *)
(* with one id the last counts.                                            *)
LastWithId(blocks, id) == blocks[Max({i \in DOMAIN blocks : blocks[i].id = id})]

Only(block, fields) == [k \in fields |-> block[k]]
Identities(blocks, fields) ==
    [id \in Ids(blocks) |-> Only(LastWithId(blocks, id), fields)]

StructurallyIdentical(a, b) ==
    /\ a.watchdog.device = b.watchdog.device
    /\ a.watchdog.timeout_s = b.watchdog.timeout_s
    /\ Identities(a.gpus, {"nvml_index"}) = Identities(b.gpus, {"nvml_index"})
    /\ LET identity == {"chip", "device_path", "hwmon_path", "pwm_channel"}
       IN  Identities(a.fans, identity) = Identities(b.fans, identity)
    /\ Identities(a.groups, {"gpus", "fans"}) = Identities(b.groups, {"gpus", "fans"})

GlobalData == {"log_level", "poll_interval_ms", "power_limit_check_interval_s",
               "power_limit_restore_on_shutdown", "power_limit_validate_max_w"}
GpuData == {"curve", "min_fan_pct", "max_fan_pct", "power_limit_enabled", "power_limit_w"}
FanData == {"min_rpm", "max_rpm", "fan_fail_threshold", "spin_up_grace_s"}

Swapped(old, new, fields) ==
    [k \in DOMAIN old |-> IF k \in fields THEN new[k] ELSE old[k]]
SwappedBlocks(old, new, fields) ==
    [i \in DOMAIN old |-> IF old[i].id \in Ids(new)
                          THEN Swapped(old[i], LastWithId(new, old[i].id), fields)
                          ELSE old[i]]

SwapDataFields(running, new) ==
    [running EXCEPT !.global = Swapped(@, new.global, GlobalData),
                    !.watchdog = Swapped(@, new.watchdog, {"gpu_fail_threshold"}),
                    !.gpus = SwappedBlocks(@, new.gpus, GpuData),
                    !.fans = SwappedBlocks(@, new.fans, FanData)]

(* new is what load answers: a file that is rejected, or that differs in   *)
(* structure, changes nothing.                                             *)
HandleSighup(running, new) ==
    IF new = Rejected \/ ~StructurallyIdentical(running, new) THEN running
    ELSE SwapDataFields(running, new)
=============================================================================
