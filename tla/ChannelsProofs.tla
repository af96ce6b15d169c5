--------------------------- MODULE ChannelsProofs ---------------------------
(***************************************************************************)
(* The configuration and its reloads for any set of files, and the         *)
(* channels of any box, whatever the order of start-ups, reloads,          *)
(* calibrations, failures and reboots.                                     *)
(***************************************************************************)
EXTENDS Channels, CoolingProofs, FiniteSetTheorems

-----------------------------------------------------------------------------
(* What parse builds: functions whose domains depend on the kind alone.    *)
IsFcn(f) == f = [x \in DOMAIN f |-> f[x]]

Table(f, keys) == IsFcn(f) /\ DOMAIN f = keys

Blocklist(blocks, kind) ==
    /\ \E n \in Nat : DOMAIN blocks = 1..n
    /\ IsFcn(blocks)
    /\ \A i \in DOMAIN blocks : Table(blocks[i], {"id"} \cup Known(kind))

Shaped(c) ==
    /\ Table(c, {"global", "watchdog", "gpus", "fans", "groups"})
    /\ Table(c.global, Known("global"))
    /\ Table(c.watchdog, Known("watchdog"))
    /\ Blocklist(c.gpus, "gpu")
    /\ Blocklist(c.fans, "fan")
    /\ Blocklist(c.groups, "group")

LEMMA FieldsTable == ASSUME NEW kind, NEW s PROVE Table(Fields(kind, s), Known(kind))
BY DEF Fields, Table, IsFcn

LEMMA BlocksListed == ASSUME NEW kind, NEW file PROVE Blocklist(Blocks(file, kind), kind)
<1> DEFINE own == Sections(file, kind)
<1>1. Len(own) \in Nat
  BY SMT
<1>2. Blocks(file, kind) = [i \in 1..Len(own) |-> Block(kind, own[i])]
  BY DEF Blocks
<1>3. \A s : Table(Block(kind, s), {"id"} \cup Known(kind))
  BY DEF Block, Table, IsFcn
<1> HIDE DEF own
<1>4. QED
  BY <1>1, <1>2, <1>3 DEF Blocklist, IsFcn

LEMMA ParseShaped == ASSUME NEW file PROVE Shaped(Parse(file))
<1> DEFINE g == Fields("global", Last(Sections(file, "global")))
           w == Fields("watchdog", Last(Sections(file, "watchdog")))
           gs == Blocks(file, "gpu")
           fs == Blocks(file, "fan")
           hs == Blocks(file, "group")
<1>1. Parse(file) = [global |-> g, watchdog |-> w, gpus |-> gs, fans |-> fs, groups |-> hs]
  BY DEF Parse
<1>2. /\ Table(g, Known("global")) /\ Table(w, Known("watchdog"))
      /\ Blocklist(gs, "gpu") /\ Blocklist(fs, "fan") /\ Blocklist(hs, "group")
  BY FieldsTable, BlocksListed
<1> HIDE DEF g, w, gs, fs, hs
<1>3. Table(Parse(file), {"global", "watchdog", "gpus", "fans", "groups"})
  BY <1>1 DEF Table, IsFcn
<1>4. QED
  BY <1>1, <1>2, <1>3 DEF Shaped

(* A configuration that was not refused is whole and passes validate.      *)
LEMMA LoadsGood ==
    ASSUME NEW cfg \in Loads, cfg # Rejected
    PROVE  Shaped(cfg) /\ Valid(cfg)
<1>1. PICK file \in Files : cfg = Load(file)
  BY DEF Loads
<1>2. cfg = Parse(file) /\ Valid(Parse(file))
  BY <1>1 DEF Load
<1>3. QED
  BY <1>2, ParseShaped

-----------------------------------------------------------------------------
(* The block that counts of those with one id.                             *)
LEMMA LargestIndex ==
    ASSUME NEW n \in Nat, NEW S \in SUBSET (1..n), S # {}
    PROVE  Max(S) \in S /\ \A x \in S : x <= Max(S)
<1> DEFINE gaps == {m \in Nat : \E x \in S : m = n - x}
<1>1. gaps # {}
  <2>1. PICK x \in S : TRUE
    OBVIOUS
  <2>2. n - x \in gaps
    OBVIOUS
  <2>3. QED
    BY <2>2
<1>2. PICK m \in gaps : \A k \in gaps : m <= k
  BY <1>1, LeastNatural
<1>3. PICK y \in S : m = n - y
  BY <1>2
<1>4. \A x \in S : y >= x
  <2> TAKE x \in S
  <2>1. n - x \in gaps
    OBVIOUS
  <2>2. m <= n - x
    BY <1>2, <2>1
  <2>3. QED
    BY <1>3, <2>2
<1>5. QED
  BY <1>4 DEF Max

LEMMA LastIsOne ==
    ASSUME NEW blocks, NEW kind, Blocklist(blocks, kind), NEW id \in Ids(blocks)
    PROVE  \E i \in DOMAIN blocks : blocks[i].id = id /\ LastWithId(blocks, id) = blocks[i]
<1> DEFINE same == {i \in DOMAIN blocks : blocks[i].id = id}
<1>1. same # {}
  BY DEF Ids, Range
<1>2. PICK n \in Nat : DOMAIN blocks = 1..n
  BY DEF Blocklist
<1>3. Max(same) \in same
  BY <1>1, <1>2, LargestIndex
<1>4. QED
  BY <1>3 DEF LastWithId

LEMMA OnlyOneWithId ==
    ASSUME NEW blocks, NEW kind, Blocklist(blocks, kind), DistinctIds(blocks),
           NEW i \in DOMAIN blocks
    PROVE  LastWithId(blocks, blocks[i].id) = blocks[i]
<1>1. blocks[i].id \in Ids(blocks)
  BY DEF Ids, Range
<1>2. QED
  BY <1>1, LastIsOne DEF DistinctIds

-----------------------------------------------------------------------------
(* A reload takes the data of a block from the new block of its id.        *)
LEMMA SameIds ==
    ASSUME NEW a, NEW b, NEW fields, Identities(a, fields) = Identities(b, fields)
    PROVE  Ids(a) = Ids(b)
BY DEF Identities

ById(m, old, new, fields) ==
    /\ DOMAIN m = DOMAIN old
    /\ \A i \in DOMAIN old : \E j \in DOMAIN new :
          /\ new[j].id = old[i].id /\ new[j] = LastWithId(new, old[i].id)
          /\ m[i] = Swapped(old[i], new[j], fields)

LEMMA SwappedById ==
    ASSUME NEW kind, NEW old, NEW new, Blocklist(old, kind), Blocklist(new, kind),
           Ids(old) = Ids(new), NEW fields
    PROVE  /\ Blocklist(SwappedBlocks(old, new, fields), kind)
           /\ ById(SwappedBlocks(old, new, fields), old, new, fields)
<1> DEFINE m == SwappedBlocks(old, new, fields)
<1>1. DOMAIN m = DOMAIN old /\ IsFcn(m)
  BY DEF SwappedBlocks, IsFcn
<1>2. ASSUME NEW i \in DOMAIN old
      PROVE  \E j \in DOMAIN new :
                 /\ new[j].id = old[i].id /\ new[j] = LastWithId(new, old[i].id)
                 /\ m[i] = Swapped(old[i], new[j], fields)
  <2>1. old[i].id \in Ids(new)
    BY DEF Ids, Range
  <2>2. m[i] = Swapped(old[i], LastWithId(new, old[i].id), fields)
    BY <2>1 DEF SwappedBlocks
  <2>3. PICK j \in DOMAIN new : new[j].id = old[i].id /\ LastWithId(new, old[i].id) = new[j]
    BY <2>1, LastIsOne
  <2>4. QED
    BY <2>2, <2>3
<1>3. \A b, c : DOMAIN Swapped(b, c, fields) = DOMAIN b /\ IsFcn(Swapped(b, c, fields))
  BY DEF Swapped, IsFcn
<1> HIDE DEF m
<1>4. Blocklist(m, kind)
  BY <1>1, <1>2, <1>3 DEF Blocklist, Table
<1>5. QED
  BY <1>1, <1>2, <1>4 DEF m, ById

LEMMA SwappedField ==
    ASSUME NEW b, NEW c, NEW fields, NEW k \in DOMAIN b
    PROVE  Swapped(b, c, fields)[k] = IF k \in fields THEN c[k] ELSE b[k]
BY DEF Swapped

(* What each field of the mixture is.                                      *)
MixedGpu(m, old, new) ==
    /\ m.id = old.id /\ m.nvml_index = old.nvml_index
    /\ m.curve = new.curve /\ m.min_fan_pct = new.min_fan_pct /\ m.max_fan_pct = new.max_fan_pct
    /\ m.power_limit_enabled = new.power_limit_enabled /\ m.power_limit_w = new.power_limit_w

MixedFan(m, old, new) ==
    /\ m.id = old.id /\ m.chip = old.chip /\ m.device_path = old.device_path
    /\ m.hwmon_path = old.hwmon_path /\ m.pwm_channel = old.pwm_channel
    /\ m.min_rpm = new.min_rpm /\ m.max_rpm = new.max_rpm
    /\ m.fan_fail_threshold = new.fan_fail_threshold
    /\ m.spin_up_grace_s = new.spin_up_grace_s

MixedHeads(m, old, new) ==
    /\ m.groups = old.groups
    /\ m.global.config_version = old.global.config_version
    /\ m.global.log_file = old.global.log_file
    /\ m.global.log_level = new.global.log_level
    /\ m.global.poll_interval_ms = new.global.poll_interval_ms
    /\ m.global.power_limit_check_interval_s = new.global.power_limit_check_interval_s
    /\ m.global.power_limit_restore_on_shutdown = new.global.power_limit_restore_on_shutdown
    /\ m.global.power_limit_validate_max_w = new.global.power_limit_validate_max_w
    /\ m.watchdog.enabled = old.watchdog.enabled
    /\ m.watchdog.device = old.watchdog.device
    /\ m.watchdog.timeout_s = old.watchdog.timeout_s
    /\ m.watchdog.gpu_fail_threshold = new.watchdog.gpu_fail_threshold

LEMMA KnownKeys ==
    /\ Known("global") = {"config_version", "poll_interval_ms", "log_level", "log_file",
                          "power_limit_check_interval_s", "power_limit_restore_on_shutdown",
                          "power_limit_validate_max_w"}
    /\ Known("watchdog") = {"enabled", "device", "timeout_s", "gpu_fail_threshold"}
    /\ Known("gpu") = {"nvml_index", "curve", "min_fan_pct", "max_fan_pct",
                       "power_limit_enabled", "power_limit_w"}
    /\ Known("fan") = {"pwm_channel", "min_rpm", "max_rpm", "fan_fail_threshold",
                       "spin_up_grace_s", "chip", "device_path", "hwmon_path"}
    /\ Known("group") = {"gpus", "fans"}
BY DEF Known, Required, Default

LEMMA GpuSwap ==
    ASSUME NEW b, NEW c, DOMAIN b = {"id"} \cup Known("gpu")
    PROVE  MixedGpu(Swapped(b, c, GpuData), b, c)
BY KnownKeys, SwappedField DEF MixedGpu, GpuData

LEMMA FanSwap ==
    ASSUME NEW b, NEW c, DOMAIN b = {"id"} \cup Known("fan")
    PROVE  MixedFan(Swapped(b, c, FanData), b, c)
BY KnownKeys, SwappedField DEF MixedFan, FanData

LEMMA HeadSwap ==
    ASSUME NEW r, NEW n, Shaped(r)
    PROVE  /\ DOMAIN SwapDataFields(r, n) = DOMAIN r /\ IsFcn(SwapDataFields(r, n))
           /\ SwapDataFields(r, n).global = Swapped(r.global, n.global, GlobalData)
           /\ SwapDataFields(r, n).watchdog = Swapped(r.watchdog, n.watchdog, {"gpu_fail_threshold"})
           /\ SwapDataFields(r, n).gpus = SwappedBlocks(r.gpus, n.gpus, GpuData)
           /\ SwapDataFields(r, n).fans = SwappedBlocks(r.fans, n.fans, FanData)
           /\ SwapDataFields(r, n).groups = r.groups
BY DEF Shaped, Table, SwapDataFields, IsFcn

(* The mixture as a whole.                                                 *)
LEMMA Mixture ==
    ASSUME NEW r, NEW n, Shaped(r), Shaped(n), StructurallyIdentical(r, n),
           NEW m, m = SwapDataFields(r, n)
    PROVE  /\ Shaped(m) /\ MixedHeads(m, r, n)
           /\ DOMAIN m.gpus = DOMAIN r.gpus /\ DOMAIN m.fans = DOMAIN r.fans
           /\ \A i \in DOMAIN r.gpus : \E j \in DOMAIN n.gpus :
                 /\ n.gpus[j] = LastWithId(n.gpus, r.gpus[i].id)
                 /\ n.gpus[j].id = r.gpus[i].id /\ MixedGpu(m.gpus[i], r.gpus[i], n.gpus[j])
           /\ \A i \in DOMAIN r.fans : \E j \in DOMAIN n.fans :
                 /\ n.fans[j] = LastWithId(n.fans, r.fans[i].id)
                 /\ n.fans[j].id = r.fans[i].id /\ MixedFan(m.fans[i], r.fans[i], n.fans[j])
<1>1. Ids(r.gpus) = Ids(n.gpus) /\ Ids(r.fans) = Ids(n.fans)
  BY SameIds, Zenon DEF StructurallyIdentical
<1>2. /\ DOMAIN m = DOMAIN r /\ IsFcn(m)
      /\ m.global = Swapped(r.global, n.global, GlobalData)
      /\ m.watchdog = Swapped(r.watchdog, n.watchdog, {"gpu_fail_threshold"})
      /\ m.gpus = SwappedBlocks(r.gpus, n.gpus, GpuData)
      /\ m.fans = SwappedBlocks(r.fans, n.fans, FanData)
      /\ m.groups = r.groups
  BY HeadSwap
<1>3. Blocklist(m.gpus, "gpu") /\ ById(m.gpus, r.gpus, n.gpus, GpuData)
  <2>1. Blocklist(r.gpus, "gpu") /\ Blocklist(n.gpus, "gpu")
    BY DEF Shaped
  <2>2. QED
    BY <1>1, <1>2, <2>1, SwappedById
<1>4. Blocklist(m.fans, "fan") /\ ById(m.fans, r.fans, n.fans, FanData)
  <2>1. Blocklist(r.fans, "fan") /\ Blocklist(n.fans, "fan")
    BY DEF Shaped
  <2>2. QED
    BY <1>1, <1>2, <2>1, SwappedById
<1>5. MixedHeads(m, r, n)
  <2>1. DOMAIN r.global = Known("global") /\ DOMAIN r.watchdog = Known("watchdog")
    BY DEF Shaped, Table
  <2>2. QED
    BY <1>2, <2>1, KnownKeys, SwappedField DEF MixedHeads, GlobalData
<1>6. Shaped(m)
  <2>1. Table(m, {"global", "watchdog", "gpus", "fans", "groups"})
    BY <1>2 DEF Shaped, Table
  <2>2. \A b, c, fields : DOMAIN Swapped(b, c, fields) = DOMAIN b /\ IsFcn(Swapped(b, c, fields))
    BY DEF Swapped, IsFcn
  <2>3. Table(m.global, Known("global")) /\ Table(m.watchdog, Known("watchdog"))
    BY <1>2, <2>2 DEF Shaped, Table
  <2>4. Blocklist(m.groups, "group")
    BY <1>2 DEF Shaped
  <2>5. QED
    BY <1>3, <1>4, <2>1, <2>3, <2>4 DEF Shaped
<1>7. /\ \A i \in DOMAIN r.gpus : DOMAIN r.gpus[i] = {"id"} \cup Known("gpu")
      /\ \A i \in DOMAIN r.fans : DOMAIN r.fans[i] = {"id"} \cup Known("fan")
  BY DEF Shaped, Blocklist, Table
<1>8. ASSUME NEW i \in DOMAIN r.gpus
      PROVE  \E j \in DOMAIN n.gpus :
                 /\ n.gpus[j] = LastWithId(n.gpus, r.gpus[i].id)
                 /\ n.gpus[j].id = r.gpus[i].id /\ MixedGpu(m.gpus[i], r.gpus[i], n.gpus[j])
  <2>1. PICK j \in DOMAIN n.gpus :
            /\ n.gpus[j].id = r.gpus[i].id /\ n.gpus[j] = LastWithId(n.gpus, r.gpus[i].id)
            /\ m.gpus[i] = Swapped(r.gpus[i], n.gpus[j], GpuData)
    BY <1>3 DEF ById
  <2>2. MixedGpu(m.gpus[i], r.gpus[i], n.gpus[j])
    BY <2>1, <1>7, GpuSwap
  <2>3. QED
    BY <2>1, <2>2
<1>9. ASSUME NEW i \in DOMAIN r.fans
       PROVE  \E j \in DOMAIN n.fans :
                 /\ n.fans[j] = LastWithId(n.fans, r.fans[i].id)
                 /\ n.fans[j].id = r.fans[i].id /\ MixedFan(m.fans[i], r.fans[i], n.fans[j])
  <2>1. PICK j \in DOMAIN n.fans :
            /\ n.fans[j].id = r.fans[i].id /\ n.fans[j] = LastWithId(n.fans, r.fans[i].id)
            /\ m.fans[i] = Swapped(r.fans[i], n.fans[j], FanData)
    BY <1>4 DEF ById
  <2>2. MixedFan(m.fans[i], r.fans[i], n.fans[j])
    BY <2>1, <1>7, FanSwap
  <2>3. QED
    BY <2>1, <2>2
<1>10. QED
  BY <1>3, <1>4, <1>5, <1>6, <1>8, <1>9 DEF ById

-----------------------------------------------------------------------------
(* Both sides accepted, the mixture would be accepted.                     *)
LEMMA InRange == ASSUME NEW s, NEW e PROVE e \in Range(s) <=> \E i \in DOMAIN s : e = s[i]
BY DEF Range

LEMMA MixtureStructure ==
    ASSUME NEW r, NEW n, Shaped(r), Shaped(n), StructurallyIdentical(r, n), StructureRules(r)
    PROVE  StructureRules(SwapDataFields(r, n))
<1> DEFINE m == SwapDataFields(r, n)
<1>1. /\ MixedHeads(m, r, n)
      /\ DOMAIN m.gpus = DOMAIN r.gpus /\ DOMAIN m.fans = DOMAIN r.fans
      /\ \A i \in DOMAIN r.gpus : \E j \in DOMAIN n.gpus : MixedGpu(m.gpus[i], r.gpus[i], n.gpus[j])
      /\ \A i \in DOMAIN r.fans : \E j \in DOMAIN n.fans : MixedFan(m.fans[i], r.fans[i], n.fans[j])
      /\ Shaped(m)
  BY Mixture
<1> HIDE DEF m
<1>2. m.groups = r.groups
  BY <1>1 DEF MixedHeads
<1>3. /\ \A i \in DOMAIN r.gpus : /\ m.gpus[i].id = r.gpus[i].id
                                  /\ m.gpus[i].nvml_index = r.gpus[i].nvml_index
      /\ \A i \in DOMAIN r.fans : /\ m.fans[i].id = r.fans[i].id
                                  /\ Selector(m.fans[i]) = Selector(r.fans[i])
  BY <1>1 DEF MixedGpu, MixedFan, Selector
<1>4. Ids(m.gpus) = Ids(r.gpus) /\ Ids(m.fans) = Ids(r.fans)
  <2>1. \A b, id : id \in Ids(b) <=> \E i \in DOMAIN b : id = b[i].id
    BY DEF Ids, Range
  <2>2. \A id : /\ id \in Ids(m.gpus) <=> id \in Ids(r.gpus)
                /\ id \in Ids(m.fans) <=> id \in Ids(r.fans)
    BY <1>1, <1>3, <2>1
  <2>3. QED
    BY <2>2
<1>5. m.gpus # <<>> /\ m.fans # <<>> /\ m.groups # <<>>
  <2>1. /\ IsFcn(m.gpus) /\ IsFcn(m.fans) /\ IsFcn(r.gpus) /\ IsFcn(r.fans)
        /\ \E k \in Nat : DOMAIN r.gpus = 1..k
        /\ \E k \in Nat : DOMAIN r.fans = 1..k
    BY <1>1 DEF Shaped, Blocklist
  <2>2. r.gpus # <<>> /\ r.fans # <<>> /\ r.groups # <<>>
    BY DEF StructureRules
  <2>3. ASSUME NEW a, NEW b, IsFcn(a), IsFcn(b), DOMAIN a = DOMAIN b, a # <<>>,
               \E k \in Nat : DOMAIN a = 1..k
        PROVE  b # <<>>
    BY <2>3 DEF IsFcn
  <2>4. QED
    BY <1>1, <1>2, <2>1, <2>2, <2>3
<1>6. /\ \A id \in Ids(m.gpus) : References(m, "gpus", id) = 1
      /\ \A id \in Ids(m.fans) : References(m, "fans", id) = 1
  <2>1. \A side, id : References(m, side, id) = References(r, side, id)
    BY <1>2 DEF References
  <2>2. QED
    BY <1>4, <2>1 DEF StructureRules
<1>7. \A g \in Range(m.groups) : /\ g.gpus # <<>> /\ g.fans # <<>>
                                 /\ Range(g.gpus) \subseteq Ids(m.gpus)
                                 /\ Range(g.fans) \subseteq Ids(m.fans)
  BY <1>2, <1>4 DEF StructureRules
<1>8. \A i, j \in DOMAIN m.gpus : m.gpus[i].nvml_index = m.gpus[j].nvml_index => i = j
  BY <1>1, <1>3 DEF StructureRules
<1>9. \A i, j \in DOMAIN m.fans : Selector(m.fans[i]) = Selector(m.fans[j]) => i = j
  BY <1>1, <1>3 DEF StructureRules
<1>10. QED
  BY <1>5, <1>6, <1>7, <1>8, <1>9 DEF StructureRules, m

LEMMA MixtureValid ==
    ASSUME NEW r, NEW n, Shaped(r), Shaped(n), StructurallyIdentical(r, n), Valid(r), Valid(n)
    PROVE  Valid(SwapDataFields(r, n))
<1> DEFINE m == SwapDataFields(r, n)
<1>1. /\ MixedHeads(m, r, n)
      /\ DOMAIN m.gpus = DOMAIN r.gpus /\ DOMAIN m.fans = DOMAIN r.fans
      /\ \A i \in DOMAIN r.gpus : \E j \in DOMAIN n.gpus : MixedGpu(m.gpus[i], r.gpus[i], n.gpus[j])
      /\ \A i \in DOMAIN r.fans : \E j \in DOMAIN n.fans : MixedFan(m.fans[i], r.fans[i], n.fans[j])
  BY Mixture
<1>2. StructureRules(m)
  BY MixtureStructure DEF Valid
<1> HIDE DEF m
<1>3. ASSUME NEW g \in Range(m.gpus)
      PROVE  \E a \in Range(r.gpus), b \in Range(n.gpus) : MixedGpu(g, a, b)
  <2>1. PICK i \in DOMAIN r.gpus : g = m.gpus[i]
    BY <1>1, InRange
  <2>2. PICK j \in DOMAIN n.gpus : MixedGpu(m.gpus[i], r.gpus[i], n.gpus[j])
    BY <1>1
  <2>3. r.gpus[i] \in Range(r.gpus) /\ n.gpus[j] \in Range(n.gpus)
    BY InRange
  <2>4. QED
    BY <2>1, <2>2, <2>3
<1>4. ASSUME NEW f \in Range(m.fans)
      PROVE  \E a \in Range(r.fans), b \in Range(n.fans) : MixedFan(f, a, b)
  <2>1. PICK i \in DOMAIN r.fans : f = m.fans[i]
    BY <1>1, InRange
  <2>2. PICK j \in DOMAIN n.fans : MixedFan(m.fans[i], r.fans[i], n.fans[j])
    BY <1>1
  <2>3. r.fans[i] \in Range(r.fans) /\ n.fans[j] \in Range(n.fans)
    BY InRange
  <2>4. QED
    BY <2>1, <2>2, <2>3
<1>5. GpuRules(m)
  BY <1>3 DEF GpuRules, Valid, MixedGpu
<1>6. FanRules(m)
  BY <1>4 DEF FanRules, Valid, MixedFan
<1>7. WatchdogRules(m)
  <2>1. r.watchdog.timeout_s = n.watchdog.timeout_s
    BY DEF StructurallyIdentical
  <2>2. Thresholds(m) \subseteq Thresholds(n)
    BY <1>1, <1>4 DEF Thresholds, MixedHeads, MixedFan
  <2>3. WatchdogRules(r) /\ WatchdogRules(n)
    BY DEF Valid
  <2>4. QED
    <3>1. /\ m.watchdog.device = r.watchdog.device
          /\ m.watchdog.timeout_s = n.watchdog.timeout_s
          /\ m.watchdog.gpu_fail_threshold = n.watchdog.gpu_fail_threshold
          /\ m.global.poll_interval_ms = n.global.poll_interval_ms
          /\ m.global.config_version = r.global.config_version
      BY <1>1, <2>1 DEF MixedHeads
    <3>2. \A t \in Thresholds(m) :
              m.global.poll_interval_ms * t < m.watchdog.timeout_s * 500
      <4>1. \A t \in Thresholds(n) :
                n.global.poll_interval_ms * t < n.watchdog.timeout_s * 500
        BY <2>3 DEF WatchdogRules
      <4>2. QED
        BY <2>2, <3>1, <4>1
    <3>3. QED
      <4>1. /\ r.watchdog.device # None /\ n.watchdog.timeout_s \in Timeouts
            /\ n.watchdog.gpu_fail_threshold >= 1
            /\ n.global.poll_interval_ms \in PollIntervals
            /\ r.global.config_version = 1
        BY <2>3 DEF WatchdogRules
      <4>2. QED
        BY <3>1, <3>2, <4>1 DEF WatchdogRules
<1>8. PowerRules(m)
  <2>1. PowerRules(n)
    BY DEF Valid
  <2>2. /\ m.global.power_limit_validate_max_w = n.global.power_limit_validate_max_w
        /\ m.global.power_limit_check_interval_s = n.global.power_limit_check_interval_s
    BY <1>1 DEF MixedHeads
  <2>3. ASSUME NEW g \in Range(m.gpus)
        PROVE  /\ g.power_limit_enabled => g.power_limit_w # None
               /\ g.power_limit_w # None =>
                     g.power_limit_w \in 25..m.global.power_limit_validate_max_w
    <3>1. PICK b \in Range(n.gpus) : /\ g.power_limit_enabled = b.power_limit_enabled
                                     /\ g.power_limit_w = b.power_limit_w
      BY <1>3 DEF MixedGpu
    <3>2. QED
      <4>1. /\ b.power_limit_enabled => b.power_limit_w # None
            /\ b.power_limit_w # None =>
                  b.power_limit_w \in 25..n.global.power_limit_validate_max_w
        BY <2>1 DEF PowerRules
      <4>2. QED
        BY <2>2, <3>1, <4>1
  <2>4. QED
    <3>1. /\ n.global.power_limit_check_interval_s \in CheckIntervals
          /\ n.global.power_limit_validate_max_w \in WattCeilings
      BY <2>1 DEF PowerRules
    <3>2. QED
      BY <2>2, <2>3, <3>1 DEF PowerRules
<1>9. QED
  BY <1>2, <1>5, <1>6, <1>7, <1>8 DEF Valid, m

-----------------------------------------------------------------------------
(* The running configuration.                                              *)
ProcKeys == {"phase", "cfg", "chips", "handles", "next", "pct"}

ProcTable ==
    /\ DOMAIN proc = Processes
    /\ \A p \in Processes : DOMAIN proc[p] = ProcKeys

LEMMA DownKeys == DOMAIN Down = ProcKeys /\ Down.phase = "down" /\ Down.handles = <<>>
BY DEF Down, ProcKeys

(* What a step may do to the daemon's configuration.                       *)
CfgMoves ==
    LET d == proc["daemon"]
        e == proc'["daemon"]
    IN  \/ e.phase = "down" /\ e.cfg = None
        \/ d.phase # "down" /\ e.cfg = d.cfg
        \/ d.phase = "down" /\ e.phase = d.phase /\ e.cfg = d.cfg
        \/ d.phase = "down" /\ e.phase = "taking" /\ e.cfg \in Loads \ {Rejected}
        \/ /\ d.phase = "running" /\ e.phase = "running"
           /\ \E new \in Loads : e.cfg = HandleSighup(d.cfg, new)

LEMMA EnterTable ==
    ASSUME ProcTable, NEW p \in Processes, NEW cfg, NEW chips, Enter(p, cfg, chips)
    PROVE  /\ ProcTable'
           /\ \A q \in Processes : q # p => proc'[q] = proc[q]
           /\ proc'[p] = [Down EXCEPT !.phase = "taking", !.cfg = cfg, !.chips = chips]
           /\ proc'[p].phase = "taking" /\ proc'[p].cfg = cfg
BY DEF Enter, ProcTable, Down, ProcKeys

LEMMA EndTable ==
    ASSUME ProcTable, NEW p \in Processes, End(p)
    PROVE  /\ ProcTable'
           /\ \A q \in Processes : q # p => proc'[q] = proc[q]
           /\ proc'[p] = Down
BY DownKeys DEF End, ProcTable

LEMMA DownCfg == Down.phase = "down" /\ Down.cfg = None
BY DEF Down

LEMMA StepCfg ==
    ASSUME ProcTable, NEW p \in Processes, Step(p)
    PROVE  /\ ProcTable'
           /\ \A q \in Processes : q # p => proc'[q] = proc[q]
           /\ \/ proc'[p] = Down
              \/ proc[p].phase # "down" /\ proc'[p].cfg = proc[p].cfg
<1>1. CASE Take(p)
  <2>1. CASE End(p)
    BY <2>1, EndTable
  <2>2. CASE \E h : proc' = [proc EXCEPT ![p].next = @ + 1, ![p].handles = Kept(p, @, h)]
    <3>1. proc[p].phase # "down"
      BY <1>1 DEF Take
    <3>2. PICK next, handles : proc' = [proc EXCEPT ![p].next = next, ![p].handles = handles]
      BY <2>2, Zenon
    <3>3. QED
      BY <3>1, <3>2 DEF ProcTable, ProcKeys
  <2>3. QED
    BY <1>1, <2>1, <2>2, Zenon DEF Take
<1>2. CASE Ready(p)
  BY <1>2 DEF Ready, ProcTable, ProcKeys
<1>3. CASE RestoreNext(p)
  <2>1. PICK i : proc' = [proc EXCEPT ![p].handles = RemoveAt(@, i)]
    BY <1>3, Zenon DEF RestoreNext
  <2>2. proc[p].phase = "restoring"
    BY <1>3 DEF RestoreNext
  <2>3. QED
    BY <2>1, <2>2 DEF ProcTable, ProcKeys
<1>4. CASE Exit(p)
  BY <1>4, EndTable DEF Exit
<1>5. QED
  BY <1>1, <1>2, <1>3, <1>4 DEF Step

LEMMA DaemonProcesses == "daemon" \in Processes /\ "calibration" \in Processes
BY DEF Processes

LEMMA SweepMoves ==
    ASSUME Sweep, DOMAIN proc["calibration"] = ProcKeys
    PROVE  \E x : /\ proc' = [proc EXCEPT !["calibration"] = x]
                  /\ DOMAIN x = ProcKeys /\ x.phase \in {"sweeping", "restoring"}
                  /\ x.handles = proc["calibration"].handles
<1> DEFINE c == proc["calibration"]
           Moves(x) == /\ proc' = [proc EXCEPT !["calibration"] = x]
                       /\ DOMAIN x = ProcKeys /\ x.phase \in {"sweeping", "restoring"}
                       /\ x.handles = c.handles
<1>1. c.phase = "sweeping"
  BY DEF Sweep
<1>2. \E x : Moves(x)
  <2>1. CASE proc' = [proc EXCEPT !["calibration"].phase = "restoring"]
    <3>1. Moves([c EXCEPT !.phase = "restoring"])
      BY <1>1, <2>1 DEF ProcKeys
    <3>2. QED
      BY <3>1
  <2>2. CASE proc' = [proc EXCEPT !["calibration"] =
                 IF c.pct < 60 THEN [c EXCEPT !.pct = @ + 5]
                 ELSE IF c.next < Len(c.handles) THEN [c EXCEPT !.pct = 10, !.next = @ + 1]
                 ELSE [c EXCEPT !.phase = "restoring"]]
    <3>1. CASE c.pct < 60
      <4>1. Moves([c EXCEPT !.pct = @ + 5])
        BY <1>1, <2>2, <3>1 DEF ProcKeys
      <4>2. QED
        BY <4>1
    <3>2. CASE ~(c.pct < 60) /\ c.next < Len(c.handles)
      <4>1. Moves([c EXCEPT !.pct = 10, !.next = @ + 1])
        BY <1>1, <2>2, <3>2 DEF ProcKeys
      <4>2. QED
        BY <4>1
    <3>3. CASE ~(c.pct < 60) /\ ~(c.next < Len(c.handles))
      <4>1. Moves([c EXCEPT !.phase = "restoring"])
        BY <1>1, <2>2, <3>3 DEF ProcKeys
      <4>2. QED
        BY <4>1
    <3>4. QED
      BY <3>1, <3>2, <3>3
  <2>3. QED
    BY <2>1, <2>2, Zenon DEF Sweep
<1>3. QED
  BY <1>2

LEMMA SweepTable ==
    ASSUME ProcTable, Sweep
    PROVE  ProcTable' /\ proc'["daemon"] = proc["daemon"]
<1>1. DOMAIN proc["calibration"] = ProcKeys
  BY DEF ProcTable, Processes
<1>2. PICK x : proc' = [proc EXCEPT !["calibration"] = x] /\ DOMAIN x = ProcKeys
  BY <1>1, SweepMoves
<1>3. QED
  BY <1>2 DEF ProcTable, Processes

LEMMA CfgStep == ProcTable /\ [Next]_vars => ProcTable' /\ CfgMoves
<1> SUFFICES ASSUME ProcTable, [Next]_vars PROVE ProcTable' /\ CfgMoves
  OBVIOUS
<1> USE DaemonProcesses
<1>1. CASE StartDaemon
  <2>1. PICK cfg \in Loads \ {Rejected}, chips \in Scans : Enter("daemon", cfg, chips)
    BY <1>1 DEF StartDaemon
  <2>2. proc["daemon"].phase = "down"
    BY <2>1 DEF Enter
  <2>3. QED
    BY <2>1, <2>2, EnterTable DEF CfgMoves
<1>2. CASE StartCalibration
  <2>1. PICK cfg, chips : Enter("calibration", cfg, chips)
    BY <1>2, Zenon DEF StartCalibration
  <2>2. ProcTable' /\ proc'["daemon"] = proc["daemon"]
    BY <2>1, EnterTable
  <2>3. QED
    BY <2>2, Zenon DEF CfgMoves
<1>3. ASSUME NEW p \in Processes, Step(p) \/ Crash(p)
      PROVE  ProcTable' /\ CfgMoves
  <2>1. /\ ProcTable'
        /\ \A q \in Processes : q # p => proc'[q] = proc[q]
        /\ \/ proc'[p] = Down
           \/ proc[p].phase # "down" /\ proc'[p].cfg = proc[p].cfg
    BY <1>3, StepCfg, EndTable DEF Crash
  <2>2. QED
    BY <2>1, DownCfg DEF CfgMoves
<1>4. CASE UNCHANGED proc
  BY <1>4 DEF CfgMoves, ProcTable
<1>5. CASE Stop
  BY <1>5 DEF Stop, ProcTable, ProcKeys, CfgMoves
<1>6. ASSUME NEW new \in Loads, Reload(new)
      PROVE  ProcTable' /\ CfgMoves
  <2>1. /\ proc["daemon"].phase = "running"
        /\ proc' = [proc EXCEPT !["daemon"].cfg = HandleSighup(@, new)]
    BY <1>6 DEF Reload
  <2>2. ProcTable' /\ proc'["daemon"].cfg = HandleSighup(proc["daemon"].cfg, new)
        /\ proc'["daemon"].phase = "running"
    BY <2>1 DEF ProcTable, ProcKeys
  <2>3. QED
    BY <2>1, <2>2, Zenon DEF CfgMoves
<1>7. CASE Sweep
  BY <1>7, SweepTable DEF CfgMoves
<1>8. CASE Reboot
  BY <1>8, DownKeys, DownCfg DEF Reboot, ProcTable, CfgMoves
<1>9. CASE Drive \/ (\E ch \in Channel : Drift(ch)) \/ UNCHANGED vars
  BY <1>4, <1>9 DEF Drive, Drift, vars
<1>10. QED
  BY <1>1, <1>2, <1>3, <1>5, <1>6, <1>7, <1>8, <1>9 DEF Next, Daemon, Calibration

CfgGood == proc["daemon"].phase # "down" =>
               Shaped(proc["daemon"].cfg) /\ Valid(proc["daemon"].cfg)

LEMMA SighupGood ==
    ASSUME NEW r, Shaped(r), Valid(r), NEW new \in Loads
    PROVE  Shaped(HandleSighup(r, new)) /\ Valid(HandleSighup(r, new))
<1>1. CASE new = Rejected \/ ~StructurallyIdentical(r, new)
  BY <1>1 DEF HandleSighup
<1>2. CASE ~(new = Rejected \/ ~StructurallyIdentical(r, new))
  <2>1. Shaped(new) /\ Valid(new)
    BY <1>2, LoadsGood
  <2>2. HandleSighup(r, new) = SwapDataFields(r, new)
    BY <1>2 DEF HandleSighup
  <2>3. QED
    BY <1>2, <2>1, <2>2, Mixture, MixtureValid
<1>3. QED
  BY <1>1, <1>2

LEMMA ProcTableInit == Init => ProcTable /\ proc["daemon"].phase = "down"
BY DownKeys DEF Init, ProcTable, Processes

LEMMA CfgGoodStep == CfgGood /\ CfgMoves => CfgGood'
<1> SUFFICES ASSUME CfgGood, CfgMoves, proc'["daemon"].phase # "down"
             PROVE  Shaped(proc'["daemon"].cfg) /\ Valid(proc'["daemon"].cfg)
  BY DEF CfgGood
<1>1. CASE proc["daemon"].phase # "down" /\ proc'["daemon"].cfg = proc["daemon"].cfg
  BY <1>1 DEF CfgGood
<1>2. CASE proc'["daemon"].cfg \in Loads \ {Rejected}
  BY <1>2, LoadsGood
<1>3. CASE /\ proc["daemon"].phase = "running"
           /\ \E new \in Loads : proc'["daemon"].cfg = HandleSighup(proc["daemon"].cfg, new)
  BY <1>3, SighupGood DEF CfgGood
<1>4. QED
  BY <1>1, <1>2, <1>3, Zenon DEF CfgMoves

LEMMA CfgAlways == Spec => [](ProcTable /\ CfgGood)
<1>1. Init => ProcTable /\ CfgGood
  BY ProcTableInit DEF CfgGood
<1>2. ProcTable /\ CfgGood /\ [Next]_vars => (ProcTable /\ CfgGood)'
  BY CfgStep, CfgGoodStep
<1>3. QED
  BY <1>1, <1>2, PTL DEF Spec

(* No sequence of loads and reloads, of any files whatever, leaves the     *)
(* daemon with a configuration that validate would refuse.                 *)
THEOREM MixturesStayValid == Spec => []RunningIsValid
<1>1. CfgGood => RunningIsValid
  BY DEF CfgGood, RunningIsValid
<1>2. QED
  BY <1>1, CfgAlways, PTL

-----------------------------------------------------------------------------
(* A reload that is accepted takes effect whole, when ids tell the blocks  *)
(* of each file apart; validate does not ask for that.                     *)

LEMMA Counterpart ==
    ASSUME NEW kind, NEW a, NEW b, NEW fields, Blocklist(a, kind), Blocklist(b, kind),
           DistinctIds(a), Identities(a, fields) = Identities(b, fields), NEW i \in DOMAIN a
    PROVE  /\ a[i].id \in Ids(b)
           /\ \A k \in fields : a[i][k] = LastWithId(b, a[i].id)[k]
<1>1. a[i].id \in Ids(a)
  BY DEF Ids, Range
<1>2. a[i].id \in Ids(b)
  BY <1>1, SameIds, Zenon
<1>3. Only(LastWithId(a, a[i].id), fields) = Only(LastWithId(b, a[i].id), fields)
  <2>1. \A c, id : id \in Ids(c) => Identities(c, fields)[id] = Only(LastWithId(c, id), fields)
    BY DEF Identities
  <2>2. QED
    BY <1>1, <1>2, <2>1
<1>4. Only(a[i], fields) = Only(LastWithId(b, a[i].id), fields)
  BY <1>3, OnlyOneWithId
<1>5. \A c : \A k \in fields : Only(c, fields)[k] = c[k]
  BY DEF Only
<1>6. QED
  BY <1>2, <1>4, <1>5

(* Blocks that agree on every key are one.                                 *)
LEMMA SameBlock ==
    ASSUME NEW a, NEW b, NEW keys, Table(a, keys), Table(b, keys),
           \A k \in keys : a[k] = b[k]
    PROVE  a = b
BY DEF Table, IsFcn

LEMMA SameListed ==
    ASSUME NEW kind, NEW m, NEW b, Blocklist(m, kind), Blocklist(b, kind),
           NEW i \in DOMAIN m, NEW j \in DOMAIN b,
           \A k \in {"id"} \cup Known(kind) : m[i][k] = b[j][k]
    PROVE  m[i] = b[j]
<1> DEFINE keys == {"id"} \cup Known(kind)
           x == m[i]
           y == b[j]
<1>1. Table(x, keys) /\ Table(y, keys)
  BY DEF Blocklist
<1>2. \A k \in keys : x[k] = y[k]
  OBVIOUS
<1> HIDE DEF keys, x, y
<1>3. x = y
  BY <1>1, <1>2, SameBlock
<1>4. QED
  BY <1>3 DEF x, y

(* Lists of blocks that have each other's blocks, by id.                   *)
LEMMA SameBlocks ==
    ASSUME NEW kind, NEW m, NEW b, Blocklist(m, kind), Blocklist(b, kind), DistinctIds(b),
           Ids(m) = Ids(b), \A i \in DOMAIN m : m[i] = LastWithId(b, m[i].id)
    PROVE  Range(m) = Range(b)
<1>1. ASSUME NEW i \in DOMAIN m PROVE m[i] \in Range(b)
  <2>1. m[i].id \in Ids(b)
    BY DEF Ids, Range
  <2>2. QED
    BY <2>1, LastIsOne, InRange
<1>2. ASSUME NEW j \in DOMAIN b PROVE b[j] \in Range(m)
  <2>1. b[j].id \in Ids(m)
    BY DEF Ids, Range
  <2>2. PICK i \in DOMAIN m : m[i].id = b[j].id
    BY <2>1 DEF Ids, Range
  <2>3. m[i] = b[j]
    BY <2>2, OnlyOneWithId
  <2>4. QED
    BY <2>3, InRange
<1>3. \A x : x \in Range(m) <=> x \in Range(b)
  BY <1>1, <1>2, InRange
<1>4. QED
  BY <1>3

LEMMA MixtureSays ==
    ASSUME NEW r, NEW n, Shaped(r), Shaped(n), Valid(r), Valid(n),
           Unambiguous(r), Unambiguous(n), StructurallyIdentical(r, n)
    PROVE  Says(SwapDataFields(r, n), n)
<1> DEFINE m == SwapDataFields(r, n)
<1>1. /\ Shaped(m) /\ MixedHeads(m, r, n)
      /\ DOMAIN m.gpus = DOMAIN r.gpus /\ DOMAIN m.fans = DOMAIN r.fans
      /\ \A i \in DOMAIN r.gpus : \E j \in DOMAIN n.gpus :
            /\ n.gpus[j] = LastWithId(n.gpus, r.gpus[i].id)
            /\ n.gpus[j].id = r.gpus[i].id /\ MixedGpu(m.gpus[i], r.gpus[i], n.gpus[j])
      /\ \A i \in DOMAIN r.fans : \E j \in DOMAIN n.fans :
            /\ n.fans[j] = LastWithId(n.fans, r.fans[i].id)
            /\ n.fans[j].id = r.fans[i].id /\ MixedFan(m.fans[i], r.fans[i], n.fans[j])
  BY Mixture
<1> HIDE DEF m
<1> DEFINE identity == {"chip", "device_path", "hwmon_path", "pwm_channel"}
<1>2. /\ Identities(r.gpus, {"nvml_index"}) = Identities(n.gpus, {"nvml_index"})
      /\ Identities(r.fans, identity) = Identities(n.fans, identity)
      /\ Identities(r.groups, {"gpus", "fans"}) = Identities(n.groups, {"gpus", "fans"})
  BY DEF StructurallyIdentical
<1> HIDE DEF identity
<1>3. /\ Blocklist(r.gpus, "gpu") /\ Blocklist(n.gpus, "gpu") /\ Blocklist(m.gpus, "gpu")
      /\ Blocklist(r.fans, "fan") /\ Blocklist(n.fans, "fan") /\ Blocklist(m.fans, "fan")
      /\ Blocklist(r.groups, "group") /\ Blocklist(n.groups, "group")
  BY <1>1 DEF Shaped
<1>4. Range(m.gpus) = Range(n.gpus)
  <2>1. ASSUME NEW i \in DOMAIN r.gpus
        PROVE  m.gpus[i].id = r.gpus[i].id /\ m.gpus[i] = LastWithId(n.gpus, r.gpus[i].id)
    <3>1. PICK j \in DOMAIN n.gpus :
              /\ n.gpus[j] = LastWithId(n.gpus, r.gpus[i].id)
              /\ n.gpus[j].id = r.gpus[i].id /\ MixedGpu(m.gpus[i], r.gpus[i], n.gpus[j])
      BY <1>1
    <3>2. r.gpus[i].nvml_index = n.gpus[j].nvml_index
      <4>1. \A k \in {"nvml_index"} : r.gpus[i][k] = LastWithId(n.gpus, r.gpus[i].id)[k]
        BY <1>2, <1>3, Counterpart DEF Unambiguous
      <4>2. QED
        BY <3>1, <4>1
    <3>3. \A k \in {"id"} \cup Known("gpu") : m.gpus[i][k] = n.gpus[j][k]
      BY <3>1, <3>2, KnownKeys DEF MixedGpu
    <3>4. m.gpus[i] = n.gpus[j]
      BY <1>1, <1>3, <3>3, SameListed
    <3>5. QED
      BY <3>1, <3>4
  <2>2. Ids(m.gpus) = Ids(n.gpus)
    <3>1. \A id : id \in Ids(m.gpus) <=> id \in Ids(r.gpus)
      BY <1>1, <2>1 DEF Ids, Range
    <3>2. Ids(r.gpus) = Ids(n.gpus)
      BY <1>2, SameIds, Zenon
    <3>3. QED
      BY <3>1, <3>2
  <2>3. \A i \in DOMAIN m.gpus : m.gpus[i] = LastWithId(n.gpus, m.gpus[i].id)
    BY <1>1, <2>1
  <2>4. QED
    BY <1>3, <2>2, <2>3, SameBlocks DEF Unambiguous
<1>5. Range(m.fans) = Range(n.fans)
  <2>1. ASSUME NEW i \in DOMAIN r.fans
        PROVE  m.fans[i].id = r.fans[i].id /\ m.fans[i] = LastWithId(n.fans, r.fans[i].id)
    <3>1. PICK j \in DOMAIN n.fans :
              /\ n.fans[j] = LastWithId(n.fans, r.fans[i].id)
              /\ n.fans[j].id = r.fans[i].id /\ MixedFan(m.fans[i], r.fans[i], n.fans[j])
      BY <1>1
    <3>2. \A k \in identity : r.fans[i][k] = n.fans[j][k]
      <4>1. \A k \in identity : r.fans[i][k] = LastWithId(n.fans, r.fans[i].id)[k]
        BY <1>2, <1>3, Counterpart DEF Unambiguous
      <4>2. QED
        BY <3>1, <4>1
    <3>3. \A k \in {"id"} \cup Known("fan") : m.fans[i][k] = n.fans[j][k]
      BY <3>1, <3>2, KnownKeys DEF MixedFan, identity
    <3>4. m.fans[i] = n.fans[j]
      BY <1>1, <1>3, <3>3, SameListed
    <3>5. QED
      BY <3>1, <3>4
  <2>2. Ids(m.fans) = Ids(n.fans)
    <3>1. \A id : id \in Ids(m.fans) <=> id \in Ids(r.fans)
      BY <1>1, <2>1 DEF Ids, Range
    <3>2. Ids(r.fans) = Ids(n.fans)
      BY <1>2, SameIds, Zenon
    <3>3. QED
      BY <3>1, <3>2
  <2>3. \A i \in DOMAIN m.fans : m.fans[i] = LastWithId(n.fans, m.fans[i].id)
    BY <1>1, <2>1
  <2>4. QED
    BY <1>3, <2>2, <2>3, SameBlocks DEF Unambiguous
<1>6. Range(m.groups) = Range(n.groups)
  <2>1. m.groups = r.groups
    BY <1>1 DEF MixedHeads
  <2>2. ASSUME NEW i \in DOMAIN r.groups
        PROVE  r.groups[i] = LastWithId(n.groups, r.groups[i].id)
    <3>1. /\ r.groups[i].id \in Ids(n.groups)
          /\ \A k \in {"gpus", "fans"} :
                r.groups[i][k] = LastWithId(n.groups, r.groups[i].id)[k]
      BY <1>2, <1>3, Counterpart DEF Unambiguous
    <3>2. PICK j \in DOMAIN n.groups : /\ n.groups[j].id = r.groups[i].id
                                      /\ n.groups[j] = LastWithId(n.groups, r.groups[i].id)
      BY <1>3, <3>1, LastIsOne
    <3>3. \A k \in {"id"} \cup Known("group") : r.groups[i][k] = n.groups[j][k]
      BY <3>1, <3>2, KnownKeys
    <3>4. QED
      BY <1>3, <3>2, <3>3, SameListed
  <2>3. Ids(r.groups) = Ids(n.groups)
    BY <1>2, SameIds, Zenon
  <2>4. QED
    BY <1>3, <2>1, <2>2, <2>3, SameBlocks DEF Unambiguous
<1>7. m.global = [n.global EXCEPT !.log_file = m.global.log_file]
  <2> DEFINE g == [n.global EXCEPT !.log_file = m.global.log_file]
  <2>1. Table(m.global, Known("global")) /\ Table(n.global, Known("global"))
    BY <1>1 DEF Shaped
  <2>2. Table(g, Known("global"))
    BY <2>1 DEF Table, IsFcn
  <2>3. m.global.config_version = n.global.config_version
    <3>1. r.global.config_version = 1 /\ n.global.config_version = 1
      BY DEF Valid, WatchdogRules
    <3>2. QED
      BY <1>1, <3>1 DEF MixedHeads
  <2>4. \A k \in Known("global") : m.global[k] = g[k]
    BY <1>1, <2>1, <2>3, KnownKeys DEF MixedHeads, Table
  <2>5. QED
    BY <2>1, <2>2, <2>4, SameBlock
<1>8. m.watchdog = [n.watchdog EXCEPT !.enabled = m.watchdog.enabled]
  <2> DEFINE w == [n.watchdog EXCEPT !.enabled = m.watchdog.enabled]
  <2>1. Table(m.watchdog, Known("watchdog")) /\ Table(n.watchdog, Known("watchdog"))
    BY <1>1 DEF Shaped
  <2>2. Table(w, Known("watchdog"))
    BY <2>1 DEF Table, IsFcn
  <2>3. r.watchdog.device = n.watchdog.device /\ r.watchdog.timeout_s = n.watchdog.timeout_s
    BY DEF StructurallyIdentical
  <2>4. \A k \in Known("watchdog") : m.watchdog[k] = w[k]
    BY <1>1, <2>1, <2>3, KnownKeys DEF MixedHeads, Table
  <2>5. QED
    BY <2>1, <2>2, <2>4, SameBlock
<1>9. QED
  BY <1>4, <1>5, <1>6, <1>7, <1>8 DEF Says, m

CfgDistinct == proc["daemon"].phase # "down" => Unambiguous(proc["daemon"].cfg)

LEMMA SighupDistinct ==
    ASSUME NEW r, Shaped(r), Unambiguous(r), NEW new \in Loads
    PROVE  Unambiguous(HandleSighup(r, new))
<1>1. CASE new = Rejected \/ ~StructurallyIdentical(r, new)
  BY <1>1 DEF HandleSighup
<1>2. CASE ~(new = Rejected \/ ~StructurallyIdentical(r, new))
  <2> DEFINE m == SwapDataFields(r, new)
  <2>1. Shaped(new) /\ StructurallyIdentical(r, new)
    BY <1>2, LoadsGood
  <2>2. /\ MixedHeads(m, r, new)
        /\ DOMAIN m.gpus = DOMAIN r.gpus /\ DOMAIN m.fans = DOMAIN r.fans
        /\ \A i \in DOMAIN r.gpus : \E j : MixedGpu(m.gpus[i], r.gpus[i], new.gpus[j])
        /\ \A i \in DOMAIN r.fans : \E j : MixedFan(m.fans[i], r.fans[i], new.fans[j])
    BY <2>1, Mixture
  <2>3. HandleSighup(r, new) = m
    BY <1>2 DEF HandleSighup
  <2> HIDE DEF m
  <2>4. /\ \A i \in DOMAIN r.gpus : m.gpus[i].id = r.gpus[i].id
        /\ \A i \in DOMAIN r.fans : m.fans[i].id = r.fans[i].id
        /\ m.groups = r.groups
    BY <2>2 DEF MixedGpu, MixedFan, MixedHeads
  <2>5. DistinctIds(m.gpus) /\ DistinctIds(m.fans) /\ DistinctIds(m.groups)
    BY <2>2, <2>4 DEF Unambiguous, DistinctIds
  <2>6. QED
    BY <2>3, <2>5 DEF Unambiguous
<1>3. QED
  BY <1>1, <1>2

LEMMA CfgDistinctStep ==
    FilesUnambiguous /\ CfgGood /\ CfgDistinct /\ CfgMoves => CfgDistinct'
<1> SUFFICES ASSUME FilesUnambiguous, CfgGood, CfgDistinct, CfgMoves,
                    proc'["daemon"].phase # "down"
             PROVE  Unambiguous(proc'["daemon"].cfg)
  BY DEF CfgDistinct
<1>1. CASE proc["daemon"].phase # "down" /\ proc'["daemon"].cfg = proc["daemon"].cfg
  BY <1>1 DEF CfgDistinct
<1>2. CASE proc'["daemon"].cfg \in Loads \ {Rejected}
  BY <1>2 DEF FilesUnambiguous
<1>3. CASE /\ proc["daemon"].phase = "running"
           /\ \E new \in Loads : proc'["daemon"].cfg = HandleSighup(proc["daemon"].cfg, new)
  BY <1>3, SighupDistinct DEF CfgGood, CfgDistinct
<1>4. QED
  BY <1>1, <1>2, <1>3, Zenon DEF CfgMoves

ReloadSays ==
    LET old == proc["daemon"].cfg
        cfg == proc'["daemon"].cfg
    IN  proc["daemon"].phase = "running" /\ cfg \notin {old, None} =>
            \A new \in Loads : HandleSighup(old, new) = cfg => Says(cfg, new)

LEMMA ReloadStep ==
    FilesUnambiguous /\ CfgGood /\ CfgDistinct => ReloadSays
<1> DEFINE old == proc["daemon"].cfg
           cfg == proc'["daemon"].cfg
<1> SUFFICES ASSUME FilesUnambiguous, CfgGood, CfgDistinct,
                    proc["daemon"].phase = "running", cfg # old,
                    NEW new \in Loads, HandleSighup(old, new) = cfg
             PROVE  Says(cfg, new)
  BY DEF ReloadSays
<1>1. /\ new # Rejected /\ StructurallyIdentical(old, new)
      /\ cfg = SwapDataFields(old, new)
  BY DEF HandleSighup
<1>2. Shaped(new) /\ Valid(new) /\ Unambiguous(new)
  BY <1>1, LoadsGood DEF FilesUnambiguous
<1>3. Shaped(old) /\ Valid(old) /\ Unambiguous(old)
  BY DEF CfgGood, CfgDistinct
<1> HIDE DEF old, cfg
<1>4. QED
  BY <1>1, <1>2, <1>3, MixtureSays

(* A reload that changes anything makes the running configuration say what *)
(* the file says: no field is forgotten, neither by the comparison nor by  *)
(* the swap.                                                               *)
THEOREM ReloadsAreWhole ==
    ASSUME FilesUnambiguous
    PROVE  Spec => ReloadIsWhole
<1>1. Init => ProcTable /\ CfgGood /\ CfgDistinct
  BY ProcTableInit DEF CfgGood, CfgDistinct
<1>2. ProcTable /\ CfgGood /\ CfgDistinct /\ [Next]_vars
          => (ProcTable /\ CfgGood /\ CfgDistinct)'
  BY CfgStep, CfgGoodStep, CfgDistinctStep
<1>3. CfgGood /\ CfgDistinct => ReloadSays
  BY ReloadStep
<1>4. Spec => [][ReloadSays]_vars
  BY <1>1, <1>2, <1>3, PTL DEF Spec
<1>5. QED
  BY <1>4 DEF ReloadIsWhole, ReloadSays

-----------------------------------------------------------------------------
(* The processes and the channels: types.                                  *)
Box ==
    /\ dirs \in Numberings /\ stranded \in BOOLEAN
    /\ mode \in [Channel -> {BiosMode, Manual}]

Percents == {5 * k : k \in 2..12}

PhasesOf(p) == {"down", "taking", "restoring", IF p = "daemon" THEN "running" ELSE "sweeping"}

(* What a process that takes its fans over goes by: a configuration that   *)
(* was accepted, of which the calibration knows the fans, and a scan.      *)
Prepared(c, p) ==
    /\ \E cfg \in Loads \ {Rejected} :
          /\ c.cfg.fans = cfg.fans
          /\ p = "daemon" => c.cfg = cfg
    /\ c.chips \in Scans
    /\ c.next \in 1..(Len(c.cfg.fans) + 1)

(* The calibration's handles are its fans' one by one.                     *)
Counted(c) ==
    /\ c.phase = "taking" => Len(c.handles) = c.next - 1
    /\ c.phase = "sweeping" => c.next \in 1..Len(c.handles)

ProcInv(c, p) ==
    /\ DOMAIN c = ProcKeys /\ c.phase \in PhasesOf(p)
    /\ c.handles \in Seq(Handle) /\ c.pct \in Percents
    /\ c.phase = "taking" => Prepared(c, p)
    /\ p = "calibration" => Counted(c)

ChanTypes ==
    /\ Box /\ DOMAIN proc = Processes
    /\ \A p \in Processes : ProcInv(proc[p], p)

LEMMA DownIs == \A p : ProcInv(Down, p)
<1>1. 10 \in Percents
  <2>1. 10 = 5 * 2
    OBVIOUS
  <2>2. QED
    BY <2>1 DEF Percents
<1>2. Down.handles \in Seq(Handle) /\ Down.phase = "down" /\ Down.pct = 10
  BY DEF Down
<1>3. QED
  BY <1>1, <1>2, DownKeys DEF ProcInv, PhasesOf, Counted

LEMMA ListLength ==
    ASSUME NEW b, NEW kind, Blocklist(b, kind)
    PROVE  Len(b) \in Nat /\ DOMAIN b = 1..Len(b)
<1>1. PICK n \in Nat : DOMAIN b = 1..n
  BY DEF Blocklist
<1>2. b = [i \in 1..n |-> b[i]]
  BY <1>1 DEF Blocklist, IsFcn
<1>3. Len([i \in 1..n |-> b[i]]) = n
  OBVIOUS
<1>4. QED
  BY <1>1, <1>2, <1>3, Zenon

(* An accepted configuration has a fan at least.                           *)
LEMMA LoadsFans ==
    ASSUME NEW cfg \in Loads, cfg # Rejected
    PROVE  Len(cfg.fans) \in Nat \ {0} /\ DOMAIN cfg.fans = 1..Len(cfg.fans)
<1>1. Blocklist(cfg.fans, "fan") /\ cfg.fans # <<>>
  BY LoadsGood DEF Shaped, Valid, StructureRules
<1>2. Len(cfg.fans) \in Nat /\ DOMAIN cfg.fans = 1..Len(cfg.fans)
  BY <1>1, ListLength
<1>3. Len(cfg.fans) # 0
  <2>1. DOMAIN cfg.fans # {}
    <3>1. ASSUME NEW b, IsFcn(b), DOMAIN b = {} PROVE b = <<>>
      BY <3>1 DEF IsFcn
    <3>2. QED
      BY <1>1, <3>1 DEF Blocklist
  <2>2. QED
    BY <1>2, <2>1
<1>4. QED
  BY <1>2, <1>3

(* What a step does to one process and leaves of the other.                *)
LEMMA OneProcess ==
    ASSUME ChanTypes, NEW p \in Processes, NEW c, proc' = [proc EXCEPT ![p] = c],
           ProcInv(c, p), Box', dirs' = dirs
    PROVE  ChanTypes'
<1>1. DOMAIN proc' = Processes /\ proc'[p] = c /\ \A q \in Processes : q # p => proc'[q] = proc[q]
  BY DEF ChanTypes
<1>2. \A q \in Processes : ProcInv(proc'[q], q)
  BY <1>1 DEF ChanTypes
<1>3. Scans' = Scans
  BY DEF Scans
<1>4. \A q \in Processes : ProcInv(proc[q], q)'
  BY <1>2, <1>3 DEF ProcInv, Prepared
<1>5. QED
  BY <1>1, <1>4 DEF ChanTypes

LEMMA EndTypes == ASSUME ChanTypes, NEW p \in Processes, End(p), UNCHANGED <<dirs, mode>>
                  PROVE  ChanTypes'
<1>1. proc' = [proc EXCEPT ![p] = Down]
  BY DEF End
<1>2. Box'
  BY DEF ChanTypes, Box, End
<1>3. QED
  BY <1>1, <1>2, OneProcess, DownIs

LEMMA EnterTypes ==
    ASSUME ChanTypes, NEW p \in Processes, NEW cfg \in Loads \ {Rejected}, NEW c,
           c.fans = cfg.fans, p = "daemon" => c = cfg, NEW chips \in Scans, Enter(p, c, chips)
    PROVE  ChanTypes'
<1> DEFINE d == [Down EXCEPT !.phase = "taking", !.cfg = c, !.chips = chips]
<1>1. /\ DOMAIN d = ProcKeys /\ d.phase = "taking" /\ d.cfg = c /\ d.chips = chips
      /\ d.handles = <<>> /\ d.next = 1 /\ d.pct = 10
  BY DEF Down, ProcKeys
<1>2. Box' /\ dirs' = dirs /\ proc' = [proc EXCEPT ![p] = d]
  BY DEF Enter, ChanTypes, Box
<1> HIDE DEF d
<1>3. 10 \in Percents
  BY DownIs DEF ProcInv, Down
<1>4. Prepared(d, p)
  <2>1. d.next \in 1..(Len(d.cfg.fans) + 1)
    BY <1>1, LoadsFans
  <2>2. QED
    BY <1>1, <2>1 DEF Prepared
<1>5. d.handles \in Seq(Handle) /\ Len(d.handles) = d.next - 1
  BY <1>1
<1>6. ProcInv(d, p)
  BY <1>1, <1>3, <1>4, <1>5 DEF ProcInv, PhasesOf, Counted
<1>7. QED
  BY <1>2, <1>6, OneProcess

-----------------------------------------------------------------------------
(* What the fan operations do to a channel.                                *)
LEMMA AtChannel == ASSUME NEW h \in Handle PROVE h.at \in Channel /\ h.snapshot \in {BiosMode, Manual}
BY DEF Handle

LEMMA Rearms ==
    ASSUME Box, NEW h \in Handle, Rearmed(h)
    PROVE  \E e \in {mode[h.at], Manual} : mode' = [mode EXCEPT ![h.at] = e]
<1>1. FanOf(h).enable = mode[h.at]
  BY DEF FanOf, Open
<1>2. PICK fails : mode' = [mode EXCEPT ![h.at] = EnsureManual(FanOf(h), fails).fan.enable]
  BY Zenon DEF Rearmed
<1>3. \A x : DOMAIN x = DOMAIN Open(1, 1) =>
          EnsureManual(x, fails).fan.enable \in {x.enable, Manual}
  BY DEF EnsureManual, Done, Failed, Open
<1>4. DOMAIN FanOf(h) = DOMAIN Open(1, 1)
  BY DEF FanOf, Open
<1>5. QED
  BY <1>1, <1>2, <1>3, <1>4

LEMMA RearmKeepsBox == ASSUME Box, NEW h \in Handle, Rearmed(h), UNCHANGED <<dirs, stranded>>
                       PROVE  Box'
BY Rearms, AtChannel DEF Box

LEMMA Restores ==
    ASSUME NEW h \in Handle, NEW fails
    PROVE  /\ Restore(FanOf(h), fails).ok \in BOOLEAN
           /\ Restore(FanOf(h), fails).ok => Restore(FanOf(h), fails).fan.enable = h.snapshot
           /\ ~Restore(FanOf(h), fails).ok => Restore(FanOf(h), fails).fan.enable = mode[h.at]
<1>1. FanOf(h).enable = mode[h.at] /\ FanOf(h).snapshot = h.snapshot
  BY DEF FanOf, Open
<1>2. DOMAIN FanOf(h) = DOMAIN Open(1, 1)
  BY DEF FanOf, Open
<1>3. \A x : DOMAIN x = DOMAIN Open(1, 1) =>
         /\ Restore(x, fails).ok \in BOOLEAN
         /\ Restore(x, fails).ok => Restore(x, fails).fan.enable = x.snapshot
         /\ ~Restore(x, fails).ok => Restore(x, fails).fan.enable = x.enable
  BY DEF Restore, Done, Failed, Open
<1>4. QED
  BY <1>1, <1>2, <1>3

(* Discovery finds directories of the box, of the chip's name.             *)
LEMMA Resolved ==
    ASSUME Box, NEW chips \in Scans, NEW fan, Resolve(chips, fan) # None
    PROVE  /\ Resolve(chips, fan) \in Dirs
           /\ IF fan.hwmon_path = None THEN ChipName[dirs[Resolve(chips, fan)]] = fan.chip
              ELSE fan.hwmon_path \in Dirs /\ Resolve(chips, fan) = fan.hwmon_path
<1>1. CASE fan.hwmon_path # None
  BY <1>1 DEF Resolve
<1>2. CASE fan.hwmon_path = None
  <2>1. fan.chip \in DOMAIN chips /\ Resolve(chips, fan) = chips[fan.chip]
    BY <1>2 DEF Resolve
  <2>2. PICK names : /\ chips \in [names -> Dirs]
                     /\ \A n \in names : ChipName[dirs[chips[n]]] = n
    BY Zenon DEF Scans
  <2>3. QED
    BY <1>2, <2>1, <2>2
<1>3. QED
  BY <1>1, <1>2

LEMMA ChannelOf ==
    ASSUME Box, NEW path \in Dirs, NEW fan, HasFiles(path, fan)
    PROVE  <<dirs[path], fan.pwm_channel>> \in Channel
<1>1. dirs[path] \in Devices /\ fan.pwm_channel \in PwmChannels[dirs[path]]
  BY DEF Box, Numberings, HasFiles
<1>2. <<dirs[path], fan.pwm_channel>> \in {dirs[path]} \X PwmChannels[dirs[path]]
  BY <1>1
<1>3. QED
  BY <1>1, <1>2 DEF Channel

-----------------------------------------------------------------------------
(* A takeover: it fails and ends the process, or adds a handle.            *)
Took(p, h) ==
    LET f == proc[p].cfg.fans[proc[p].next]
    IN  /\ h \in Handle /\ h.id = f.id /\ h.snapshot = mode[h.at]
        /\ Path(p, f) # None /\ Path(p, f) \in Dirs
        /\ h.at = <<dirs[Path(p, f)], f.pwm_channel>>
        /\ mode' = [mode EXCEPT ![h.at] = Manual]
        /\ proc' = [proc EXCEPT ![p].next = @ + 1, ![p].handles = Kept(p, @, h)]
        /\ UNCHANGED <<dirs, stranded>>

LEMMA NextFan ==
    ASSUME ChanTypes, NEW p \in Processes, proc[p].phase = "taking",
           proc[p].next <= Len(proc[p].cfg.fans)
    PROVE  /\ proc[p].next \in DOMAIN proc[p].cfg.fans
           /\ proc[p].cfg.fans[proc[p].next].id \in FanIds
           /\ proc[p].chips \in Scans
<1>1. Prepared(proc[p], p)
  BY DEF ChanTypes, ProcInv
<1>2. PICK cfg \in Loads \ {Rejected} : proc[p].cfg.fans = cfg.fans
  BY <1>1 DEF Prepared
<1>3. proc[p].next \in DOMAIN cfg.fans
  BY <1>1, <1>2, LoadsFans DEF Prepared
<1>4. cfg.fans[proc[p].next].id \in Ids(cfg.fans)
  BY <1>3 DEF Ids, Range
<1>5. cfg.fans[proc[p].next].id \in FanIds
  BY <1>4 DEF FanIds
<1>6. QED
  BY <1>1, <1>2, <1>3, <1>5 DEF Prepared

LEMMA TakeEffect ==
    ASSUME ChanTypes, NEW p \in Processes, Take(p)
    PROVE  \/ End(p) /\ UNCHANGED <<dirs, mode>>
           \/ \E h : Took(p, h)
<1> DEFINE f == proc[p].cfg.fans[proc[p].next]
           path == Path(p, f)
           at == <<dirs[path], f.pwm_channel>>
<1>1. CASE ~HasFiles(path, f)
  BY <1>1 DEF Take
<1>2. CASE HasFiles(path, f)
  <2>1. PICK fails \in Failing :
            LET taken == TakeManualControl(Open(mode[at], 255), fails)
                h     == [id |-> f.id, at |-> at, snapshot |-> taken.fan.snapshot]
            IN  IF ~taken.ok THEN End(p) /\ UNCHANGED mode
                ELSE /\ mode' = [mode EXCEPT ![at] = taken.fan.enable]
                     /\ proc' = [proc EXCEPT ![p].next = @ + 1,
                                             ![p].handles = Kept(p, @, h)]
                     /\ UNCHANGED stranded
    BY <1>2 DEF Take
  <2> DEFINE taken == TakeManualControl(Open(mode[at], 255), fails)
             h == [id |-> f.id, at |-> at, snapshot |-> taken.fan.snapshot]
  <2>2. UNCHANGED dirs
    BY DEF Take
  <2>3. CASE ~taken.ok
    BY <2>1, <2>2, <2>3
  <2>4. CASE taken.ok
    <3>1. taken.fan.enable = Manual /\ taken.fan.snapshot = mode[at]
      BY <2>4 DEF TakeManualControl, Open, Done, Failed
    <3>2. proc[p].chips \in Scans /\ f.id \in FanIds
      BY NextFan DEF Take
    <3>3. path \in Dirs
      <4>1. path # None /\ \E fan : path = Resolve(proc[p].chips, fan)
        BY <1>2 DEF HasFiles, Path
      <4>2. QED
        BY <3>2, <4>1, Resolved DEF ChanTypes
    <3>4. at \in Channel
      BY <1>2, <3>3, ChannelOf DEF ChanTypes
    <3>5. mode[at] \in {BiosMode, Manual}
      BY <3>4 DEF ChanTypes, Box
    <3>6. h \in Handle /\ h.id = f.id /\ h.at = at /\ h.snapshot = mode[at]
      BY <3>1, <3>2, <3>4, <3>5 DEF Handle
    <3>7. /\ mode' = [mode EXCEPT ![at] = Manual]
          /\ proc' = [proc EXCEPT ![p].next = @ + 1, ![p].handles = Kept(p, @, h)]
          /\ UNCHANGED stranded
      BY <2>1, <2>4, <3>1
    <3>0. path # None
      BY <1>2 DEF HasFiles
    <3> HIDE DEF h, at, path, f, taken
    <3>8. /\ h.id = f.id /\ h.snapshot = mode[h.at] /\ path \in Dirs /\ path # None
          /\ mode' = [mode EXCEPT ![h.at] = Manual]
      BY <3>0, <3>3, <3>6, <3>7
    <3>9. h.at = <<dirs[path], f.pwm_channel>>
      BY <3>6 DEF at
    <3>10. Took(p, h)
      BY <2>2, <3>6, <3>7, <3>8, <3>9 DEF Took, f, path
    <3>11. QED
      BY <3>10
  <2>5. QED
    BY <2>3, <2>4
<1>3. QED
  BY <1>1, <1>2

LEMMA KeptTyped ==
    ASSUME NEW p, NEW handles \in Seq(Handle), NEW h \in Handle
    PROVE  /\ Kept(p, handles, h) \in Seq(Handle)
           /\ p # "daemon" => /\ Kept(p, handles, h) = Append(handles, h)
                              /\ Len(Kept(p, handles, h)) = Len(handles) + 1
<1>1. [i \in DOMAIN handles |-> IF handles[i].id = h.id THEN h ELSE handles[i]] \in Seq(Handle)
  OBVIOUS
<1>2. QED
  BY <1>1 DEF Kept

LEMMA TakeTypes == ASSUME ChanTypes, NEW p \in Processes, Take(p) PROVE ChanTypes'
<1>1. CASE End(p) /\ UNCHANGED <<dirs, mode>>
  BY <1>1, EndTypes
<1>2. ASSUME NEW h, Took(p, h) PROVE ChanTypes'
  <2> DEFINE c == [proc[p] EXCEPT !.next = @ + 1, !.handles = Kept(p, @, h)]
  <2>1. proc[p].phase = "taking" /\ proc[p].next <= Len(proc[p].cfg.fans)
    BY DEF Take
  <2>2. ProcInv(proc[p], p) /\ p \in DOMAIN proc
    BY DEF ChanTypes
  <2>3. proc' = [proc EXCEPT ![p] = c]
    BY <1>2 DEF Took
  <2>4. /\ DOMAIN c = ProcKeys /\ c.phase = "taking" /\ c.cfg = proc[p].cfg
        /\ c.chips = proc[p].chips /\ c.next = proc[p].next + 1 /\ c.pct = proc[p].pct
        /\ c.handles = Kept(p, proc[p].handles, h)
    BY <2>1, <2>2 DEF ProcInv, ProcKeys
  <2>5. Box' /\ dirs' = dirs
    <3>1. mode' = [mode EXCEPT ![h.at] = Manual] /\ UNCHANGED <<dirs, stranded>> /\ h \in Handle
      BY <1>2 DEF Took
    <3>2. QED
      BY <3>1, AtChannel DEF ChanTypes, Box
  <2> HIDE DEF c
  <2>6. Prepared(c, p)
    <3>1. Prepared(proc[p], p)
      BY <2>1, <2>2 DEF ProcInv
    <3>2. c.next \in 1..(Len(c.cfg.fans) + 1)
      <4>1. Len(proc[p].cfg.fans) \in Nat
        BY <3>1, LoadsFans DEF Prepared
      <4>2. QED
        BY <2>1, <2>4, <3>1, <4>1 DEF Prepared
    <3>3. QED
      BY <2>4, <3>1, <3>2 DEF Prepared
  <2>7. proc[p].handles \in Seq(Handle) /\ h \in Handle
    BY <1>2, <2>2 DEF Took, ProcInv
  <2>8. p = "calibration" => Counted(c)
    <3>1. proc[p].next \in Nat
      BY <2>1, <2>2, LoadsFans DEF ProcInv, Prepared
    <3>2. QED
      BY <2>1, <2>2, <2>4, <2>7, <3>1, KeptTyped DEF ProcInv, Counted
  <2>9. ProcInv(c, p)
    BY <2>2, <2>4, <2>6, <2>7, <2>8, KeptTyped DEF ProcInv, PhasesOf
  <2>10. QED
    BY <2>3, <2>5, <2>9, OneProcess
<1>3. QED
  BY <1>1, <1>2, TakeEffect

-----------------------------------------------------------------------------
(* The other steps.                                                        *)
LEMMA ReadyTypes == ASSUME ChanTypes, NEW p \in Processes, Ready(p) PROVE ChanTypes'
<1> DEFINE c == [proc[p] EXCEPT !.phase = IF p = "daemon" THEN "running" ELSE "sweeping",
                                !.chips = <<>>, !.next = 1]
<1>1. ProcInv(proc[p], p) /\ proc[p].phase = "taking" /\ proc[p].next > Len(proc[p].cfg.fans)
  BY DEF Ready, ChanTypes
<1>2. proc' = [proc EXCEPT ![p] = c] /\ Box' /\ dirs' = dirs
  BY DEF Ready, ChanTypes, Box
<1>3. /\ DOMAIN c = ProcKeys /\ c.phase = (IF p = "daemon" THEN "running" ELSE "sweeping")
      /\ c.handles = proc[p].handles /\ c.pct = proc[p].pct /\ c.next = 1
  BY <1>1 DEF ProcInv, ProcKeys
<1> HIDE DEF c
<1>4. p = "calibration" => 1 \in 1..Len(proc[p].handles)
  <2>1. PICK cfg \in Loads \ {Rejected} : proc[p].cfg.fans = cfg.fans
    BY <1>1 DEF ProcInv, Prepared
  <2>2. Len(cfg.fans) \in Nat \ {0} /\ proc[p].next \in 1..(Len(cfg.fans) + 1)
    BY <1>1, <2>1, LoadsFans DEF ProcInv, Prepared
  <2>3. proc[p].next - 1 >= 1
    BY <1>1, <2>1, <2>2
  <2>4. QED
    BY <1>1, <2>2, <2>3 DEF ProcInv, Counted
<1>5. ProcInv(c, p)
  BY <1>1, <1>3, <1>4 DEF ProcInv, Counted, PhasesOf
<1>6. QED
  BY <1>2, <1>5, OneProcess

LEMMA Removed ==
    ASSUME NEW S, NEW s \in Seq(S), NEW i \in DOMAIN s
    PROVE  /\ RemoveAt(s, i) \in Seq(S) /\ Len(RemoveAt(s, i)) = Len(s) - 1
           /\ \A j \in 1..(Len(s) - 1) :
                 RemoveAt(s, i)[j] = IF j < i THEN s[j] ELSE s[j + 1]
<1>1. i \in 1..Len(s) /\ Len(s) \in Nat
  OBVIOUS
<1>2. SubSeq(s, 1, i - 1) \in Seq(S) /\ Len(SubSeq(s, 1, i - 1)) = i - 1
  BY <1>1
<1>3. SubSeq(s, i + 1, Len(s)) \in Seq(S) /\ Len(SubSeq(s, i + 1, Len(s))) = Len(s) - i
  BY <1>1
<1>4. \A a, b \in Seq(S) :
          /\ a \o b \in Seq(S) /\ Len(a \o b) = Len(a) + Len(b)
          /\ \A j \in 1..(Len(a) + Len(b)) :
                (a \o b)[j] = IF j <= Len(a) THEN a[j] ELSE b[j - Len(a)]
  OBVIOUS
<1>5. \A j \in 1..(i - 1) : SubSeq(s, 1, i - 1)[j] = s[j]
  BY <1>1
<1>6. \A j \in 1..(Len(s) - i) : SubSeq(s, i + 1, Len(s))[j] = s[j + i]
  BY <1>1
<1> DEFINE a == SubSeq(s, 1, i - 1)
           b == SubSeq(s, i + 1, Len(s))
<1>7. RemoveAt(s, i) = a \o b
  BY DEF RemoveAt
<1> HIDE DEF a, b
<1>8. /\ a \in Seq(S) /\ b \in Seq(S) /\ Len(a) = i - 1 /\ Len(b) = Len(s) - i
      /\ \A j \in 1..(i - 1) : a[j] = s[j]
      /\ \A j \in 1..(Len(s) - i) : b[j] = s[j + i]
  BY <1>2, <1>3, <1>5, <1>6 DEF a, b
<1>9. /\ a \o b \in Seq(S) /\ Len(a \o b) = Len(a) + Len(b)
      /\ \A j \in 1..(Len(a) + Len(b)) :
            (a \o b)[j] = IF j <= Len(a) THEN a[j] ELSE b[j - Len(a)]
  BY <1>4, <1>8, Zenon
<1>10. Len(a \o b) = Len(s) - 1
  BY <1>1, <1>8, <1>9
<1>11. ASSUME NEW j \in 1..(Len(s) - 1)
       PROVE  (a \o b)[j] = IF j < i THEN s[j] ELSE s[j + 1]
  <2>1. (a \o b)[j] = IF j <= i - 1 THEN a[j] ELSE b[j - (i - 1)]
    <3>1. Len(a) + Len(b) = Len(s) - 1
      BY <1>1, <1>8
    <3>2. (a \o b)[j] = IF j <= Len(a) THEN a[j] ELSE b[j - Len(a)]
      BY <1>9, <3>1, Zenon
    <3>3. Len(a) = i - 1
      BY <1>8
    <3>4. QED
      BY <3>2, <3>3, Zenon
  <2>2. CASE j < i
    <3>1. j <= i - 1 /\ j \in 1..(i - 1)
      BY <1>1, <2>2
    <3>2. QED
      BY <1>8, <2>1, <2>2, <3>1, Zenon
  <2>3. CASE ~(j < i)
    <3>1. j - (i - 1) \in 1..(Len(s) - i) /\ (j - (i - 1)) + i = j + 1
      BY <1>1, <2>3
    <3>2. (a \o b)[j] = b[j - (i - 1)]
      <4>1. ~(j <= i - 1)
        BY <1>1, <2>3
      <4>2. QED
        BY <2>1, <4>1, Zenon
    <3>3. b[j - (i - 1)] = s[(j - (i - 1)) + i]
      BY <1>8, <3>1, Zenon
    <3>4. QED
      BY <2>3, <3>1, <3>2, <3>3
  <2>4. QED
    BY <2>2, <2>3
<1>12. QED
  BY <1>7, <1>9, <1>10, <1>11

LEMMA RestoreTypes == ASSUME ChanTypes, NEW p \in Processes, RestoreNext(p) PROVE ChanTypes'
<1>1. PICK i \in DOMAIN proc[p].handles, fails \in Failing :
          LET h    == proc[p].handles[i]
              done == Restore(FanOf(h), fails)
          IN  /\ mode' = [mode EXCEPT ![h.at] = done.fan.enable]
              /\ stranded' = (stranded \/ ~done.ok)
              /\ proc' = [proc EXCEPT ![p].handles = RemoveAt(@, i)]
  BY DEF RestoreNext
<1> DEFINE h == proc[p].handles[i]
           done == Restore(FanOf(h), fails)
           c == [proc[p] EXCEPT !.handles = RemoveAt(@, i)]
<1>2. ProcInv(proc[p], p) /\ proc[p].phase = "restoring" /\ dirs' = dirs
  BY DEF RestoreNext, ChanTypes
<1>3. proc[p].handles \in Seq(Handle) /\ h \in Handle
  BY <1>2 DEF ProcInv
<1>4. done.fan.enable \in {BiosMode, Manual} /\ done.ok \in BOOLEAN
  <2>1. /\ done.ok \in BOOLEAN /\ (done.ok => done.fan.enable = h.snapshot)
        /\ (~done.ok => done.fan.enable = mode[h.at])
    BY <1>3, Restores, Zenon
  <2>2. h.snapshot \in {BiosMode, Manual} /\ mode[h.at] \in {BiosMode, Manual}
    BY <1>3, AtChannel DEF ChanTypes, Box
  <2> HIDE DEF done, h
  <2>3. QED
    BY <2>1, <2>2
<1>5. Box'
  <2>1. /\ mode' = [mode EXCEPT ![h.at] = done.fan.enable] /\ h.at \in Channel
        /\ stranded' = (stranded \/ ~done.ok)
    BY <1>1, <1>3, AtChannel
  <2>2. stranded' \in BOOLEAN
    BY <2>1, Zenon
  <2> HIDE DEF done, h
  <2>3. QED
    BY <1>2, <1>4, <2>1, <2>2 DEF ChanTypes, Box
<1>6. proc' = [proc EXCEPT ![p] = c]
  BY <1>1
<1>7. /\ DOMAIN c = ProcKeys /\ c.phase = "restoring" /\ c.pct = proc[p].pct
      /\ c.handles = RemoveAt(proc[p].handles, i)
  BY <1>2 DEF ProcInv, ProcKeys
<1> HIDE DEF c
<1>8. ProcInv(c, p)
  <2>1. c.handles \in Seq(Handle)
    BY <1>3, <1>7, Removed
  <2>2. QED
    BY <1>2, <1>7, <2>1 DEF ProcInv, PhasesOf, Counted
<1>9. QED
  BY <1>2, <1>5, <1>6, <1>8, OneProcess

(* Every step of the sweep sets a percentage of the scale.                 *)
LEMMA NextPercent == ASSUME NEW pct \in Percents, pct < 60 PROVE pct + 5 \in Percents
<1>1. PICK k \in 2..12 : pct = 5 * k
  BY DEF Percents
<1>2. k + 1 \in 2..12 /\ pct + 5 = 5 * (k + 1)
  BY <1>1
<1>3. QED
  BY <1>2 DEF Percents

LEMMA SweepTypes == ASSUME ChanTypes, Sweep PROVE ChanTypes'
<1> DEFINE c == proc["calibration"]
<1>1. /\ ProcInv(c, "calibration") /\ c.phase = "sweeping" /\ dirs' = dirs
      /\ c.next \in 1..Len(c.handles) /\ c.handles \in Seq(Handle) /\ DOMAIN c = ProcKeys
      /\ c.pct \in Percents
  BY DaemonProcesses DEF Sweep, ChanTypes, ProcInv, Counted
<1>2. CASE /\ proc' = [proc EXCEPT !["calibration"].phase = "restoring"]
           /\ UNCHANGED mode
  <2> DEFINE d == [c EXCEPT !.phase = "restoring"]
  <2>1. proc' = [proc EXCEPT !["calibration"] = d]
    BY <1>2
  <2>2. ProcInv(d, "calibration")
    BY <1>1 DEF ProcInv, PhasesOf, Counted, ProcKeys
  <2>3. Box'
    BY <1>2 DEF Sweep, ChanTypes, Box
  <2> HIDE DEF d
  <2>4. QED
    BY <1>1, <2>1, <2>2, <2>3, OneProcess, DaemonProcesses
<1>3. ASSUME Rearmed(c.handles[c.next]),
             NEW d, proc' = [proc EXCEPT !["calibration"] = d], ProcInv(d, "calibration")
      PROVE  ChanTypes'
  <2>1. c.handles[c.next] \in Handle
    BY <1>1
  <2>2. Box'
    BY <1>3, <2>1, RearmKeepsBox DEF Sweep, ChanTypes
  <2>3. QED
    BY <1>1, <1>3, <2>2, OneProcess, DaemonProcesses
<1>4. CASE /\ Rearmed(c.handles[c.next])
           /\ proc' = [proc EXCEPT !["calibration"] =
                 IF c.pct < 60 THEN [c EXCEPT !.pct = @ + 5]
                 ELSE IF c.next < Len(c.handles) THEN [c EXCEPT !.pct = 10, !.next = @ + 1]
                 ELSE [c EXCEPT !.phase = "restoring"]]
  <2>1. CASE c.pct < 60
    <3>1. ProcInv([c EXCEPT !.pct = @ + 5], "calibration")
      BY <1>1, <2>1, NextPercent DEF ProcInv, PhasesOf, Counted, ProcKeys
    <3>2. QED
      BY <1>3, <1>4, <2>1, <3>1
  <2>2. CASE ~(c.pct < 60) /\ c.next < Len(c.handles)
    <3>1. 10 \in Percents
      BY DownIs DEF ProcInv, Down
    <3>2. ProcInv([c EXCEPT !.pct = 10, !.next = @ + 1], "calibration")
      BY <1>1, <2>2, <3>1 DEF ProcInv, PhasesOf, Counted, ProcKeys
    <3>3. QED
      BY <1>3, <1>4, <2>2, <3>2
  <2>3. CASE ~(c.pct < 60) /\ ~(c.next < Len(c.handles))
    <3>1. ProcInv([c EXCEPT !.phase = "restoring"], "calibration")
      BY <1>1 DEF ProcInv, PhasesOf, Counted, ProcKeys
    <3>2. QED
      BY <1>3, <1>4, <2>3, <3>1
  <2>4. QED
    BY <2>1, <2>2, <2>3
<1>5. QED
  BY <1>2, <1>4, Zenon DEF Sweep

LEMMA DaemonTypes ==
    ASSUME ChanTypes, NEW c, proc["daemon"].phase = "running", DOMAIN c = ProcKeys,
           proc' = [proc EXCEPT !["daemon"] = c], UNCHANGED <<dirs, mode, stranded>>,
           c.phase \in {"running", "restoring"}, c.handles = proc["daemon"].handles,
           c.pct = proc["daemon"].pct
    PROVE  ChanTypes'
<1>1. ProcInv(proc["daemon"], "daemon")
  BY DaemonProcesses DEF ChanTypes
<1>2. ProcInv(c, "daemon")
  BY <1>1 DEF ProcInv, PhasesOf
<1>3. Box'
  BY DEF ChanTypes, Box
<1>4. QED
  BY <1>2, <1>3, OneProcess, DaemonProcesses

LEMMA BoxStepTypes ==
    ASSUME ChanTypes, Box', UNCHANGED <<dirs, proc>>
    PROVE  ChanTypes'
<1>1. Scans' = Scans
  BY DEF Scans
<1>2. \A p \in Processes : ProcInv(proc[p], p)'
  BY <1>1 DEF ChanTypes, ProcInv, Prepared
<1>3. QED
  BY <1>2 DEF ChanTypes

LEMMA RebootTypes == Reboot => ChanTypes'
<1> SUFFICES ASSUME Reboot PROVE ChanTypes'
  OBVIOUS
<1>1. Box'
  BY DEF Reboot, Box
<1>2. DOMAIN proc' = Processes /\ \A p \in Processes : proc'[p] = Down
  BY DEF Reboot
<1>3. /\ DOMAIN Down = ProcKeys /\ Down.phase = "down" /\ Down.handles \in Seq(Handle)
      /\ Down.pct \in Percents
  BY DownIs, DownKeys DEF ProcInv
<1>4. \A p \in Processes : ProcInv(proc[p], p)'
  BY <1>2, <1>3 DEF ProcInv, PhasesOf, Counted
<1>5. QED
  BY <1>1, <1>2, <1>4 DEF ChanTypes

LEMMA TypesStep == ChanTypes /\ [Next]_vars => ChanTypes'
<1> SUFFICES ASSUME ChanTypes, [Next]_vars PROVE ChanTypes'
  OBVIOUS
<1> USE DaemonProcesses
<1>1. CASE StartDaemon
  BY <1>1, EnterTypes DEF StartDaemon
<1>2. CASE StartCalibration
  <2>1. PICK cfg \in Loads \ {Rejected}, chips \in Scans :
            Enter("calibration", Only(cfg, {"fans"}), chips)
    BY <1>2 DEF StartCalibration
  <2>2. Only(cfg, {"fans"}).fans = cfg.fans
    BY DEF Only
  <2>3. QED
    BY <2>1, <2>2, EnterTypes
<1>3. ASSUME NEW p \in Processes, Step(p) PROVE ChanTypes'
  <2>1. CASE Exit(p)
    BY <2>1, EndTypes DEF Exit
  <2>2. QED
    BY <1>3, <2>1, TakeTypes, ReadyTypes, RestoreTypes DEF Step
<1>4. ASSUME NEW p \in Processes, Crash(p) PROVE ChanTypes'
  BY <1>4, EndTypes DEF Crash
<1>5. CASE Stop
  <2>1. DOMAIN proc["daemon"] = ProcKeys
    BY DEF ChanTypes, ProcInv
  <2> DEFINE c == [proc["daemon"] EXCEPT !.phase = "restoring"]
  <2>2. DOMAIN c = ProcKeys /\ c.phase = "restoring" /\ c.handles = proc["daemon"].handles
        /\ c.pct = proc["daemon"].pct /\ proc' = [proc EXCEPT !["daemon"] = c]
    BY <1>5, <2>1 DEF Stop, ProcKeys
  <2> HIDE DEF c
  <2>3. QED
    BY <1>5, <2>2, DaemonTypes DEF Stop
<1>6. ASSUME NEW new, Reload(new) PROVE ChanTypes'
  <2>1. DOMAIN proc["daemon"] = ProcKeys
    BY DEF ChanTypes, ProcInv
  <2> DEFINE c == [proc["daemon"] EXCEPT !.cfg = HandleSighup(@, new)]
  <2>2. /\ DOMAIN c = ProcKeys /\ c.phase = "running" /\ c.handles = proc["daemon"].handles
        /\ c.pct = proc["daemon"].pct /\ proc' = [proc EXCEPT !["daemon"] = c]
    BY <1>6, <2>1 DEF Reload, ProcKeys
  <2> HIDE DEF c
  <2>3. QED
    BY <1>6, <2>2, DaemonTypes DEF Reload
<1>7. CASE Sweep
  BY <1>7, SweepTypes
<1>8. CASE Reboot
  BY <1>8, RebootTypes
<1>9. CASE Drive
  <2>1. PICK h \in Range(proc["daemon"].handles) : Rearmed(h)
    BY <1>9 DEF Drive
  <2>2. h \in Handle
    BY <2>1 DEF ChanTypes, ProcInv, Range
  <2>3. Box'
    BY <1>9, <2>1, <2>2, RearmKeepsBox DEF Drive, ChanTypes
  <2>4. QED
    BY <1>9, <2>3, BoxStepTypes DEF Drive
<1>10. ASSUME NEW ch \in Channel, Drift(ch) PROVE ChanTypes'
  <2>1. Box'
    BY <1>10 DEF Drift, ChanTypes, Box
  <2>2. QED
    BY <1>10, <2>1, BoxStepTypes DEF Drift
<1>11. CASE UNCHANGED vars
  <2>1. Box'
    BY <1>11 DEF vars, ChanTypes, Box
  <2>2. QED
    BY <1>11, <2>1, BoxStepTypes DEF vars
<1>12. QED
  BY <1>1, <1>2, <1>3, <1>4, <1>5, <1>6, <1>7, <1>8, <1>9, <1>10, <1>11
     DEF Next, Daemon, Calibration

LEMMA TypesInit == Init => ChanTypes
BY DownIs DEF Init, ChanTypes, Box

LEMMA TypesAlways == Spec => []ChanTypes
BY TypesInit, TypesStep, PTL DEF Spec

(* The types, among them that the sweep never looks for a handle past the  *)
(* last one, for any box, any files and all adversities.                   *)
THEOREM BoxTypes == Spec => []TypeOK
<1>1. ChanTypes => TypeOK
  <2> SUFFICES ASSUME ChanTypes, NEW p \in Processes
               PROVE  /\ proc[p].phase \in PhasesOf(p) /\ proc[p].handles \in Seq(Handle)
                      /\ proc[p].phase = "sweeping" => proc[p].next \in DOMAIN proc[p].handles
                      /\ proc[p].pct \in Percents
    BY DEF ChanTypes, Box, TypeOK, PhasesOf, Percents
  <2>1. ProcInv(proc[p], p)
    BY DEF ChanTypes
  <2>2. QED
    BY <2>1 DEF ProcInv, PhasesOf, Counted, Processes
<1>2. QED
  BY <1>1, TypesAlways, PTL

-----------------------------------------------------------------------------
(* Who drives what, when the fans of each file have ids and channels of    *)
(* their own (FilesDrivable).                                              *)

OneHandleEach(handles) ==
    \A i, j \in DOMAIN handles : handles[i].at = handles[j].at => i = j

PlacedInv(c, p) ==
    /\ c.phase = "taking" =>
          /\ Len(c.handles) = c.next - 1
          /\ \A j \in 1..(c.next - 1) : Drives(c.handles[j], c.cfg.fans[j])
    /\ p = "daemon" /\ c.phase = "running" =>
          /\ Len(c.handles) = Len(c.cfg.fans)
          /\ \A j \in DOMAIN c.cfg.fans : Drives(c.handles[j], c.cfg.fans[j])
    /\ OneHandleEach(c.handles)

Placed == \A p \in Processes : PlacedInv(proc[p], p)

LEMMA DrivesApart ==
    ASSUME Box, NEW h, NEW k, NEW f, NEW g, Drives(h, f), Drives(k, g), Apart(f, g)
    PROVE  h.at # k.at
<1>1. CASE f.pwm_channel # g.pwm_channel
  BY <1>1 DEF Drives
<1>2. CASE f.hwmon_path = None /\ g.hwmon_path = None /\ f.chip # g.chip
  BY <1>2 DEF Drives
<1>3. CASE f.hwmon_path # None /\ g.hwmon_path # None /\ f.hwmon_path # g.hwmon_path
  <2>1. \A a, b \in Dirs : dirs[a] = dirs[b] => a = b
    BY DEF Box, Numberings, IsInjective
  <2>2. /\ f.hwmon_path \in Dirs /\ h.at[1] = dirs[f.hwmon_path]
        /\ g.hwmon_path \in Dirs /\ k.at[1] = dirs[g.hwmon_path]
    BY <1>3 DEF Drives
  <2>3. QED
    BY <1>3, <2>1, <2>2
<1>4. QED
  BY <1>1, <1>2, <1>3 DEF Apart

LEMMA TookDrives ==
    ASSUME ChanTypes, FilesDrivable, NEW p \in Processes, proc[p].phase = "taking",
           proc[p].next <= Len(proc[p].cfg.fans), NEW h, Took(p, h)
    PROVE  Drives(h, proc[p].cfg.fans[proc[p].next])
<1> DEFINE f == proc[p].cfg.fans[proc[p].next]
           chips == proc[p].chips
<1>1. Path(p, f) = Resolve(chips, f)
  <2>1. CASE p = "daemon"
    <3>1. Prepared(proc[p], p)
      BY DEF ChanTypes, ProcInv
    <3>2. proc[p].cfg \in Loads \ {Rejected}
      BY <2>1, <3>1 DEF Prepared
    <3>3. Blocklist(proc[p].cfg.fans, "fan") /\ DistinctIds(proc[p].cfg.fans)
      BY <3>2, LoadsGood DEF FilesDrivable, Shaped
    <3>4. LastWithId(proc[p].cfg.fans, f.id) = f
      BY <3>3, NextFan, OnlyOneWithId
    <3>5. QED
      BY <2>1, <3>4 DEF Path
  <2>2. CASE p # "daemon"
    BY <2>2 DEF Path
  <2>3. QED
    BY <2>1, <2>2
<1>2. chips \in Scans
  BY NextFan
<1>3. /\ h.id = f.id /\ Resolve(chips, f) # None
      /\ h.at = <<dirs[Resolve(chips, f)], f.pwm_channel>>
  BY <1>1 DEF Took
<1>4. IF f.hwmon_path = None THEN ChipName[dirs[Resolve(chips, f)]] = f.chip
      ELSE f.hwmon_path \in Dirs /\ Resolve(chips, f) = f.hwmon_path
  BY <1>2, <1>3, Resolved DEF ChanTypes
<1> HIDE DEF f, chips
<1>5. Drives(h, f)
  BY <1>3, <1>4 DEF Drives
<1>6. QED
  BY <1>5 DEF f

LEMMA OnePlaced ==
    ASSUME ChanTypes, Placed, NEW p \in Processes, NEW c, proc' = [proc EXCEPT ![p] = c],
           PlacedInv(c, p), dirs' = dirs
    PROVE  Placed'
<1>1. proc'[p] = c /\ \A q \in Processes : q # p => proc'[q] = proc[q]
  BY DEF ChanTypes
<1>2. \A q \in Processes : PlacedInv(proc'[q], q)
  BY <1>1 DEF Placed
<1>3. ASSUME NEW q \in Processes PROVE PlacedInv(proc[q], q)'
  <2>1. PlacedInv(proc'[q], q)
    BY <1>2
  <2>2. \A h, f : Drives(h, f) =>
            /\ h.id = f.id /\ h.at[2] = f.pwm_channel
            /\ IF f.hwmon_path = None THEN ChipName[h.at[1]] = f.chip
               ELSE f.hwmon_path \in Dirs /\ h.at[1] = dirs'[f.hwmon_path]
    BY DEF Drives
  <2>3. ASSUME proc'[q].phase = "taking", NEW j \in 1..(proc'[q].next - 1)
        PROVE  Drives(proc[q].handles[j], proc[q].cfg.fans[j])'
    <3>1. Drives(proc'[q].handles[j], proc'[q].cfg.fans[j])
      BY <2>1, <2>3 DEF PlacedInv
    <3>2. QED
      BY <2>2, <3>1 DEF Drives
  <2>4. ASSUME q = "daemon" /\ proc'[q].phase = "running", NEW j \in DOMAIN proc'[q].cfg.fans
        PROVE  Drives(proc[q].handles[j], proc[q].cfg.fans[j])'
    <3>1. Drives(proc'[q].handles[j], proc'[q].cfg.fans[j])
      BY <2>1, <2>4 DEF PlacedInv
    <3>2. QED
      BY <2>2, <3>1 DEF Drives
  <2>5. QED
    BY <2>1, <2>3, <2>4 DEF PlacedInv
<1>4. QED
  BY <1>3 DEF Placed

LEMMA DownPlaced == \A p : PlacedInv(Down, p)
BY DownKeys DEF PlacedInv, OneHandleEach

LEMMA QuietPlaced == ASSUME Placed, UNCHANGED <<dirs, proc>> PROVE Placed'
BY DEF Placed, PlacedInv, Drives

(* In the daemon's map too every takeover adds a handle.                   *)
LEMMA TookAppends ==
    ASSUME ChanTypes, Placed, FilesDrivable, NEW p \in Processes, proc[p].phase = "taking",
           proc[p].next <= Len(proc[p].cfg.fans), NEW h, Took(p, h)
    PROVE  Kept(p, proc[p].handles, h) = Append(proc[p].handles, h)
<1> DEFINE c == proc[p]
           fans == c.cfg.fans
<1>1. CASE p = "daemon"
  <2>1. /\ c.handles \in Seq(Handle) /\ c.next \in DOMAIN fans /\ h.id = fans[c.next].id
        /\ Len(c.handles) = c.next - 1
        /\ \A j \in 1..(c.next - 1) : Drives(c.handles[j], fans[j])
    BY NextFan DEF ChanTypes, ProcInv, Placed, PlacedInv, Took
  <2>2. Prepared(c, p)
    BY DEF ChanTypes, ProcInv
  <2>3. PICK cfg \in Loads \ {Rejected} : fans = cfg.fans
    BY <2>2 DEF Prepared
  <2>4. DistinctIds(fans) /\ DOMAIN fans = 1..Len(fans) /\ Len(fans) \in Nat
    BY <2>3, LoadsFans DEF FilesDrivable
  <2>5. ASSUME NEW j \in DOMAIN c.handles PROVE c.handles[j].id # h.id
    <3>1. j \in 1..(c.next - 1) /\ j \in DOMAIN fans /\ j # c.next
      BY <2>1, <2>4
    <3>2. c.handles[j].id = fans[j].id
      BY <2>1, <3>1 DEF Drives
    <3>3. QED
      BY <2>1, <2>4, <3>1, <3>2 DEF DistinctIds
  <2>6. QED
    BY <2>5 DEF Kept
<1>2. CASE p # "daemon"
  BY <1>2 DEF Kept
<1>3. QED
  BY <1>1, <1>2

LEMMA TakePlaced ==
    ASSUME ChanTypes, Placed, FilesDrivable, NEW p \in Processes, Take(p)
    PROVE  Placed'
<1>1. CASE End(p) /\ UNCHANGED <<dirs, mode>>
  BY <1>1, OnePlaced, DownPlaced DEF End
<1>2. ASSUME NEW h, Took(p, h) PROVE Placed'
  <2> DEFINE hs == proc[p].handles
             n == proc[p].next
             fans == proc[p].cfg.fans
             c == [proc[p] EXCEPT !.next = n + 1, !.handles = Append(hs, h)]
  <2>1. proc[p].phase = "taking" /\ n <= Len(fans) /\ DOMAIN proc[p] = ProcKeys
    BY DEF Take, ChanTypes, ProcInv
  <2>2. proc' = [proc EXCEPT ![p] = c] /\ dirs' = dirs
    <3>1. Kept(p, hs, h) = Append(hs, h)
      BY <1>2, <2>1, TookAppends
    <3>2. proc' = [proc EXCEPT ![p].next = @ + 1, ![p].handles = Kept(p, @, h)]
      BY <1>2 DEF Took
    <3>3. QED
      BY <1>2, <3>1, <3>2 DEF Took, ChanTypes
  <2>3. /\ hs \in Seq(Handle) /\ h \in Handle /\ Len(hs) = n - 1 /\ OneHandleEach(hs)
        /\ \A j \in 1..(n - 1) : Drives(hs[j], fans[j])
        /\ n \in Nat
    <3>1. Prepared(proc[p], p) /\ hs \in Seq(Handle) /\ PlacedInv(proc[p], p)
      BY <2>1 DEF ChanTypes, ProcInv, Placed
    <3>2. Len(fans) \in Nat /\ n \in 1..(Len(fans) + 1)
      BY <3>1, LoadsFans DEF Prepared
    <3>3. h \in Handle
      BY <1>2 DEF Took
    <3>4. /\ Len(hs) = n - 1 /\ OneHandleEach(hs)
          /\ \A j \in 1..(n - 1) : Drives(hs[j], fans[j])
      BY <2>1, <3>1 DEF PlacedInv
    <3>5. QED
      BY <3>1, <3>2, <3>3, <3>4
  <2>4. Drives(h, fans[n])
    BY <1>2, <2>1, TookDrives
  <2>5. c.phase = "taking" /\ c.next = n + 1 /\ c.handles = Append(hs, h) /\ c.cfg.fans = fans
    BY <2>1 DEF ProcKeys
  <2>6. OneChannelEach(fans) /\ DOMAIN fans = 1..Len(fans)
    <3>1. Prepared(proc[p], p)
      BY <2>1 DEF ChanTypes, ProcInv
    <3>2. QED
      BY <3>1, LoadsFans DEF Prepared, FilesDrivable
  <2> HIDE DEF c, hs, n, fans
  <2>7. /\ Len(c.handles) = c.next - 1
        /\ \A j \in 1..(c.next - 1) : Drives(c.handles[j], c.cfg.fans[j])
    <3>1. \A j \in 1..(n - 1) : c.handles[j] = hs[j]
      BY <2>3, <2>5
    <3>2. c.handles[n] = h /\ Len(c.handles) = n
      BY <2>3, <2>5
    <3>3. QED
      BY <2>3, <2>4, <2>5, <3>1, <3>2
  <2>8. ASSUME NEW j \in 1..(n - 1) PROVE c.handles[j].at # c.handles[n].at
    <3>1. Drives(c.handles[j], fans[j]) /\ Drives(c.handles[n], fans[n])
      BY <2>3, <2>5, <2>7
    <3>2. Apart(fans[j], fans[n])
      <4>1. j \in 1..Len(fans) /\ n \in 1..Len(fans) /\ j # n
        <5>1. Len(fans) \in Nat
          BY <2>1, LoadsFans DEF ChanTypes, ProcInv, Prepared, fans
        <5>2. n >= 1
          BY <2>1 DEF ChanTypes, ProcInv, Prepared, n
        <5>3. QED
          BY <2>1, <2>3, <5>1, <5>2
      <4>2. QED
        BY <2>6, <4>1 DEF OneChannelEach
    <3>3. QED
      BY <3>1, <3>2, DrivesApart DEF ChanTypes
  <2>9. OneHandleEach(c.handles)
    <3>1. \A j \in 1..(n - 1) : c.handles[j] = hs[j] /\ j \in DOMAIN hs
      BY <2>3, <2>5
    <3>2. DOMAIN c.handles = 1..n
      BY <2>3, <2>5
    <3>3. ASSUME NEW i \in 1..n, NEW j \in 1..n, c.handles[i].at = c.handles[j].at
          PROVE  i = j
      BY <2>3, <2>8, <3>1, <3>3 DEF OneHandleEach
    <3>4. QED
      BY <3>2, <3>3 DEF OneHandleEach
  <2>10. PlacedInv(c, p)
    BY <2>5, <2>7, <2>9 DEF PlacedInv
  <2>11. QED
    BY <2>2, <2>10, OnePlaced
<1>3. QED
  BY <1>1, <1>2, TakeEffect

LEMMA EnterPlaced ==
    ASSUME ChanTypes, Placed, NEW p \in Processes, NEW cfg, NEW chips, Enter(p, cfg, chips)
    PROVE  Placed'
<1> DEFINE c == [Down EXCEPT !.phase = "taking", !.cfg = cfg, !.chips = chips]
<1>1. c.phase = "taking" /\ c.next = 1 /\ c.handles = <<>>
  BY DEF Down
<1>2. proc' = [proc EXCEPT ![p] = c] /\ dirs' = dirs
  BY DEF Enter
<1> HIDE DEF c
<1>3. PlacedInv(c, p)
  BY <1>1 DEF PlacedInv, OneHandleEach
<1>4. QED
  BY <1>2, <1>3, OnePlaced

LEMMA ReadyPlaced ==
    ASSUME ChanTypes, Placed, NEW p \in Processes, Ready(p)
    PROVE  Placed'
<1> DEFINE c == [proc[p] EXCEPT !.phase = IF p = "daemon" THEN "running" ELSE "sweeping",
                                !.chips = <<>>, !.next = 1]
           fans == proc[p].cfg.fans
<1>1. /\ DOMAIN proc[p] = ProcKeys /\ proc[p].phase = "taking" /\ proc[p].next > Len(fans)
      /\ Prepared(proc[p], p) /\ PlacedInv(proc[p], p)
  BY DEF Ready, ChanTypes, ProcInv, Placed
<1>2. proc' = [proc EXCEPT ![p] = c] /\ dirs' = dirs
  BY DEF Ready
<1>3. /\ c.phase = (IF p = "daemon" THEN "running" ELSE "sweeping")
      /\ c.handles = proc[p].handles /\ c.cfg = proc[p].cfg
  BY <1>1 DEF ProcKeys
<1> HIDE DEF c
<1>4. /\ Len(fans) \in Nat /\ DOMAIN fans = 1..Len(fans)
      /\ proc[p].next \in 1..(Len(fans) + 1)
  BY <1>1, LoadsFans DEF Prepared
<1>5. proc[p].next - 1 = Len(fans)
  BY <1>1, <1>4
<1>6. PlacedInv(c, p)
  BY <1>1, <1>3, <1>4, <1>5 DEF PlacedInv
<1>7. QED
  BY <1>2, <1>6, OnePlaced

LEMMA RestorePlaced ==
    ASSUME ChanTypes, Placed, NEW p \in Processes, RestoreNext(p)
    PROVE  Placed'
<1>1. PICK i \in DOMAIN proc[p].handles :
          proc' = [proc EXCEPT ![p].handles = RemoveAt(@, i)]
  BY DEF RestoreNext
<1> DEFINE hs == proc[p].handles
           c == [proc[p] EXCEPT !.handles = RemoveAt(hs, i)]
<1>2. /\ DOMAIN proc[p] = ProcKeys /\ proc[p].phase = "restoring" /\ dirs' = dirs
      /\ hs \in Seq(Handle) /\ OneHandleEach(hs)
  BY DEF RestoreNext, ChanTypes, ProcInv, Placed, PlacedInv
<1>3. proc' = [proc EXCEPT ![p] = c]
  BY <1>1
<1>4. c.phase = "restoring" /\ c.handles = RemoveAt(hs, i)
  BY <1>2 DEF ProcKeys
<1> HIDE DEF c, hs
<1>5. OneHandleEach(RemoveAt(hs, i))
  <2>1. i \in DOMAIN hs
    BY <1>1 DEF hs
  <2>2. /\ RemoveAt(hs, i) \in Seq(Handle) /\ Len(RemoveAt(hs, i)) = Len(hs) - 1
        /\ \A j \in 1..(Len(hs) - 1) :
              RemoveAt(hs, i)[j] = IF j < i THEN hs[j] ELSE hs[j + 1]
    BY <1>2, <2>1, Removed
  <2>3. i \in 1..Len(hs) /\ DOMAIN hs = 1..Len(hs) /\ Len(hs) \in Nat
        /\ DOMAIN RemoveAt(hs, i) = 1..(Len(hs) - 1)
    BY <1>2, <2>1, <2>2
  <2>4. ASSUME NEW j \in 1..(Len(hs) - 1), NEW k \in 1..(Len(hs) - 1),
               RemoveAt(hs, i)[j].at = RemoveAt(hs, i)[k].at
        PROVE  j = k
    <3> DEFINE J == IF j < i THEN j ELSE j + 1
               K == IF k < i THEN k ELSE k + 1
    <3>1. J \in DOMAIN hs /\ K \in DOMAIN hs
      BY <2>3
    <3>2. RemoveAt(hs, i)[j] = hs[J] /\ RemoveAt(hs, i)[k] = hs[K]
      BY <2>2
    <3>3. J = K
      BY <1>2, <2>4, <3>1, <3>2 DEF OneHandleEach
    <3>4. QED
      BY <2>3, <3>3
  <2>5. QED
    BY <2>3, <2>4 DEF OneHandleEach
<1>6. PlacedInv(c, p)
  BY <1>4, <1>5 DEF PlacedInv
<1>7. QED
  BY <1>2, <1>3, <1>6, OnePlaced

LEMMA SweepPlaced == ASSUME ChanTypes, Placed, Sweep PROVE Placed'
<1>1. /\ DOMAIN proc["calibration"] = ProcKeys /\ OneHandleEach(proc["calibration"].handles)
      /\ dirs' = dirs
  BY DaemonProcesses DEF Sweep, ChanTypes, ProcInv, Placed, PlacedInv
<1>2. PICK x : /\ proc' = [proc EXCEPT !["calibration"] = x]
               /\ DOMAIN x = ProcKeys /\ x.phase \in {"sweeping", "restoring"}
               /\ x.handles = proc["calibration"].handles
  BY <1>1, SweepMoves
<1>3. PlacedInv(x, "calibration")
  BY <1>1, <1>2 DEF PlacedInv
<1>4. QED
  BY <1>1, <1>2, <1>3, OnePlaced, DaemonProcesses

(* A reload keeps the fans and what they name.                             *)
LEMMA SighupFans ==
    ASSUME NEW r, Shaped(r), Valid(r), NEW new \in Loads, NEW m, m = HandleSighup(r, new)
    PROVE  /\ DOMAIN m.fans = DOMAIN r.fans /\ Len(m.fans) = Len(r.fans)
           /\ \A i \in DOMAIN r.fans : \A h : Drives(h, r.fans[i]) => Drives(h, m.fans[i])
<1>1. CASE new = Rejected \/ ~StructurallyIdentical(r, new)
  BY <1>1 DEF HandleSighup
<1>2. CASE ~(new = Rejected \/ ~StructurallyIdentical(r, new))
  <2>1. Shaped(new) /\ StructurallyIdentical(r, new) /\ m = SwapDataFields(r, new)
    BY <1>2, LoadsGood DEF HandleSighup
  <2>2. /\ Shaped(m) /\ DOMAIN m.fans = DOMAIN r.fans
        /\ \A i \in DOMAIN r.fans : \E j : MixedFan(m.fans[i], r.fans[i], new.fans[j])
    BY <2>1, Mixture
  <2>3. Len(m.fans) = Len(r.fans)
    <3>1. Blocklist(m.fans, "fan") /\ Blocklist(r.fans, "fan")
      BY <2>2 DEF Shaped
    <3>2. /\ Len(m.fans) \in Nat /\ Len(r.fans) \in Nat
          /\ 1..Len(m.fans) = 1..Len(r.fans)
      BY <2>2, <3>1, ListLength
    <3>3. \A a, b \in Nat : 1..a = 1..b => a = b
      <4> TAKE a, b \in Nat
      <4>1. CASE a < b
        <5>1. b \in 1..b /\ b \notin 1..a
          BY <4>1
        <5>2. QED
          BY <5>1
      <4>2. CASE b < a
        <5>1. a \in 1..a /\ a \notin 1..b
          BY <4>2
        <5>2. QED
          BY <5>1
      <4>3. QED
        BY <4>1, <4>2
    <3>4. QED
      BY <3>2, <3>3
  <2>4. \A i \in DOMAIN r.fans : /\ m.fans[i].id = r.fans[i].id
                                 /\ m.fans[i].chip = r.fans[i].chip
                                 /\ m.fans[i].hwmon_path = r.fans[i].hwmon_path
                                 /\ m.fans[i].pwm_channel = r.fans[i].pwm_channel
    BY <2>2 DEF MixedFan
  <2>5. QED
    BY <2>2, <2>3, <2>4 DEF Drives
<1>3. QED
  BY <1>1, <1>2

LEMMA ReloadPlaced ==
    ASSUME ChanTypes, CfgGood, Placed, NEW new \in Loads, Reload(new)
    PROVE  Placed'
<1> DEFINE r == proc["daemon"].cfg
           m == HandleSighup(r, new)
           c == [proc["daemon"] EXCEPT !.cfg = m]
<1>1. /\ DOMAIN proc["daemon"] = ProcKeys /\ proc["daemon"].phase = "running"
      /\ PlacedInv(proc["daemon"], "daemon") /\ dirs' = dirs
  BY DaemonProcesses DEF Reload, ChanTypes, ProcInv, Placed
<1>2. proc' = [proc EXCEPT !["daemon"] = c]
  BY DEF Reload
<1>3. Shaped(r) /\ Valid(r) /\ m = HandleSighup(r, new)
  BY <1>1 DEF CfgGood
<1> HIDE DEF m
<1>4. /\ DOMAIN m.fans = DOMAIN r.fans /\ Len(m.fans) = Len(r.fans)
      /\ \A i \in DOMAIN r.fans : \A h : Drives(h, r.fans[i]) => Drives(h, m.fans[i])
  BY <1>3, SighupFans
<1>5. c.phase = "running" /\ c.handles = proc["daemon"].handles /\ c.cfg = m
  BY <1>1 DEF ProcKeys
<1> HIDE DEF c
<1>6. PlacedInv(c, "daemon")
  BY <1>1, <1>4, <1>5 DEF PlacedInv
<1>7. QED
  BY <1>1, <1>2, <1>6, OnePlaced, DaemonProcesses

LEMMA StopPlaced == ASSUME ChanTypes, Placed, Stop PROVE Placed'
<1> DEFINE c == [proc["daemon"] EXCEPT !.phase = "restoring"]
<1>1. DOMAIN proc["daemon"] = ProcKeys /\ OneHandleEach(proc["daemon"].handles)
  BY DaemonProcesses DEF ChanTypes, ProcInv, Placed, PlacedInv
<1>2. proc' = [proc EXCEPT !["daemon"] = c] /\ dirs' = dirs
  BY DEF Stop
<1>3. c.phase = "restoring" /\ c.handles = proc["daemon"].handles
  BY <1>1 DEF ProcKeys
<1> HIDE DEF c
<1>4. PlacedInv(c, "daemon")
  BY <1>1, <1>3 DEF PlacedInv
<1>5. QED
  BY <1>2, <1>4, OnePlaced, DaemonProcesses

LEMMA EndPlaced ==
    ASSUME ChanTypes, Placed, NEW p \in Processes, End(p), dirs' = dirs
    PROVE  Placed'
BY OnePlaced, DownPlaced DEF End

LEMMA RebootPlaced == Reboot => Placed'
<1> SUFFICES ASSUME Reboot PROVE Placed'
  OBVIOUS
<1>1. \A q \in Processes : proc'[q] = Down
  BY DEF Reboot
<1>2. \A q \in Processes : proc'[q].phase = "down" /\ proc'[q].handles = <<>>
  BY <1>1, DownKeys
<1>3. QED
  BY <1>2 DEF Placed, PlacedInv, OneHandleEach

LEMMA PlacedStep ==
    FilesDrivable /\ ChanTypes /\ CfgGood /\ Placed /\ [Next]_vars => Placed'
<1> SUFFICES ASSUME FilesDrivable, ChanTypes, CfgGood, Placed, [Next]_vars PROVE Placed'
  OBVIOUS
<1> USE DaemonProcesses
<1>1. CASE StartDaemon
  BY <1>1, EnterPlaced DEF StartDaemon
<1>2. CASE StartCalibration
  BY <1>2, EnterPlaced DEF StartCalibration
<1>3. ASSUME NEW p \in Processes, Step(p) PROVE Placed'
  BY <1>3, TakePlaced, ReadyPlaced, RestorePlaced, EndPlaced DEF Step, Exit
<1>4. ASSUME NEW p \in Processes, Crash(p) PROVE Placed'
  BY <1>4, EndPlaced DEF Crash
<1>5. CASE Drive \/ (\E ch \in Channel : Drift(ch)) \/ UNCHANGED vars
  BY <1>5, QuietPlaced DEF Drive, Drift, vars
<1>6. CASE Stop
  BY <1>6, StopPlaced
<1>7. ASSUME NEW new \in Loads, Reload(new) PROVE Placed'
  BY <1>7, ReloadPlaced
<1>8. CASE Sweep
  BY <1>8, SweepPlaced
<1>9. CASE Reboot
  BY <1>9, RebootPlaced
<1>10. QED
  BY <1>1, <1>2, <1>3, <1>4, <1>5, <1>6, <1>7, <1>8, <1>9 DEF Next, Daemon, Calibration

LEMMA PlacedInit == Init => Placed
BY DownPlaced DEF Init, Placed

LEMMA PlacedAlways ==
    ASSUME FilesDrivable
    PROVE  Spec => [](ChanTypes /\ CfgGood /\ Placed)
<1>1. ChanTypes /\ CfgGood /\ Placed /\ [Next]_vars => Placed'
  BY PlacedStep
<1>2. QED
  BY <1>1, PlacedInit, TypesAlways, CfgAlways, PTL DEF Spec

(* As many channels as handles, when no two handles share one.             *)
LEMMA ChannelsCounted ==
    ASSUME NEW handles \in Seq(Handle), OneHandleEach(handles)
    PROVE  Cardinality({h.at : h \in Range(handles)}) = Len(handles)
<1> DEFINE n == Len(handles)
           S == {h.at : h \in Range(handles)}
           f == [j \in 1..n |-> handles[j].at]
<1>1. n \in Nat /\ DOMAIN handles = 1..n
  OBVIOUS
<1>2. \A x : x \in S <=> \E j \in 1..n : x = handles[j].at
  BY <1>1 DEF Range
<1> HIDE DEF n, S
<1>3. f \in Bijection(1..n, S)
  <2>1. f \in [1..n -> S]
    BY <1>2
  <2>2. \A a, b \in 1..n : f[a] = f[b] => a = b
    BY <1>1 DEF OneHandleEach
  <2>3. \A x \in S : \E j \in 1..n : f[j] = x
    BY <1>2
  <2> HIDE DEF f
  <2>4. QED
    BY <2>1, <2>2, <2>3 DEF Bijection, Injection, Surjection, IsInjective
<1>4. ExistsBijection(1..n, S)
  BY <1>3 DEF ExistsBijection
<1>5. Cardinality(S) = n
  BY <1>1, <1>4, FS_CountingElements
<1>6. QED
  BY <1>5 DEF n, S

(* For any such files, through every renumbering, edit and reload: each    *)
(* fan of the running daemon is driven on its channel, and no other is.    *)
THEOREM FansKeepTheirChannels ==
    ASSUME FilesDrivable
    PROVE  Spec => []EachFanItsChannel
<1>1. ChanTypes /\ CfgGood /\ Placed => EachFanItsChannel
  <2> DEFINE d == proc["daemon"]
             fans == d.cfg.fans
  <2> SUFFICES ASSUME ChanTypes, CfgGood, Placed, d.phase = "running"
               PROVE  /\ \A f \in Range(fans) : \E h \in Range(d.handles) : Drives(h, f)
                      /\ Cardinality({h.at : h \in Range(d.handles)}) = Len(fans)
    BY DEF EachFanItsChannel
  <2>1. /\ d.handles \in Seq(Handle) /\ OneHandleEach(d.handles)
        /\ Len(d.handles) = Len(fans)
        /\ \A j \in DOMAIN fans : Drives(d.handles[j], fans[j])
    BY DaemonProcesses DEF ChanTypes, ProcInv, Placed, PlacedInv
  <2>2. DOMAIN fans = 1..Len(fans)
    BY ListLength DEF CfgGood, Shaped
  <2>3. ASSUME NEW f \in Range(fans) PROVE \E h \in Range(d.handles) : Drives(h, f)
    <3>1. PICK j \in DOMAIN fans : f = fans[j]
      BY InRange
    <3>2. j \in DOMAIN d.handles
      BY <2>1, <2>2
    <3>3. d.handles[j] \in Range(d.handles)
      BY <3>2, InRange
    <3>4. QED
      BY <2>1, <3>1, <3>3
  <2>4. QED
    BY <2>1, <2>3, ChannelsCounted
<1>2. QED
  BY <1>1, PlacedAlways, PTL

-----------------------------------------------------------------------------
(* How channels come back.  While none is stranded, a channel in manual    *)
(* mode is held by a process that knows firmware mode as its snapshot; for *)
(* that no process may take over what the other has.                       *)
DownEmpty == \A p \in Processes : proc[p].phase = "down" => proc[p].handles = <<>>
Alone == \A p, q \in Processes : p # q => proc[p].phase = "down" \/ proc[q].phase = "down"

Holds(handles, ch) == \E i \in DOMAIN handles : handles[i].at = ch
Firmware(handles) == \A i \in DOMAIN handles : handles[i].snapshot = BiosMode

Remembered ==
    ~stranded =>
        /\ \A p \in Processes : Firmware(proc[p].handles)
        /\ \A ch \in Channel : mode[ch] = Manual =>
              \E p \in Processes : Holds(proc[p].handles, ch)

Returning == DownEmpty /\ Alone /\ Remembered

LEMMA SameHandles ==
    ASSUME Remembered, \A q \in Processes : proc'[q].handles = proc[q].handles,
           stranded' = stranded,
           \A ch \in Channel : mode'[ch] = Manual =>
               mode[ch] = Manual \/ \E q \in Processes : Holds(proc[q].handles, ch)
    PROVE  Remembered'
<1> SUFFICES ASSUME ~stranded'
             PROVE  /\ \A p \in Processes : Firmware(proc'[p].handles)
                    /\ \A ch \in Channel : mode'[ch] = Manual =>
                          \E p \in Processes : Holds(proc'[p].handles, ch)
  BY DEF Remembered, Firmware, Holds
<1>1. \A p \in Processes : Firmware(proc[p].handles)
  BY DEF Remembered
<1>2. \A p \in Processes : Firmware(proc'[p].handles)
  BY <1>1
<1>3. ASSUME NEW ch \in Channel, mode'[ch] = Manual
      PROVE  \E p \in Processes : Holds(proc'[p].handles, ch)
  <2>1. PICK p \in Processes : Holds(proc[p].handles, ch)
    BY <1>3 DEF Remembered
  <2>2. Holds(proc'[p].handles, ch)
    BY <2>1
  <2>3. QED
    BY <2>2
<1>4. QED
  BY <1>2, <1>3

(* A step that leaves the processes up or down, with the handles they had. *)
LEMMA SamePhases ==
    ASSUME Returning,
           \A q \in Processes : /\ proc'[q].handles = proc[q].handles
                                /\ proc'[q].phase = "down" <=> proc[q].phase = "down"
    PROVE  DownEmpty' /\ Alone'
BY DEF Returning, DownEmpty, Alone

LEMMA EnterReturns ==
    ASSUME ChanTypes, Returning, NEW p \in Processes, NEW cfg, NEW chips, Enter(p, cfg, chips),
           \A q \in Processes : q # p => proc[q].phase = "down"
    PROVE  Returning'
<1> DEFINE c == [Down EXCEPT !.phase = "taking", !.cfg = cfg, !.chips = chips]
<1>1. c.phase = "taking" /\ c.handles = <<>>
  BY DEF Down
<1>2. /\ proc[p].phase = "down" /\ proc' = [proc EXCEPT ![p] = c]
      /\ mode' = mode /\ stranded' = stranded
  BY DEF Enter
<1> HIDE DEF c
<1>3. proc'[p] = c /\ \A q \in Processes : q # p => proc'[q] = proc[q]
  BY <1>2 DEF ChanTypes
<1>4. \A q \in Processes : proc'[q].handles = proc[q].handles
  BY <1>1, <1>2, <1>3 DEF Returning, DownEmpty
<1>5. Remembered'
  BY <1>2, <1>4, SameHandles DEF Returning
<1>6. DownEmpty' /\ Alone'
  BY <1>1, <1>3, <1>4 DEF Returning, DownEmpty, Alone
<1>7. QED
  BY <1>5, <1>6 DEF Returning

LEMMA EndReturns ==
    ASSUME ChanTypes, Returning, NEW p \in Processes, End(p), mode' = mode
    PROVE  Returning'
<1>1. /\ proc'[p] = Down /\ \A q \in Processes : q # p => proc'[q] = proc[q]
      /\ stranded' = (stranded \/ proc[p].handles # <<>>)
  BY DEF End, ChanTypes
<1>2. DownEmpty' /\ Alone'
  BY <1>1, DownKeys DEF Returning, DownEmpty, Alone
<1>3. CASE stranded'
  BY <1>2, <1>3 DEF Remembered, Returning
<1>4. CASE ~stranded'
  <2>1. proc[p].handles = <<>> /\ stranded' = stranded
    <3>1. stranded \in BOOLEAN
      BY DEF ChanTypes, Box
    <3>2. QED
      BY <1>1, <1>4, <3>1
  <2>2. \A q \in Processes : proc'[q].handles = proc[q].handles
    BY <1>1, <2>1, DownKeys
  <2>3. QED
    BY <1>2, <2>1, <2>2, SameHandles DEF Returning
<1>5. QED
  BY <1>3, <1>4

(* The channel of a takeover is one that no handle has.                    *)
LEMMA TookApart ==
    ASSUME ChanTypes, Placed, FilesDrivable, NEW p \in Processes, proc[p].phase = "taking",
           proc[p].next <= Len(proc[p].cfg.fans), NEW h, Took(p, h)
    PROVE  ~Holds(proc[p].handles, h.at)
<1> DEFINE hs == proc[p].handles
           n == proc[p].next
           fans == proc[p].cfg.fans
<1>1. Prepared(proc[p], p) /\ hs \in Seq(Handle) /\ PlacedInv(proc[p], p)
  BY DEF ChanTypes, ProcInv, Placed
<1>2. Len(fans) \in Nat /\ n \in 1..(Len(fans) + 1) /\ DOMAIN fans = 1..Len(fans)
      /\ OneChannelEach(fans)
  BY <1>1, LoadsFans DEF Prepared, FilesDrivable
<1>3. Len(hs) = n - 1 /\ \A j \in 1..(n - 1) : Drives(hs[j], fans[j])
  BY <1>1 DEF PlacedInv
<1>4. Drives(h, fans[n]) /\ n <= Len(fans)
  BY TookDrives
<1> HIDE DEF hs, n, fans
<1>5. ASSUME NEW j \in DOMAIN hs PROVE hs[j].at # h.at
  <2>1. j \in 1..(n - 1)
    BY <1>1, <1>3
  <2>2. j \in DOMAIN fans /\ n \in DOMAIN fans /\ j # n
    BY <1>2, <1>4, <2>1
  <2>3. Apart(fans[j], fans[n])
    BY <1>2, <2>2 DEF OneChannelEach
  <2>4. Drives(hs[j], fans[j])
    BY <1>3, <2>1
  <2>5. QED
    BY <1>4, <2>3, <2>4, DrivesApart DEF ChanTypes
<1>6. QED
  BY <1>5 DEF Holds, hs

LEMMA Appended ==
    ASSUME NEW hs \in Seq(Handle), NEW h \in Handle
    PROVE  /\ \A ch : Holds(Append(hs, h), ch) <=> Holds(hs, ch) \/ h.at = ch
           /\ Firmware(Append(hs, h)) <=> Firmware(hs) /\ h.snapshot = BiosMode
<1>1. /\ DOMAIN Append(hs, h) = 1..(Len(hs) + 1) /\ DOMAIN hs = 1..Len(hs)
      /\ Len(hs) \in Nat /\ Append(hs, h)[Len(hs) + 1] = h
      /\ \A i \in 1..Len(hs) : Append(hs, h)[i] = hs[i]
  OBVIOUS
<1>2. \A i : i \in 1..(Len(hs) + 1) <=> i \in 1..Len(hs) \/ i = Len(hs) + 1
  BY <1>1
<1>3. QED
  BY <1>1, <1>2 DEF Holds, Firmware

LEMMA TakeReturns ==
    ASSUME ChanTypes, Placed, FilesDrivable, Returning, NEW p \in Processes, Take(p)
    PROVE  Returning'
<1>1. CASE End(p) /\ UNCHANGED <<dirs, mode>>
  BY <1>1, EndReturns
<1>2. ASSUME NEW h, Took(p, h) PROVE Returning'
  <2> DEFINE hs == proc[p].handles
  <2>1. /\ proc[p].phase = "taking" /\ proc[p].next <= Len(proc[p].cfg.fans)
        /\ DOMAIN proc[p] = ProcKeys /\ hs \in Seq(Handle)
    BY DEF Take, ChanTypes, ProcInv
  <2>2. /\ h \in Handle /\ h.at \in Channel /\ h.snapshot = mode[h.at]
        /\ mode' = [mode EXCEPT ![h.at] = Manual] /\ stranded' = stranded
    BY <1>2, AtChannel DEF Took
  <2>3. Kept(p, hs, h) = Append(hs, h) /\ ~Holds(hs, h.at)
    BY <1>2, <2>1, TookAppends, TookApart
  <2>4. /\ proc'[p].phase = "taking" /\ proc'[p].handles = Append(hs, h)
        /\ \A q \in Processes : q # p => proc'[q] = proc[q]
    <3>1. proc' = [proc EXCEPT ![p].next = @ + 1, ![p].handles = Kept(p, @, h)]
      BY <1>2 DEF Took
    <3>2. QED
      BY <2>1, <2>3, <3>1 DEF ChanTypes, ProcKeys
  <2> HIDE DEF hs
  <2>5. DownEmpty' /\ Alone'
    BY <2>1, <2>4 DEF Returning, DownEmpty, Alone
  <2>6. ASSUME ~stranded'
        PROVE  /\ \A q \in Processes : Firmware(proc'[q].handles)
               /\ \A ch \in Channel : mode'[ch] = Manual =>
                     \E q \in Processes : Holds(proc'[q].handles, ch)
    <3>1. /\ \A q \in Processes : Firmware(proc[q].handles)
          /\ \A ch \in Channel : mode[ch] = Manual =>
                \E q \in Processes : Holds(proc[q].handles, ch)
      BY <2>2, <2>6 DEF Returning, Remembered
    <3>2. mode[h.at] = BiosMode
      <4>1. ASSUME mode[h.at] = Manual PROVE FALSE
        <5>1. PICK q \in Processes : Holds(proc[q].handles, h.at)
          BY <2>2, <3>1, <4>1
        <5>2. q # p
          BY <2>3, <5>1 DEF hs
        <5>3. proc[q].handles = <<>>
          BY <2>1, <5>2 DEF Returning, Alone, DownEmpty
        <5>4. QED
          BY <5>1, <5>3 DEF Holds
      <4>2. QED
        BY <2>2, <4>1 DEF ChanTypes, Box
    <3>3. Firmware(Append(hs, h))
      BY <2>1, <2>2, <3>1, <3>2, Appended DEF hs
    <3>4. \A q \in Processes : Firmware(proc'[q].handles)
      BY <2>4, <3>1, <3>3
    <3>5. ASSUME NEW ch \in Channel, mode'[ch] = Manual
          PROVE  \E q \in Processes : Holds(proc'[q].handles, ch)
      <4>1. CASE ch = h.at
        <5>1. Holds(proc'[p].handles, ch)
          BY <2>1, <2>2, <2>4, <4>1, Appended
        <5>2. QED
          BY <5>1
      <4>2. CASE ch # h.at
        <5>1. mode[ch] = Manual
          BY <2>2, <3>5, <4>2 DEF ChanTypes, Box
        <5>2. PICK q \in Processes : Holds(proc[q].handles, ch)
          BY <3>1, <5>1
        <5>3. CASE q = p
          <6>1. Holds(hs, ch)
            BY <5>2, <5>3 DEF hs
          <6>2. Holds(proc'[p].handles, ch)
            BY <2>1, <2>2, <2>4, <6>1, Appended
          <6>3. QED
            BY <6>2
        <5>4. CASE q # p
          BY <2>4, <5>2, <5>4
        <5>5. QED
          BY <5>3, <5>4
      <4>3. QED
        BY <4>1, <4>2
    <3>6. QED
      BY <3>4, <3>5
  <2>7. Remembered'
    BY <2>6 DEF Remembered, Firmware, Holds
  <2>8. QED
    BY <2>5, <2>7 DEF Returning
<1>3. QED
  BY <1>1, <1>2, TakeEffect

LEMMA RestoreReturns ==
    ASSUME ChanTypes, Returning, NEW p \in Processes, RestoreNext(p)
    PROVE  Returning'
<1>1. PICK i \in DOMAIN proc[p].handles, fails \in Failing :
          LET h    == proc[p].handles[i]
              done == Restore(FanOf(h), fails)
          IN  /\ mode' = [mode EXCEPT ![h.at] = done.fan.enable]
              /\ stranded' = (stranded \/ ~done.ok)
              /\ proc' = [proc EXCEPT ![p].handles = RemoveAt(@, i)]
  BY DEF RestoreNext
<1> DEFINE hs == proc[p].handles
           h == hs[i]
           done == Restore(FanOf(h), fails)
           rest == RemoveAt(hs, i)
<1>2. ProcInv(proc[p], p) /\ proc[p].phase = "restoring"
  BY DEF RestoreNext, ChanTypes
<1>3. hs \in Seq(Handle) /\ i \in DOMAIN hs /\ h \in Handle /\ h.at \in Channel
  BY <1>2, AtChannel DEF ProcInv
<1>4. done.ok \in BOOLEAN /\ (done.ok => done.fan.enable = h.snapshot)
  BY <1>3, Restores, Zenon
<1>5. /\ mode' = [mode EXCEPT ![h.at] = done.fan.enable]
      /\ stranded' = (stranded \/ ~done.ok)
  BY <1>1
<1>6. /\ proc'[p].phase = "restoring" /\ proc'[p].handles = rest
      /\ \A q \in Processes : q # p => proc'[q] = proc[q]
  BY <1>1, <1>2 DEF ChanTypes, ProcInv, ProcKeys
<1>7. \A j \in DOMAIN rest : \E k \in DOMAIN hs : rest[j] = hs[k]
  <2>1. /\ Len(hs) \in Nat /\ DOMAIN hs = 1..Len(hs) /\ DOMAIN rest = 1..(Len(hs) - 1)
        /\ \A j \in 1..(Len(hs) - 1) : rest[j] = IF j < i THEN hs[j] ELSE hs[j + 1]
    <3> HIDE DEF hs
    <3>1. /\ RemoveAt(hs, i) \in Seq(Handle) /\ Len(RemoveAt(hs, i)) = Len(hs) - 1
          /\ \A j \in 1..(Len(hs) - 1) :
                RemoveAt(hs, i)[j] = IF j < i THEN hs[j] ELSE hs[j + 1]
      BY <1>3, Removed
    <3>2. QED
      BY <1>3, <3>1
  <2> HIDE DEF rest, hs
  <2>2. ASSUME NEW j \in 1..(Len(hs) - 1)
        PROVE  j \in 1..Len(hs) /\ j + 1 \in 1..Len(hs)
    BY <2>1
  <2>3. QED
    BY <2>1, <2>2
<1>8. \A k \in DOMAIN hs : k # i => \E j \in DOMAIN rest : rest[j] = hs[k]
  <2>1. /\ Len(hs) \in Nat /\ DOMAIN hs = 1..Len(hs) /\ DOMAIN rest = 1..(Len(hs) - 1)
        /\ \A j \in 1..(Len(hs) - 1) : rest[j] = IF j < i THEN hs[j] ELSE hs[j + 1]
    <3> HIDE DEF hs
    <3>1. /\ RemoveAt(hs, i) \in Seq(Handle) /\ Len(RemoveAt(hs, i)) = Len(hs) - 1
          /\ \A j \in 1..(Len(hs) - 1) :
                RemoveAt(hs, i)[j] = IF j < i THEN hs[j] ELSE hs[j + 1]
      BY <1>3, Removed
    <3>2. QED
      BY <1>3, <3>1
  <2>2. i \in 1..Len(hs)
    BY <1>3, <2>1
  <2> HIDE DEF rest, hs
  <2>3. ASSUME NEW k \in 1..Len(hs), k < i PROVE \E j \in DOMAIN rest : rest[j] = hs[k]
    <3>1. k \in 1..(Len(hs) - 1) /\ rest[k] = hs[k]
      BY <2>1, <2>2, <2>3
    <3>2. QED
      BY <2>1, <3>1
  <2>4. ASSUME NEW k \in 1..Len(hs), k > i PROVE \E j \in DOMAIN rest : rest[j] = hs[k]
    <3>1. k - 1 \in 1..(Len(hs) - 1) /\ ~(k - 1 < i) /\ k - 1 + 1 = k
      BY <2>1, <2>2, <2>4
    <3>2. rest[k - 1] = hs[k]
      BY <2>1, <3>1
    <3>3. QED
      BY <2>1, <3>1, <3>2
  <2>5. QED
    BY <2>1, <2>2, <2>3, <2>4
<1> HIDE DEF rest, done, hs, h
<1>9. DownEmpty' /\ Alone'
  BY <1>2, <1>6 DEF Returning, DownEmpty, Alone
<1>10. ASSUME ~stranded'
       PROVE  /\ \A q \in Processes : Firmware(proc'[q].handles)
              /\ \A ch \in Channel : mode'[ch] = Manual =>
                    \E q \in Processes : Holds(proc'[q].handles, ch)
  <2>1. /\ \A q \in Processes : Firmware(proc[q].handles)
        /\ \A ch \in Channel : mode[ch] = Manual =>
              \E q \in Processes : Holds(proc[q].handles, ch)
    BY <1>5, <1>10 DEF Returning, Remembered
  <2>2. done.fan.enable = BiosMode
    <3>1. done.ok
      BY <1>4, <1>5, <1>10, Zenon
    <3>2. h.snapshot = BiosMode
      BY <1>3, <2>1 DEF Firmware, h, hs
    <3>3. QED
      BY <1>4, <3>1, <3>2
  <2>3. \A q \in Processes : Firmware(proc'[q].handles)
    <3>1. Firmware(rest)
      BY <1>7, <2>1 DEF Firmware, hs
    <3>2. QED
      BY <1>6, <2>1, <3>1
  <2>4. ASSUME NEW ch \in Channel, mode'[ch] = Manual
        PROVE  \E q \in Processes : Holds(proc'[q].handles, ch)
    <3>1. ch # h.at /\ mode[ch] = Manual
      BY <1>3, <1>5, <2>2, <2>4, FanAssumption DEF ChanTypes, Box
    <3>2. PICK q \in Processes : Holds(proc[q].handles, ch)
      BY <2>1, <3>1
    <3>3. CASE q = p
      <4>1. PICK k \in DOMAIN hs : hs[k].at = ch
        BY <3>2, <3>3 DEF Holds, hs
      <4>2. k # i
        BY <3>1, <4>1 DEF h
      <4>3. Holds(rest, ch)
        BY <1>8, <4>1, <4>2 DEF Holds
      <4>4. Holds(proc'[p].handles, ch)
        BY <1>6, <4>3
      <4>5. QED
        BY <4>4
    <3>4. CASE q # p
      BY <1>6, <3>2, <3>4
    <3>5. QED
      BY <3>3, <3>4
  <2>5. QED
    BY <2>3, <2>4
<1>11. Remembered'
  BY <1>10 DEF Remembered, Firmware, Holds
<1>12. QED
  BY <1>9, <1>11 DEF Returning

(* A step of one process that keeps its handles.                           *)
LEMMA KeepsHandles ==
    ASSUME ChanTypes, Returning, NEW p \in Processes, NEW c, proc' = [proc EXCEPT ![p] = c],
           c.handles = proc[p].handles, c.phase # "down", proc[p].phase # "down",
           stranded' = stranded,
           \A ch \in Channel : mode'[ch] = Manual =>
               mode[ch] = Manual \/ \E q \in Processes : Holds(proc[q].handles, ch)
    PROVE  Returning'
<1>1. proc'[p] = c /\ \A q \in Processes : q # p => proc'[q] = proc[q]
  BY DEF ChanTypes
<1>2. \A q \in Processes : /\ proc'[q].handles = proc[q].handles
                           /\ proc'[q].phase = "down" <=> proc[q].phase = "down"
  BY <1>1
<1>3. DownEmpty' /\ Alone'
  BY <1>2, SamePhases
<1>4. Remembered'
  BY <1>2, SameHandles DEF Returning
<1>5. QED
  BY <1>3, <1>4 DEF Returning

LEMMA RearmHeld ==
    ASSUME ChanTypes, NEW p \in Processes, NEW i \in DOMAIN proc[p].handles,
           Rearmed(proc[p].handles[i])
    PROVE  \A ch \in Channel : mode'[ch] = Manual =>
               mode[ch] = Manual \/ \E q \in Processes : Holds(proc[q].handles, ch)
<1> DEFINE h == proc[p].handles[i]
<1>1. h \in Handle
  BY DEF ChanTypes, ProcInv
<1>2. PICK e : mode' = [mode EXCEPT ![h.at] = e]
  BY <1>1, Rearms DEF ChanTypes
<1>3. Holds(proc[p].handles, h.at)
  BY DEF Holds
<1> HIDE DEF h
<1>4. ASSUME NEW ch \in Channel, mode'[ch] = Manual
      PROVE  mode[ch] = Manual \/ \E q \in Processes : Holds(proc[q].handles, ch)
  <2>1. CASE ch = h.at
    BY <1>3, <2>1
  <2>2. CASE ch # h.at
    BY <1>2, <1>4, <2>2 DEF ChanTypes, Box
  <2>3. QED
    BY <2>1, <2>2
<1>5. QED
  BY <1>4

LEMMA ModeUp ==
    ASSUME ChanTypes, Returning, proc' = proc, stranded' = stranded,
           \A ch \in Channel : mode'[ch] = Manual =>
               mode[ch] = Manual \/ \E q \in Processes : Holds(proc[q].handles, ch)
    PROVE  Returning'
<1>1. DownEmpty' /\ Alone'
  BY SamePhases
<1>2. Remembered'
  BY SameHandles DEF Returning
<1>3. QED
  BY <1>1, <1>2 DEF Returning

LEMMA SweepReturns == ASSUME ChanTypes, Returning, Sweep PROVE Returning'
<1> DEFINE c == proc["calibration"]
<1>1. ProcInv(c, "calibration") /\ c.phase = "sweeping" /\ stranded' = stranded
  BY DaemonProcesses DEF Sweep, ChanTypes
<1>2. \A ch \in Channel : mode'[ch] = Manual =>
          mode[ch] = Manual \/ \E q \in Processes : Holds(proc[q].handles, ch)
  <2>1. CASE mode' = mode
    BY <2>1
  <2>2. CASE Rearmed(c.handles[c.next])
    <3>1. c.next \in DOMAIN c.handles
      BY <1>1 DEF ProcInv, Counted
    <3>2. QED
      BY <2>2, <3>1, RearmHeld, DaemonProcesses
  <2>3. QED
    BY <2>1, <2>2 DEF Sweep
<1>3. PICK x : /\ proc' = [proc EXCEPT !["calibration"] = x]
               /\ x.phase \in {"sweeping", "restoring"}
               /\ x.handles = c.handles
  BY <1>1, SweepMoves DEF ProcInv
<1>4. QED
  BY <1>1, <1>2, <1>3, KeepsHandles, DaemonProcesses

LEMMA DaemonReturns ==
    ASSUME ChanTypes, Returning, Stop \/ \E new \in Loads : Reload(new)
    PROVE  Returning'
<1>1. /\ DOMAIN proc["daemon"] = ProcKeys /\ proc["daemon"].phase = "running"
      /\ mode' = mode /\ stranded' = stranded
  BY DaemonProcesses DEF Stop, Reload, ChanTypes, ProcInv
<1>2. PICK x : /\ proc' = [proc EXCEPT !["daemon"] = x]
               /\ x.phase \in {"running", "restoring"}
               /\ x.handles = proc["daemon"].handles
  <2>1. CASE Stop
    <3> DEFINE x == [proc["daemon"] EXCEPT !.phase = "restoring"]
    <3>1. proc' = [proc EXCEPT !["daemon"] = x]
      BY <2>1 DEF Stop
    <3>2. x.phase = "restoring" /\ x.handles = proc["daemon"].handles
      BY <1>1 DEF ProcKeys
    <3> HIDE DEF x
    <3>3. QED
      BY <3>1, <3>2
  <2>2. ASSUME NEW new \in Loads, Reload(new)
        PROVE  \E x : /\ proc' = [proc EXCEPT !["daemon"] = x]
                      /\ x.phase \in {"running", "restoring"}
                      /\ x.handles = proc["daemon"].handles
    <3> DEFINE x == [proc["daemon"] EXCEPT !.cfg = HandleSighup(@, new)]
    <3>1. proc' = [proc EXCEPT !["daemon"] = x]
      BY <2>2 DEF Reload
    <3>2. x.phase = "running" /\ x.handles = proc["daemon"].handles
      BY <1>1 DEF ProcKeys
    <3> HIDE DEF x
    <3>3. QED
      BY <3>1, <3>2
  <2>3. QED
    BY <2>1, <2>2
<1>3. QED
  BY <1>1, <1>2, KeepsHandles, DaemonProcesses

LEMMA ReadyReturns == ASSUME ChanTypes, Returning, NEW p \in Processes, Ready(p) PROVE Returning'
<1> DEFINE x == [proc[p] EXCEPT !.phase = IF p = "daemon" THEN "running" ELSE "sweeping",
                                !.chips = <<>>, !.next = 1]
<1>1. /\ DOMAIN proc[p] = ProcKeys /\ proc[p].phase = "taking"
      /\ mode' = mode /\ stranded' = stranded
  BY DEF Ready, ChanTypes, ProcInv
<1>2. proc' = [proc EXCEPT ![p] = x]
  BY DEF Ready
<1>3. x.phase # "down" /\ x.handles = proc[p].handles
  BY <1>1 DEF ProcKeys
<1> HIDE DEF x
<1>4. QED
  BY <1>1, <1>2, <1>3, KeepsHandles

LEMMA RebootReturns == Reboot => Returning'
<1> SUFFICES ASSUME Reboot PROVE Returning'
  OBVIOUS
<1>1. \A q \in Processes : proc'[q] = Down
  BY DEF Reboot
<1>2. \A q \in Processes : proc'[q].phase = "down" /\ proc'[q].handles = <<>>
  BY <1>1, DownKeys
<1>3. \A ch \in Channel : mode'[ch] # Manual
  BY FanAssumption DEF Reboot
<1>4. QED
  BY <1>2, <1>3 DEF Returning, DownEmpty, Alone, Remembered, Firmware

LEMMA ReturningStep ==
    ASSUME FilesDrivable, "overlap" \notin Hazards
    PROVE  ChanTypes /\ Placed /\ Returning /\ [Next]_vars => Returning'
<1> SUFFICES ASSUME ChanTypes, Placed, Returning, [Next]_vars PROVE Returning'
  OBVIOUS
<1> USE DaemonProcesses
<1>1. CASE StartDaemon
  <2>1. PICK cfg, chips : Enter("daemon", cfg, chips)
    BY <1>1, Zenon DEF StartDaemon
  <2>2. \A q \in Processes : q # "daemon" => proc[q].phase = "down"
    BY <1>1 DEF StartDaemon, Processes
  <2>3. QED
    BY <2>1, <2>2, EnterReturns
<1>2. CASE StartCalibration
  <2>1. PICK cfg, chips : Enter("calibration", cfg, chips)
    BY <1>2, Zenon DEF StartCalibration
  <2>2. \A q \in Processes : q # "calibration" => proc[q].phase = "down"
    BY <1>2 DEF StartCalibration, Processes
  <2>3. QED
    BY <2>1, <2>2, EnterReturns
<1>3. ASSUME NEW p \in Processes, Step(p) PROVE Returning'
  BY <1>3, TakeReturns, ReadyReturns, RestoreReturns, EndReturns DEF Step, Exit
<1>4. ASSUME NEW p \in Processes, Crash(p) PROVE Returning'
  BY <1>4, EndReturns DEF Crash
<1>5. CASE Drive
  <2>1. PICK h \in Range(proc["daemon"].handles) : Rearmed(h)
    BY <1>5 DEF Drive
  <2>2. PICK i \in DOMAIN proc["daemon"].handles : h = proc["daemon"].handles[i]
    BY InRange
  <2>3. \A ch \in Channel : mode'[ch] = Manual =>
            mode[ch] = Manual \/ \E q \in Processes : Holds(proc[q].handles, ch)
    BY <2>1, <2>2, RearmHeld
  <2>4. QED
    BY <1>5, <2>3, ModeUp DEF Drive
<1>6. ASSUME NEW ch \in Channel, Drift(ch) PROVE Returning'
  <2>1. \A k \in Channel : mode'[k] = Manual => mode[k] = Manual
    BY <1>6, FanAssumption DEF Drift, ChanTypes, Box
  <2>2. QED
    BY <1>6, <2>1, ModeUp DEF Drift
<1>7. CASE UNCHANGED vars
  BY <1>7, ModeUp DEF vars
<1>8. CASE Stop \/ \E new \in Loads : Reload(new)
  BY <1>8, DaemonReturns
<1>9. CASE Sweep
  BY <1>9, SweepReturns
<1>10. CASE Reboot
  BY <1>10, RebootReturns
<1>11. QED
  BY <1>1, <1>2, <1>3, <1>4, <1>5, <1>6, <1>7, <1>8, <1>9, <1>10
     DEF Next, Daemon, Calibration

LEMMA ReturningInit == Init => Returning
<1> SUFFICES ASSUME Init PROVE Returning
  OBVIOUS
<1>1. \A q \in Processes : proc[q].phase = "down" /\ proc[q].handles = <<>>
  BY DownKeys DEF Init
<1>2. \A ch \in Channel : mode[ch] # Manual
  BY FanAssumption DEF Init
<1>3. QED
  BY <1>1, <1>2 DEF Returning, DownEmpty, Alone, Remembered, Firmware

(* Unless calibration and daemon overlap, a clean end of the last process  *)
(* leaves no channel of any box in manual mode, whichever files it loaded, *)
(* fans it failed to take, and channels the firmware took back meanwhile.  *)
THEOREM ChannelsGoBack ==
    ASSUME FilesDrivable, "overlap" \notin Hazards
    PROVE  Spec => []NobodyLeftBehind
<1>1. DownEmpty /\ Remembered /\ Box => NobodyLeftBehind
  <2> SUFFICES ASSUME DownEmpty, Remembered, Box, \A p \in Processes : proc[p].phase = "down",
                      ~stranded, NEW ch \in Channel
               PROVE  mode[ch] = BiosMode
    BY DEF NobodyLeftBehind
  <2>1. \A p \in Processes : ~Holds(proc[p].handles, ch)
    BY DEF DownEmpty, Holds
  <2>2. mode[ch] # Manual
    BY <2>1 DEF Remembered
  <2>3. QED
    BY <2>2 DEF Box
<1>2. ChanTypes /\ Placed /\ Returning /\ [Next]_vars => Returning'
  BY ReturningStep
<1>3. ChanTypes /\ Returning => NobodyLeftBehind
  BY <1>1 DEF ChanTypes, Returning
<1>4. QED
  BY <1>2, <1>3, ReturningInit, PlacedAlways, PTL DEF Spec
=============================================================================
