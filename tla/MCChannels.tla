----------------------------- MODULE MCChannels -----------------------------
(***************************************************************************)
(* Small boxes and the files an operator may write for them: a valid base  *)
(* file and what comes of it by one edit, chosen to meet and to miss each  *)
(* rule of validate by one, or of the chips and channels of the box.       *)
(***************************************************************************)
EXTENDS Channels

Curve == <<<<40, 30>>, <<80, 100>>>>

Section(kind, id, keys) == [kind |-> kind, id |-> id, keys |-> keys]
FanSection(id, channel) ==
    Section("fan", id, [chip |-> "nct", pwm_channel |-> channel, min_rpm |-> 200,
                        max_rpm |-> 5000, fan_fail_threshold |-> 3, spin_up_grace_s |-> 10])
GpuSection(id, index) ==
    Section("gpu", id, [nvml_index |-> index, curve |-> Curve, min_fan_pct |-> 20,
                        max_fan_pct |-> 100, power_limit_w |-> 200])

Base ==
    <<Section("global", "", [config_version |-> 1, poll_interval_ms |-> 2000,
                             log_level |-> "info"]),
      Section("watchdog", "", [enabled |-> TRUE, device |-> "watchdog", timeout_s |-> 30,
                               gpu_fail_threshold |-> 3]),
      GpuSection("a", 0), GpuSection("b", 1), FanSection("x", 1), FanSection("y", 2),
      Section("group", "l", [gpus |-> <<"a">>, fans |-> <<"x">>]),
      Section("group", "r", [gpus |-> <<"b">>, fans |-> <<"y">>])>>

(* Keys to set, per section of Base, with the values to try.               *)
Settings == <<
    [config_version |-> {2}, poll_interval_ms |-> {99, 100, 4999, 5000}, log_level |-> {Malformed},
     power_limit_check_interval_s |-> {9, 10}, power_limit_validate_max_w |-> {199, 200, 10001},
     power_limit_restore_on_shutdown |-> {TRUE}, typo |-> {1}],
    [enabled |-> {FALSE}, device |-> {None, "other"}, timeout_s |-> {4, 12, 13, 601},
     gpu_fail_threshold |-> {0, 7, 8}],
    [nvml_index |-> {1, 2}, curve |-> {<<<<40, 30>>, <<30, 100>>>>, <<<<40, 30>>, <<111, 100>>>>},
     min_fan_pct |-> {100, 101, 300}, max_fan_pct |-> {19, 300}, power_limit_enabled |-> {TRUE},
     power_limit_w |-> {24, 1000, 1001}],
    <<>>,
    [chip |-> {None, "it8", "gone"}, hwmon_path |-> {"gone", "hwmon1"}, pwm_channel |-> {0, 2, 3},
     min_rpm |-> {5000}, fan_fail_threshold |-> {0, 7, 8}, spin_up_grace_s |-> {0}],
    <<>>,
    [gpus |-> {<<>>, <<"b">>, <<"a", "c">>}, fans |-> {<<"x", "y">>, <<"x", "x">>}],
    <<>>>>

Edited ==
    UNION {{[Base EXCEPT ![i].keys = (k :> v) @@ @] : v \in Settings[i][k]} :
               <<i, k>> \in UNION {{i} \X DOMAIN Settings[i] : i \in DOMAIN Base}}
Shortened == {RemoveAt(Base, i) : i \in DOMAIN Base}
Repeated == {Append(Base, Base[i]) : i \in DOMAIN Base}
Unset == {[Base EXCEPT ![3].keys = [k \in DOMAIN @ \ {"curve"} |-> @[k]]],
          [Base EXCEPT ![3].keys = [k \in DOMAIN @ \ {"power_limit_w"} |-> @[k]]
                                       @@ [power_limit_enabled |-> TRUE]]}
Reordered == {<<Base[8], Base[6], Base[5], Base[2], Base[4], Base[3], Base[1], Base[7]>>}

OneEdit == {Base} \cup Edited \cup Shortened \cup Repeated \cup Unset \cup Reordered

(* Three devices, two with names of their own and one without a name.      *)
ThreeDevices == {"d1", "d2", "d3"}
OwnNames == [d1 |-> "nct", d2 |-> "it8", d3 |-> NoName]
Headers == [d1 |-> {1, 2}, d2 |-> {1}, d3 |-> {}]
Hwmon == {"hwmon0", "hwmon1", "hwmon2"}

(* A second block of the first fan's id, on a channel of its own.          *)
SameIdTwice == {Append(Base, FanSection("x", 3))}
MoreHeaders == [Headers EXCEPT !.d1 = {1, 2, 3}]

(* The files of the run are such as the theorems speak of, the repeated id *)
(* is not.                                                                 *)
ASSUME MCChannelsAssumption ==
    /\ Files = OneEdit => FilesUnambiguous /\ FilesDrivable
    /\ Files = SameIdTwice => ~FilesUnambiguous /\ ~FilesDrivable
=============================================================================
