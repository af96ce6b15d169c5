-------------------------------- MODULE Fan --------------------------------
(***************************************************************************)
(* One fan (fan.rs, struct Fan) and the hwmon channel it drives.  A fan is *)
(* a record                                                                *)
(*   enable    what pwmN_enable holds: Manual or the firmware's own mode   *)
(*   duty      what pwmN holds                                             *)
(*   snapshot  pwm_enable_snapshot, NoSnapshot before take_manual_control  *)
(*   last      last_set_pct, NoPct before the first set                    *)
(*   spin      spin_up_state is Active (its elapsed_s is never read)       *)
(* Each operation is a function from a fan and the sysfs access that fails *)
(* in it to the fan it leaves behind and whether it answered Ok: an        *)
(* operation that fails half way keeps what it had already written.        *)
(***************************************************************************)
EXTENDS Cooling

CONSTANTS
    BiosMode,     \* the value of pwmN_enable under firmware control ("2")
    NoSnapshot,   \* None of pwm_enable_snapshot
    NoPct,        \* None of a last_set_pct
    MinRpm,       \* min_rpm
    MaxRpm,       \* max_rpm
    Grace         \* spin_up_grace_s

Manual == "1"
SPIN_UP_DELTA_PCT == 20

ASSUME FanAssumption ==
    /\ BiosMode # Manual
    /\ NoSnapshot \notin {BiosMode, Manual}
    /\ NoPct \notin Int
    /\ MinRpm \in Nat /\ MaxRpm \in Nat /\ MinRpm < MaxRpm
    /\ Grace \in Nat

FanState == [enable   : {BiosMode, Manual},
             duty     : Byte,
             snapshot : {BiosMode, Manual, NoSnapshot},
             last     : Percent \cup {NoPct},
             spin     : BOOLEAN]

(* The sysfs access that fails, if the operation gets to it. *)
Access == {"none", "read_enable", "write_enable", "write_duty"}

Done(x) == [fan |-> x, ok |-> TRUE]
Failed(x) == [fan |-> x, ok |-> FALSE]

-----------------------------------------------------------------------------
(* Mutants.                                                                *)

TakeManualThenSnapshot(x, fails) ==
    IF fails \in {"read_enable", "write_enable"} THEN Failed(x)
    ELSE Done([x EXCEPT !.snapshot = Manual, !.enable = Manual, !.spin = TRUE])

TickSpinUpForever(x, rpm, elapsed) == [x EXCEPT !.spin = @ /\ rpm <= MinRpm]

-----------------------------------------------------------------------------
(* Fan::open: nothing is touched, the channel is as it was found.          *)
Open(enable, duty) ==
    [enable |-> enable, duty |-> duty, snapshot |-> NoSnapshot,
     last |-> NoPct, spin |-> FALSE]

TakeManualControl(x, fails) ==
    IF fails \in {"read_enable", "write_enable"} THEN Failed(x)
    ELSE Done([x EXCEPT !.snapshot = x.enable, !.enable = Manual, !.spin = TRUE])

(* ensure_manual_mode: re-arm a channel that left manual mode, and enter   *)
(* the spin-up state when it had to.                                       *)
EnsureManual(x, fails) ==
    IF fails = "read_enable" THEN Failed(x)
    ELSE IF x.enable = Manual THEN Done(x)
    ELSE IF fails = "write_enable" THEN Failed(x)
    ELSE Done([x EXCEPT !.enable = Manual, !.spin = TRUE])

(* A rise of more than the delta over the last duty set successfully.      *)
Jump(last, pct) == last # NoPct /\ pct - last > SPIN_UP_DELTA_PCT

Set(x, pct, fails) ==
    LET armed == EnsureManual(x, fails)
    IN  IF ~armed.ok \/ fails = "write_duty" THEN Failed(armed.fan)
        ELSE Done([armed.fan EXCEPT !.duty = PwmOf(pct),
                                    !.spin = @ \/ Jump(armed.fan.last, pct),
                                    !.last = pct])

SetMax(x, fails) ==
    LET armed == EnsureManual(x, fails)
    IN  IF ~armed.ok \/ fails = "write_duty" THEN Failed(armed.fan)
        ELSE Done([armed.fan EXCEPT !.duty = 255, !.last = 100, !.spin = TRUE])

Restore(x, fails) ==
    IF x.snapshot = NoSnapshot \/ fails = "write_enable" THEN Failed(x)
    ELSE Done([x EXCEPT !.enable = x.snapshot])

(* Leaves the spin-up state once the fan caught air or the grace is over.  *)
TickSpinUp(x, rpm, elapsed) ==
    [x EXCEPT !.spin = @ /\ rpm <= MinRpm /\ elapsed < Grace]

CheckHealth(rpm, spin) ==
    IF rpm > MaxRpm THEN "Overspeed"
    ELSE IF rpm = 0 \/ rpm < MinRpm
         THEN IF spin THEN "SpinUp" ELSE "Stalled"
    ELSE "Ok"
=============================================================================
