--------------------------- MODULE LifecycleProofs ---------------------------
(***************************************************************************)
(* The life cycle for any number of fans, any timeouts, any restart delay  *)
(* and any failures.  The types hold on any machine; the fail-safe holds   *)
(* where the watchdog's timer survives a close without the magic 'V'       *)
(* (Survives), which is what ADR-0003 is built on.                         *)
(***************************************************************************)
EXTENDS Lifecycle, TLAPS

Control ==
    /\ phase \in Phases
    /\ at \in Fans
    /\ left \subseteq Fans

Flags == fault \in BOOLEAN /\ shutdown \in BOOLEAN

Ages ==
    /\ wd \in {"running", "idle"}
    /\ limit \in Timeouts \cup {DriverTimeout}
    /\ wdAge \in 0..(limit - 1)
    /\ sdAge \in 0..(SystemdTimeout - 1)
    /\ downAge \in 0..RestartDelay

Channels == fan \in [Fans -> FanState]

History == lost \subseteq Fans /\ ended \in {"crash", "other"}

LEMMA TypeParts == TypeOK <=> Control /\ Flags /\ Ages /\ Channels /\ History
BY Zenon DEF TypeOK, Control, Flags, Ages, Channels, History

LEMMA DieTypes ==
    ASSUME History, NEW how \in {"crash", "other"}, Die(how)
    PROVE  /\ Control' /\ Flags' /\ History'
           /\ sdAge' \in 0..(SystemdTimeout - 1) /\ downAge' \in 0..RestartDelay
<1>1. Flags'
  BY Zenon DEF Die, Flags
<1>2. Control' /\ History'
  BY LifecycleAssumption DEF Die, Control, History, Phases, Fans
<1>3. QED
  BY <1>1, <1>2, LifecycleAssumption DEF Die

-----------------------------------------------------------------------------
(* take_manual_control: the snapshot is the mode it found.                 *)
LEMMA TakeManualSnapshot ==
    ASSUME NEW enable \in {BiosMode, Manual}, NEW duty \in Byte, NEW fails
    PROVE  LET taken == TakeManualControl(Open(enable, duty), fails)
           IN  /\ taken.fan \in FanState
               /\ taken.ok => taken.fan.snapshot = enable /\ taken.fan.enable = Manual
               /\ ~taken.ok => taken.fan.enable = enable
<1> DEFINE x == Open(enable, duty)
<1>1. /\ x \in FanState
      /\ x.enable = enable
  BY DEF Open, FanState
<1> HIDE DEF x
<1>2. [x EXCEPT !.snapshot = enable, !.enable = Manual, !.spin = TRUE] \in FanState
  <2>1. enable \in {BiosMode, Manual, NoSnapshot} /\ Manual \in {BiosMode, Manual}
    OBVIOUS
  <2>2. QED
    BY <1>1, <2>1 DEF FanState
<1>3. /\ [x EXCEPT !.snapshot = enable, !.enable = Manual, !.spin = TRUE].snapshot = enable
      /\ [x EXCEPT !.snapshot = enable, !.enable = Manual, !.spin = TRUE].enable = Manual
  BY <1>1 DEF FanState
<1>4. QED
  BY <1>1, <1>2, <1>3 DEF TakeManualControl, Done, Failed, x

(* ensure_manual_mode leaves the snapshot alone.                           *)
LEMMA EnsureManualSnapshot ==
    ASSUME NEW x \in FanState
    PROVE  /\ EnsureManual(x, "none").fan \in FanState
           /\ EnsureManual(x, "none").fan.snapshot = x.snapshot
           /\ EnsureManual(x, "none").fan.enable = Manual
<1>1. CASE x.enable = Manual
  BY <1>1 DEF EnsureManual, Done
<1>2. CASE x.enable # Manual
  <2>1. EnsureManual(x, "none").fan = [x EXCEPT !.enable = Manual, !.spin = TRUE]
    BY <1>2 DEF EnsureManual, Done
  <2>2. [x EXCEPT !.enable = Manual, !.spin = TRUE] \in FanState
    BY DEF FanState
  <2>3. /\ [x EXCEPT !.enable = Manual, !.spin = TRUE].snapshot = x.snapshot
        /\ [x EXCEPT !.enable = Manual, !.spin = TRUE].enable = Manual
    BY DEF FanState
  <2>4. QED
    BY <2>1, <2>2, <2>3
<1>3. QED
  BY <1>1, <1>2

(* restore: on success the channel is in the mode of the snapshot, on      *)
(* failure nothing has changed.                                            *)
LEMMA RestoreOutcome ==
    ASSUME NEW x \in FanState, NEW fails
    PROVE  LET back == Restore(x, fails)
           IN  /\ back.fan \in FanState
               /\ back.fan.snapshot = x.snapshot
               /\ back.ok => back.fan.enable = x.snapshot
               /\ ~back.ok => back.fan = x
<1>1. CASE x.snapshot = NoSnapshot \/ fails = "write_enable"
  BY <1>1 DEF Restore, Failed
<1>2. CASE ~(x.snapshot = NoSnapshot \/ fails = "write_enable")
  <2>1. x.snapshot \in {BiosMode, Manual}
    BY <1>2 DEF FanState
  <2>2. /\ [x EXCEPT !.enable = x.snapshot] \in FanState
        /\ [x EXCEPT !.enable = x.snapshot].snapshot = x.snapshot
        /\ [x EXCEPT !.enable = x.snapshot].enable = x.snapshot
    BY <2>1 DEF FanState
  <2>3. Restore(x, fails) = [fan |-> [x EXCEPT !.enable = x.snapshot], ok |-> TRUE]
    BY <1>2, Zenon DEF Restore, Done
  <2>4. Restore(x, fails).fan = [x EXCEPT !.enable = x.snapshot] /\ Restore(x, fails).ok
    BY <2>3
  <2>5. QED
    BY <2>2, <2>4
<1>3. QED
  BY <1>1, <1>2

(* What each action does to the channels: the facts the rest rests on.     *)
LEMMA TakeFanFacts ==
    ASSUME Channels, at \in Fans, TakeFan
    PROVE  /\ phase = "taking" /\ UNCHANGED <<limit, wdAge>>
           /\ fan' \in [Fans -> FanState]
           /\ \A f \in Fans \ {at} : fan'[f] = fan[f]
           /\ \/ /\ NextTake /\ UNCHANGED <<left, fault, shutdown, wd, sdAge, downAge, history>>
                 /\ fan'[at].snapshot = fan[at].enable /\ fan'[at].enable = Manual
              \/ /\ Die("other") /\ wd' = AfterClose(wd)
                 /\ fan'[at].enable = fan[at].enable
<1> DEFINE taken(fails) == TakeManualControl(Open(fan[at].enable, fan[at].duty), fails)
<1>1. PICK fails \in Access :
         /\ fan' = [fan EXCEPT ![at] = taken(fails).fan]
         /\ IF ~taken(fails).ok THEN Die("other") /\ wd' = AfterClose(wd)
            ELSE NextTake /\ UNCHANGED <<left, fault, shutdown, wd, sdAge, downAge, history>>
  BY Zenon DEF TakeFan, Access
<1>2. /\ fan[at].enable \in {BiosMode, Manual} /\ fan[at].duty \in Byte
  BY DEF Channels, FanState
<1>3. /\ taken(fails).fan \in FanState
      /\ taken(fails).ok => /\ taken(fails).fan.snapshot = fan[at].enable
                            /\ taken(fails).fan.enable = Manual
      /\ ~taken(fails).ok => taken(fails).fan.enable = fan[at].enable
  BY <1>2, TakeManualSnapshot
<1> HIDE DEF taken
<1>4. /\ fan' \in [Fans -> FanState]
      /\ fan'[at] = taken(fails).fan
      /\ \A f \in Fans \ {at} : fan'[f] = fan[f]
  BY <1>1, <1>3 DEF Channels
<1>5. phase = "taking" /\ UNCHANGED <<limit, wdAge>>
  BY DEF TakeFan
<1>6. CASE taken(fails).ok
  BY <1>1, <1>3, <1>4, <1>5, <1>6
<1>7. CASE ~taken(fails).ok
  BY <1>1, <1>3, <1>4, <1>5, <1>7
<1>8. QED
  BY <1>6, <1>7

LEMMA PollFacts ==
    ASSUME Channels, Poll
    PROVE  /\ fan' \in [Fans -> FanState]
           /\ \A f \in Fans : fan'[f].snapshot = fan[f].snapshot /\ fan'[f].enable = Manual
<1>1. fan' = [f \in Fans |-> EnsureManual(fan[f], "none").fan]
  BY DEF Poll
<1>2. \A f \in Fans : fan[f] \in FanState
  BY DEF Channels
<1>3. QED
  BY <1>1, <1>2, EnsureManualSnapshot

LEMMA RestoreFacts ==
    ASSUME Channels, NEW f \in Fans, RestoreFan(f)
    PROVE  /\ phase = "restoring" /\ f \in left /\ left' = left \ {f}
           /\ phase' = IF left' = {} THEN "disarming" ELSE "restoring"
           /\ UNCHANGED <<at, fault, shutdown, watchdog, sdAge, downAge, ended>>
           /\ fan' \in [Fans -> FanState]
           /\ \A h \in Fans \ {f} : fan'[h] = fan[h]
           /\ fan'[f].snapshot = fan[f].snapshot
           /\ \/ fan'[f].enable = fan[f].snapshot /\ lost' = lost
              \/ fan'[f] = fan[f] /\ lost' = lost \cup {f}
<1>1. PICK fails \in Access :
         /\ fan' = [fan EXCEPT ![f] = Restore(fan[f], fails).fan]
         /\ lost' = IF Restore(fan[f], fails).ok THEN lost ELSE lost \cup {f}
  BY Zenon DEF RestoreFan, Access
<1>2. fan[f] \in FanState
  BY DEF Channels
<1> DEFINE back == Restore(fan[f], fails)
<1>3. /\ back.fan \in FanState /\ back.fan.snapshot = fan[f].snapshot
      /\ back.ok => back.fan.enable = fan[f].snapshot
      /\ ~back.ok => back.fan = fan[f]
  BY <1>2, RestoreOutcome
<1>4. /\ fan' = [fan EXCEPT ![f] = back.fan]
      /\ lost' = IF back.ok THEN lost ELSE lost \cup {f}
  BY <1>1
<1> HIDE DEF back
<1>5. /\ fan' \in [Fans -> FanState]
      /\ fan'[f] = back.fan
      /\ \A h \in Fans \ {f} : fan'[h] = fan[h]
  BY <1>3, <1>4 DEF Channels
<1>6. /\ phase = "restoring" /\ f \in left /\ left' = left \ {f}
      /\ phase' = IF left' = {} THEN "disarming" ELSE "restoring"
      /\ UNCHANGED <<at, fault, shutdown, watchdog, sdAge, downAge, ended>>
  BY DEF RestoreFan
<1>7. CASE back.ok
  BY <1>3, <1>4, <1>5, <1>6, <1>7
<1>8. CASE ~back.ok
  BY <1>3, <1>4, <1>5, <1>6, <1>8
<1>9. QED
  BY <1>7, <1>8

LEMMA DriftFacts ==
    ASSUME Channels, NEW f \in Fans, Drift(f)
    PROVE  /\ fan[f].enable = Manual /\ UNCHANGED <<process, watchdog, sdAge, downAge, history>>
           /\ fan' \in [Fans -> FanState]
           /\ \A h \in Fans \ {f} : fan'[h] = fan[h]
           /\ fan'[f].enable = BiosMode /\ fan'[f].snapshot = fan[f].snapshot
<1>1. /\ fan[f].enable = Manual /\ UNCHANGED <<process, watchdog, sdAge, downAge, history>>
      /\ fan' = [fan EXCEPT ![f] = [fan[f] EXCEPT !.enable = BiosMode]]
  BY Zenon DEF Drift
<1>2. fan[f] \in FanState
  BY DEF Channels
<1>3. /\ [fan[f] EXCEPT !.enable = BiosMode] \in FanState
      /\ [fan[f] EXCEPT !.enable = BiosMode].enable = BiosMode
      /\ [fan[f] EXCEPT !.enable = BiosMode].snapshot = fan[f].snapshot
  BY <1>2 DEF FanState
<1>4. QED
  BY <1>1, <1>3 DEF Channels

LEMMA BootedFacts ==
    Booted \in [Fans -> FanState] /\ \A f \in Fans : Booted[f].enable = BiosMode
<1>1. Open(BiosMode, 255) \in FanState /\ Open(BiosMode, 255).enable = BiosMode
  BY DEF Open, FanState, Byte
<1>2. QED
  BY <1>1 DEF Booted

-----------------------------------------------------------------------------
(* Who may write to a channel, and what: a fan stays a fan.                *)
LEMMA ChannelTypes ==
    ASSUME Channels, at \in Fans, [Next]_vars
    PROVE  Channels'
<1>1. CASE TakeFan
  BY <1>1, TakeFanFacts DEF Channels
<1>2. CASE Poll
  BY <1>2, PollFacts DEF Channels
<1>3. ASSUME NEW f \in Fans, RestoreFan(f) PROVE Channels'
  BY <1>3, RestoreFacts DEF Channels
<1>4. ASSUME NEW f \in Fans, Drift(f) PROVE Channels'
  BY <1>4, DriftFacts DEF Channels
<1>5. CASE Reboot
  BY <1>5, BootedFacts DEF Reboot, Channels
<1>6. CASE UNCHANGED fan
  BY <1>6 DEF Channels
<1>7. QED
  BY <1>1, <1>2, <1>3, <1>4, <1>5, <1>6
     DEF Next, Start, Refuse, Daemon, Arm, Register, Leave, Disarm, Crash, Sigterm, Tick,
         SystemdAborts, Pass, DieAsIs, vars

LEMMA ControlTypes ==
    ASSUME Control, Flags, History, [Next]_vars
    PROVE  Control' /\ Flags' /\ History'
<1>1. ASSUME NEW how \in {"crash", "other"}, Die(how)
      PROVE  Control' /\ Flags' /\ History'
  BY <1>1, DieTypes
<1>2. CASE Reboot
  <2>1. Flags'
    BY <1>2, Zenon DEF Reboot, Flags
  <2>2. QED
    BY <1>2, <2>1, LifecycleAssumption DEF Reboot, Control, History, Phases, Fans
<1>3. CASE UNCHANGED <<process, history>>
  <2>1. Flags'
    BY <1>3, Zenon DEF Flags, process
  <2>2. QED
    BY <1>3, <2>1 DEF Control, History, process, history
<1>4. CASE Start
  <2>1. Flags'
    BY <1>4, Zenon DEF Start, Flags
  <2>2. QED
    BY <1>4, <2>1 DEF Start, Control, History, Phases, InManual
<1>5. CASE Register \/ Leave
  <2>1. Flags'
    BY <1>5, Zenon DEF Register, Leave, Flags
  <2>2. QED
    BY <1>5, <2>1 DEF Register, Leave, Control, History, Phases, history
<1>6. CASE phase' = "taking" /\ at' = 1 /\ UNCHANGED <<left, fault, shutdown, history>>
  <2>1. Flags'
    BY <1>6, Zenon DEF Flags
  <2>2. QED
    BY <1>6, <2>1, LifecycleAssumption DEF Control, History, Phases, Fans, history
<1>7. CASE NextTake /\ UNCHANGED <<left, fault, shutdown, history>>
  <2>1. Flags'
    BY <1>7, Zenon DEF Flags
  <2>2. QED
    BY <1>7, <2>1, LifecycleAssumption DEF NextTake, Control, History, Phases, Fans, history
<1>8. CASE Poll
  <2>1. Flags'
    <3>1. fault' \in {fault, TRUE} /\ UNCHANGED shutdown
      BY <1>8, Zenon DEF Poll
    <3>2. QED
      BY <3>1, Zenon DEF Flags
  <2>2. QED
    BY <1>8, <2>1 DEF Poll, Control, History, history
<1>9. ASSUME NEW f \in Fans, RestoreFan(f) PROVE Control' /\ Flags' /\ History'
  <2>1. Flags'
    BY <1>9, Zenon DEF RestoreFan, Flags
  <2>2. History'
    <3>1. (lost' = lost \/ lost' = lost \cup {f}) /\ UNCHANGED ended
      BY <1>9, Zenon DEF RestoreFan
    <3>2. QED
      BY <3>1 DEF History
  <2>3. QED
    BY <1>9, <2>1, <2>2 DEF RestoreFan, Control, Phases
<1>10. CASE shutdown' = TRUE /\ UNCHANGED <<phase, at, left, fault, history>>
  <2>1. Flags'
    BY <1>10, Zenon DEF Flags
  <2>2. QED
    BY <1>10, <2>1 DEF Control, History, history
<1>11. QED
  BY <1>1, <1>2, <1>3, <1>4, <1>5, <1>6, <1>7, <1>8, <1>9, <1>10
     DEF Next, Refuse, Daemon, Arm, TakeFan, Disarm, Crash, Sigterm, Drift, Tick,
         SystemdAborts, Pass, DieAsIs, vars

LEMMA ZeroWithin == \A n \in Nat \ {0} : 0 \in 0..(n - 1)
OBVIOUS

LEMMA AgeTypes ==
    ASSUME Ages, History, [Next]_vars
    PROVE  Ages'
<1>1. limit \in Nat \ {0} /\ DriverTimeout \in Nat \ {0} /\ Timeouts \subseteq Nat \ {0}
  BY LifecycleAssumption DEF Ages
<1>2. AfterClose(wd) \in {"running", "idle"} /\ AfterClose("running") \in {"running", "idle"}
  BY DEF AfterClose, Ages
<1>3. CASE UNCHANGED <<watchdog, sdAge, downAge>>
  BY <1>3 DEF Ages, watchdog
<1>4. ASSUME NEW how \in {"crash", "other"}, Die(how), wd' = AfterClose(wd),
             UNCHANGED <<limit, wdAge>>
      PROVE  Ages'
  BY <1>2, <1>4, DieTypes DEF Ages
<1>5. CASE Arm
  <2>1. wdAge' = 0
    BY <1>5 DEF Arm
  <2>2. CASE /\ wd' = "running" /\ limit' \in Timeouts
             /\ UNCHANGED <<left, fault, shutdown, sdAge, downAge, history>>
    <3>1. /\ wd' = "running" /\ limit' \in Timeouts /\ limit' \in Nat \ {0}
          /\ sdAge' = sdAge /\ downAge' = downAge
      BY <1>1, <2>2
    <3>2. wdAge' \in 0..(limit' - 1)
      BY <2>1, <3>1, ZeroWithin
    <3>3. QED
      BY <3>1, <3>2 DEF Ages
  <2>3. CASE Die("other") /\ wd' = AfterClose("running") /\ UNCHANGED limit
    <3>1. /\ sdAge' \in 0..(SystemdTimeout - 1) /\ downAge' \in 0..RestartDelay
      BY <2>3, DieTypes
    <3>2. wd' \in {"running", "idle"} /\ limit' = limit
      BY <1>2, <2>3
    <3>3. QED
      BY <1>1, <2>1, <3>1, <3>2 DEF Ages
  <2>4. QED
    BY <1>5, <2>2, <2>3 DEF Arm
<1>6. CASE Poll
  BY <1>1, <1>6, LifecycleAssumption DEF Poll, Ages
<1>7. CASE Disarm
  BY <1>1, <1>2, <1>7, DieTypes, LifecycleAssumption DEF Disarm, Ages
<1>8. CASE Reboot
  BY <1>1, <1>8, LifecycleAssumption DEF Reboot, Ages
<1>9. CASE SystemdAborts
  <2>1. Die("other") /\ ~KernelExpires /\ wd' = AfterClose(wd) /\ WatchdogAges /\ limit' = limit
    BY <1>9 DEF SystemdAborts
  <2>2. sdAge' \in 0..(SystemdTimeout - 1) /\ downAge' \in 0..RestartDelay
    BY <2>1, DieTypes
  <2>3. wd' \in {"running", "idle"}
    BY <1>2, <2>1
  <2>4. wdAge' \in 0..(limit' - 1)
    BY <1>1, <2>1 DEF KernelExpires, WatchdogAges, Ages
  <2>5. QED
    BY <2>1, <2>2, <2>3, <2>4 DEF Ages
<1>10. CASE Pass
  BY <1>1, <1>10, LifecycleAssumption DEF Pass, KernelExpires, SystemdExpires, WatchdogAges, Ages
<1>11. CASE TakeFan
  <2>1. /\ \/ Die("other") /\ wd' = AfterClose(wd)
           \/ UNCHANGED <<wd, sdAge, downAge>>
        /\ UNCHANGED <<limit, wdAge>>
    BY <1>11, Zenon DEF TakeFan
  <2>2. QED
    BY <1>3, <1>4, <2>1 DEF watchdog
<1>12. ASSUME NEW f \in Fans, RestoreFan(f) PROVE Ages'
  BY <1>3, <1>12 DEF RestoreFan
<1>13. CASE Refuse \/ Crash \/ Sigterm
  BY <1>3, <1>4, <1>13 DEF Refuse, Crash, Sigterm, DieAsIs
<1>14. CASE Start \/ Register \/ Leave \/ UNCHANGED vars
  BY <1>3, <1>14 DEF Start, Register, Leave, vars
<1>15. ASSUME NEW f \in Fans, Drift(f) PROVE Ages'
  BY <1>3, <1>15 DEF Drift
<1>16. QED
  BY <1>5, <1>6, <1>7, <1>8, <1>9, <1>10, <1>11, <1>12, <1>13, <1>14, <1>15
     DEF Next, Daemon, Tick

LEMMA InitTypes == Init => Control /\ Flags /\ Ages /\ Channels /\ History
<1> SUFFICES ASSUME Init PROVE Control /\ Flags /\ Ages /\ Channels /\ History
  OBVIOUS
<1>1. Control /\ Ages /\ History
  BY LifecycleAssumption DEF Init, Control, Phases, Fans, Ages, History
<1>2. Flags
  BY Zenon DEF Init, Flags
<1>3. Channels
  BY BootedFacts DEF Init, Channels
<1>4. QED
  BY <1>1, <1>2, <1>3

(* The life cycle's variables keep their types whatever fails, dies or is  *)
(* restarted, and the clocks of both watchdogs stop short of their expiry. *)
THEOREM LifeTypes == Spec => []TypeOK
<1>1. Init => TypeOK
  BY InitTypes, TypeParts
<1>2. TypeOK /\ [Next]_vars => TypeOK'
  <2>1. ASSUME TypeOK, [Next]_vars PROVE TypeOK'
    <3>1. Control /\ Flags /\ Ages /\ Channels /\ History
      BY <2>1, TypeParts
    <3>2. Control' /\ Flags' /\ Ages' /\ Channels' /\ History'
      BY <2>1, <3>1, ChannelTypes, ControlTypes, AgeTypes DEF Control
    <3>3. QED
      BY <3>2, Zenon DEF TypeOK, Control, Flags, Ages, Channels, History
  <2>2. QED
    BY <2>1
<1>3. QED
  BY <1>1, <1>2, PTL DEF Spec

-----------------------------------------------------------------------------
(* The driver of ADR-0003.                                                 *)
Survives == "close_disarms" \notin Hazards

Armed == {"taking", "ready", "loop", "restoring", "disarming"}

(* The fan's snapshot can give it back; the fan is with the firmware.  Of  *)
(* a lost fan neither need hold.                                           *)
Known(f) == f \in lost \/ fan[f].snapshot = BiosMode
Home(f) == f \in lost \/ fan[f].enable = BiosMode

(* Where the fans are, by how far the process has come.                    *)
Snaps ==
    /\ phase = "starting" => \A f \in Fans : Home(f)
    /\ phase = "taking" => \A f \in Fans : IF f < at THEN Known(f) ELSE Home(f)
    /\ phase \in {"ready", "loop", "restoring", "disarming"} => \A f \in Fans : Known(f)
    /\ phase = "restoring" => \A f \in Fans \ left : Home(f)
    /\ phase = "disarming" => \A f \in Fans : Home(f)

(* The timer runs from before the first fan is taken over, and stops with  *)
(* every fan at home.                                                      *)
Timer ==
    /\ phase \in Armed => wd = "running"
    /\ wd = "idle" => \A f \in Fans : Home(f)

Typed == Control /\ Channels /\ History /\ wd \in {"running", "idle"}

(* What is held, and how a step may move it.                               *)
Held == InManual \ lost

LEMMA TypedAlways == Spec => []Typed
<1>1. TypeOK => Typed
  BY TypeParts DEF Typed, Ages
<1>2. QED
  BY <1>1, LifeTypes, PTL

LEMMA HomeIsNotHeld ==
    ASSUME Typed
    PROVE  /\ \A f \in Fans : Home(f) <=> f \notin Held
           /\ (\A f \in Fans : Home(f)) <=> Held = {}
<1>1. \A f \in Fans : Home(f) <=> f \notin Held
  BY FanAssumption DEF Typed, Channels, FanState, Home, Held, InManual
<1>2. Held \subseteq Fans
  BY DEF Held, InManual
<1>3. QED
  BY <1>1, <1>2

-----------------------------------------------------------------------------
(* The fans of a process are at home or their snapshots known, on any      *)
(* driver: a death leaves no process.                                      *)
LEMMA TakeFanSnaps ==
    ASSUME Typed, Snaps, TakeFan
    PROVE  Snaps'
<1>1. /\ phase = "taking" /\ at \in Fans
      /\ \A f \in Fans \ {at} : fan'[f] = fan[f]
  BY TakeFanFacts DEF Typed, Control
<1>2. CASE Die("other")
  BY <1>2 DEF Die, Snaps
<1>3. CASE /\ NextTake /\ lost' = lost
           /\ fan'[at].snapshot = fan[at].enable /\ fan'[at].enable = Manual
  <2>1. /\ \A f \in Fans : f < at => Known(f)
        /\ \A f \in Fans : f >= at => Home(f)
    BY <1>1 DEF Snaps, Fans
  <2>2. \A f \in Fans : f = at => Known(f)'
    BY <1>1, <1>3, <2>1 DEF Known, Home, Fans
  <2>3. \A f \in Fans \ {at} : (Known(f) => Known(f)') /\ (Home(f) => Home(f)')
    BY <1>1, <1>3 DEF Known, Home
  <2>4. /\ \A f \in Fans : f <= at => f = at \/ f < at
        /\ \A f \in Fans : f > at => f # at /\ f >= at
    BY <1>1 DEF Fans
  <2>5. /\ \A f \in Fans : f <= at => Known(f)'
        /\ \A f \in Fans : f > at => Home(f)'
    BY <2>1, <2>2, <2>3, <2>4
  <2>6. CASE at + 1 \in Fans
    <3>1. phase' = "taking" /\ at' = at + 1
      BY <1>1, <1>3, <2>6 DEF NextTake
    <3>2. \A f \in Fans : IF f < at' THEN Known(f)' ELSE Home(f)'
      BY <1>1, <2>5, <3>1 DEF Fans
    <3>3. QED
      BY <3>1, <3>2 DEF Snaps
  <2>7. CASE at + 1 \notin Fans
    <3>1. phase' = "ready"
      BY <1>3, <2>7 DEF NextTake
    <3>2. \A f \in Fans : f <= at
      BY <1>1, <2>7, LifecycleAssumption DEF Fans
    <3>3. QED
      BY <2>5, <3>1, <3>2 DEF Snaps
  <2>8. QED
    BY <2>6, <2>7
<1>4. QED
  BY <1>1, <1>2, <1>3, TakeFanFacts DEF Typed, history

LEMMA RestoreFanSnaps ==
    ASSUME Typed, Snaps, NEW f \in Fans, RestoreFan(f)
    PROVE  Snaps' /\ Home(f)'
<1>1. /\ phase = "restoring" /\ f \in left /\ left' = left \ {f}
      /\ phase' = IF left' = {} THEN "disarming" ELSE "restoring"
      /\ \A h \in Fans \ {f} : fan'[h] = fan[h]
      /\ fan'[f].snapshot = fan[f].snapshot
      /\ \/ fan'[f].enable = fan[f].snapshot /\ lost' = lost
         \/ fan'[f] = fan[f] /\ lost' = lost \cup {f}
  BY RestoreFacts DEF Typed
<1>2. /\ \A h \in Fans : Known(h)'
      /\ Home(f)'
      /\ \A h \in Fans \ {f} : Home(h) => Home(h)'
  BY <1>1 DEF Snaps, Known, Home
<1>3. \A h \in Fans \ left' : Home(h)'
  BY <1>1, <1>2 DEF Snaps
<1>4. QED
  BY <1>1, <1>2, <1>3 DEF Snaps

LEMMA DriftSnaps ==
    ASSUME Typed, NEW f \in Fans, Drift(f)
    PROVE  /\ \A h \in Fans : (Known(h) => Known(h)') /\ (Home(h) => Home(h)')
           /\ Snaps => Snaps'
<1>1. /\ UNCHANGED <<phase, at, left, lost>>
      /\ \A h \in Fans \ {f} : fan'[h] = fan[h]
      /\ fan'[f].enable = BiosMode /\ fan'[f].snapshot = fan[f].snapshot
  BY DriftFacts DEF Typed, process, history
<1>2. \A h \in Fans : (Known(h) => Known(h)') /\ (Home(h) => Home(h)')
  BY <1>1 DEF Known, Home
<1>3. QED
  BY <1>1, <1>2 DEF Snaps, Typed, Control

LEMMA StartSnaps ==
    ASSUME Typed, Start
    PROVE  Snaps' /\ \A f \in Fans : Home(f)'
<1>1. phase' = "starting" /\ UNCHANGED fan /\ lost' = InManual
  BY DEF Start
<1>2. \A f \in Fans : Home(f)'
  BY <1>1, FanAssumption DEF Typed, Channels, FanState, Home, InManual
<1>3. QED
  BY <1>1, <1>2 DEF Snaps

LEMMA SnapsKept ==
    ASSUME Typed, Snaps, [Next]_vars
    PROVE  Snaps'
<1>1. ASSUME NEW how, Die(how) PROVE Snaps'
  BY <1>1 DEF Die, Snaps
<1>2. CASE UNCHANGED <<phase, at, left, fan, lost>>
  BY <1>2 DEF Snaps, Known, Home
<1>3. CASE Arm
  <2>1. CASE phase' = "taking" /\ at' = 1 /\ UNCHANGED <<fan, lost>> /\ phase = "starting"
    BY <2>1, LifecycleAssumption DEF Snaps, Home, Fans
  <2>2. QED
    BY <1>1, <1>3, <2>1 DEF Arm, history
<1>4. CASE Poll
  <2>1. phase = "loop" /\ phase' = "loop" /\ lost' = lost
    BY <1>4 DEF Poll, history
  <2>2. \A f \in Fans : fan'[f].snapshot = fan[f].snapshot
    BY <1>4, PollFacts DEF Typed
  <2>3. QED
    BY <2>1, <2>2 DEF Snaps, Known
<1>5. CASE Register \/ Leave
  BY <1>5 DEF Register, Leave, Snaps, Known, Home, history
<1>6. CASE Refuse \/ Crash \/ Sigterm
  BY <1>1, <1>2, <1>6 DEF Refuse, Crash, Sigterm, DieAsIs, history
<1>7. CASE Tick
  BY <1>1, <1>2, <1>7 DEF Tick, Reboot, SystemdAborts, Pass, process, history, Snaps
<1>8. CASE Disarm
  BY <1>1, <1>8 DEF Disarm
<1>9. CASE UNCHANGED vars
  BY <1>2, <1>9 DEF vars, process, history
<1>10. QED
  BY <1>3, <1>4, <1>5, <1>6, <1>7, <1>8, <1>9, StartSnaps, TakeFanSnaps, RestoreFanSnaps,
     DriftSnaps DEF Next, Daemon

LEMMA SnapsAlways == Spec => []Snaps
<1>1. Init => Snaps
  BY DEF Init, Snaps
<1>2. Typed /\ Snaps /\ [Next]_vars => Snaps'
  BY SnapsKept
<1>3. QED
  BY <1>1, <1>2, TypedAlways, PTL DEF Spec

-----------------------------------------------------------------------------
(* The timer, and the step of the fail-safe that an action is.             *)
LEMMA QuietTimer ==
    ASSUME Timer, UNCHANGED <<phase, fan, wd, lost>>
    PROVE  Timer' /\ UNCHANGED Abstract!vars
BY DEF Timer, Home, InManual, Alive, Abstract!vars

(* The process ends; channels and timer stay.                              *)
LEMMA DeathKeeps ==
    ASSUME Timer, Survives, Alive, NEW how, Die(how), UNCHANGED fan, wd' = AfterClose(wd)
    PROVE  Timer' /\ Abstract!End
<1>1. phase' = "down" /\ wd' = wd /\ lost' = lost
  BY DEF Die, AfterClose, Survives
<1>2. Timer'
  BY <1>1 DEF Timer, Armed, Home
<1>3. Alive /\ ~Alive'
  BY <1>1 DEF Alive
<1>4. (InManual \ lost)' = InManual \ lost
  BY <1>1 DEF InManual
<1>5. QED
  BY <1>1, <1>2, <1>3, <1>4 DEF Abstract!End

LEMMA StartKeeps ==
    ASSUME Typed, Start
    PROVE  Timer' /\ Abstract!Begin
<1>1. /\ phase = "down" /\ phase' = "starting" /\ UNCHANGED fan /\ wd' = wd
      /\ lost' = InManual
  BY DEF Start, watchdog
<1>2. InManual' = InManual
  BY <1>1 DEF InManual
<1>3. Timer'
  BY <1>1, StartSnaps DEF Timer, Armed
<1>4. ~Alive /\ Alive'
  BY <1>1 DEF Alive
<1>5. Abstract!Begin
  BY <1>1, <1>2, <1>4 DEF Abstract!Begin
<1>6. QED
  BY <1>3, <1>5

LEMMA ArmKeeps ==
    ASSUME Survives, Arm
    PROVE  Timer' /\ Abstract!StartTimer
<1>1. /\ phase = "starting" /\ UNCHANGED fan /\ wd' = "running" /\ lost' = lost
  BY DEF Arm, Die, AfterClose, Survives, history
<1>2. Timer'
  BY <1>1 DEF Timer
<1>3. (InManual \ lost)' = InManual \ lost
  BY <1>1 DEF InManual
<1>4. Alive /\ Alive' \in BOOLEAN
  BY <1>1 DEF Alive
<1>5. QED
  BY <1>1, <1>2, <1>3, <1>4 DEF Abstract!StartTimer

LEMMA TakeFanKeeps ==
    ASSUME Typed, Timer, Survives, TakeFan
    PROVE  Timer' /\ (Abstract!TakeOver \/ Abstract!End)
<1>1. /\ phase = "taking" /\ wd = "running" /\ at \in Fans
      /\ \A f \in Fans \ {at} : fan'[f] = fan[f]
  BY TakeFanFacts DEF Typed, Control, Timer, Armed
<1>2. Alive
  BY <1>1 DEF Alive
<1>3. CASE Die("other") /\ wd' = AfterClose(wd) /\ fan'[at].enable = fan[at].enable
  <2>1. phase' = "down" /\ wd' = "running" /\ lost' = lost
    BY <1>1, <1>3 DEF Die, AfterClose, Survives
  <2>2. Timer' /\ ~Alive'
    BY <2>1 DEF Timer, Armed, Alive
  <2>3. InManual' = InManual
    <3>1. \A f \in Fans : fan'[f].enable = fan[f].enable
      BY <1>1, <1>3
    <3>2. QED
      BY <3>1 DEF InManual
  <2>4. QED
    BY <1>1, <1>2, <2>1, <2>2, <2>3 DEF Abstract!End
<1>4. CASE /\ NextTake /\ UNCHANGED <<left, fault, shutdown, wd, sdAge, downAge, history>>
           /\ fan'[at].enable = Manual
  <2>1. wd' = "running" /\ lost' = lost
    BY <1>1, <1>4 DEF history
  <2>2. Timer' /\ Alive'
    BY <1>1, <1>4, <2>1 DEF NextTake, Timer, Armed, Alive
  <2>3. InManual \ lost \subseteq (InManual \ lost)' /\ (InManual \ lost)' \subseteq Fans \ lost
    <3>1. \A f \in Fans : fan[f].enable = Manual => fan'[f].enable = Manual
      BY <1>1, <1>4
    <3>2. QED
      BY <2>1, <3>1 DEF InManual
  <2>4. QED
    BY <1>1, <1>2, <2>1, <2>2, <2>3 DEF Abstract!TakeOver
<1>5. QED
  BY <1>1, <1>3, <1>4, TakeFanFacts DEF Typed

LEMMA PollKeeps ==
    ASSUME Typed, Timer, Poll
    PROVE  Timer' /\ Abstract!TakeOver
<1>1. /\ phase = "loop" /\ phase' = "loop" /\ wd = "running" /\ wd' = wd /\ lost' = lost
  BY DEF Poll, Timer, Armed, history
<1>2. \A f \in Fans : fan'[f].enable = Manual
  BY PollFacts DEF Typed
<1>3. Timer'
  BY <1>1 DEF Timer
<1>4. InManual' = Fans /\ InManual \subseteq Fans
  BY <1>2 DEF InManual
<1>5. Alive /\ Alive'
  BY <1>1 DEF Alive
<1>6. Abstract!TakeOver
  BY <1>1, <1>4, <1>5 DEF Abstract!TakeOver
<1>7. QED
  BY <1>3, <1>6

LEMMA RegisterOrLeaveKeeps ==
    ASSUME Timer, Register \/ Leave
    PROVE  Timer' /\ UNCHANGED Abstract!vars
<1>1. UNCHANGED <<fan, wd, lost>> /\ Alive /\ Alive'
  BY DEF Register, Leave, Alive, watchdog, history
<1>2. Timer'
  BY <1>1 DEF Register, Leave, Timer, Home, Armed
<1>3. QED
  BY <1>1, <1>2 DEF InManual, Abstract!vars

LEMMA RestoreFanKeeps ==
    ASSUME Typed, Snaps, Timer, NEW f \in Fans, RestoreFan(f)
    PROVE  Timer' /\ (Abstract!Release \/ Abstract!GiveUp(f))
<1>1. /\ phase = "restoring" /\ phase' = IF left' = {} THEN "disarming" ELSE "restoring"
      /\ wd' = wd /\ wd = "running"
      /\ \A h \in Fans \ {f} : fan'[h] = fan[h]
      /\ \/ fan'[f].enable = fan[f].snapshot /\ lost' = lost
         \/ fan'[f] = fan[f] /\ lost' = lost \cup {f}
  BY RestoreFacts DEF Typed, watchdog, Timer, Armed
<1>2. Home(f)'
  BY RestoreFanSnaps
<1>4. Timer'
  BY <1>1 DEF Timer
<1>5. Alive /\ Alive'
  BY <1>1 DEF Alive
<1>6. CASE fan'[f].enable = fan[f].snapshot /\ lost' = lost
  <2>1. f \notin (InManual \ lost)'
    BY <1>2, <1>6, FanAssumption DEF Home, InManual
  <2>2. \A h \in Fans \ {f} : fan'[h].enable = fan[h].enable
    BY <1>1
  <2>3. (InManual \ lost)' \subseteq InManual \ lost
    BY <1>6, <2>1, <2>2 DEF InManual
  <2>4. QED
    BY <1>1, <1>4, <1>5, <1>6, <2>3 DEF Abstract!Release
<1>7. CASE fan'[f] = fan[f] /\ lost' = lost \cup {f}
  <2>1. InManual' = InManual
    BY <1>1, <1>7 DEF InManual
  <2>2. QED
    BY <1>1, <1>4, <1>5, <1>7, <2>1 DEF Abstract!GiveUp
<1>8. QED
  BY <1>1, <1>6, <1>7

LEMMA DisarmKeeps ==
    ASSUME Typed, Snaps, Timer, Survives, Disarm
    PROVE  Timer' /\ (Abstract!StopTimer \/ Abstract!End)
<1>1. /\ phase = "disarming" /\ Die("other") /\ UNCHANGED fan
      /\ wd' = "idle" \/ wd' = AfterClose(wd)
  BY DEF Disarm
<1>2. Alive
  BY <1>1 DEF Alive
<1>3. CASE wd' = AfterClose(wd)
  BY <1>1, <1>2, <1>3, DeathKeeps
<1>4. CASE wd' = "idle"
  <2>1. phase' = "down" /\ lost' = lost /\ \A f \in Fans : Home(f)
    BY <1>1 DEF Die, Snaps
  <2>2. \A f \in Fans : Home(f)'
    BY <1>1, <2>1 DEF Home
  <2>3. Timer' /\ ~Alive'
    BY <2>1, <2>2 DEF Timer, Armed, Alive
  <2>4. InManual \ lost = {} /\ InManual' = InManual
    BY <1>1, <2>1, HomeIsNotHeld DEF Held, InManual
  <2>5. Abstract!StopTimer
    BY <1>2, <1>4, <2>1, <2>3, <2>4 DEF Abstract!StopTimer
  <2>6. QED
    BY <2>3, <2>5
<1>5. QED
  BY <1>1, <1>3, <1>4

LEMMA DriftKeeps ==
    ASSUME Typed, Timer, NEW f \in Fans, Drift(f)
    PROVE  Timer' /\ Abstract!Release
<1>1. /\ UNCHANGED <<phase, at, left, wd, lost>>
      /\ \A h \in Fans \ {f} : fan'[h] = fan[h]
      /\ fan'[f].enable = BiosMode /\ fan'[f].snapshot = fan[f].snapshot
  BY DriftFacts DEF Typed, process, watchdog, history
<1>2. \A h \in Fans : Home(h) => Home(h)'
  BY DriftSnaps
<1>3. Timer'
  BY <1>1, <1>2 DEF Timer
<1>4. (InManual \ lost)' \subseteq InManual \ lost
  BY <1>1, FanAssumption DEF InManual
<1>5. Alive' = Alive
  BY <1>1 DEF Alive
<1>6. QED
  BY <1>1, <1>3, <1>4, <1>5 DEF Abstract!Release

LEMMA RebootKeeps ==
    ASSUME Reboot
    PROVE  Timer' /\ Abstract!Reboot
<1>1. /\ phase' = "down" /\ fan' = Booted /\ wd = "running" /\ wd' = "idle" /\ lost' = {}
  BY DEF Reboot, KernelExpires
<1>2. Timer'
  BY <1>1, BootedFacts DEF Timer, Armed, Home
<1>3. InManual' = {} /\ ~Alive'
  BY <1>1, BootedFacts, FanAssumption DEF InManual, Alive
<1>4. QED
  BY <1>1, <1>2, <1>3 DEF Abstract!Reboot

LEMMA EveryStepKeeps ==
    ASSUME Typed, Snaps, Timer, Survives, [Next]_vars
    PROVE  Timer' /\ [Abstract!Next]_Abstract!vars
<1>1. CASE Daemon
  BY <1>1, ArmKeeps, TakeFanKeeps, RegisterOrLeaveKeeps, PollKeeps, RestoreFanKeeps,
     DisarmKeeps DEF Daemon, Abstract!Next
<1>2. CASE Start
  BY <1>2, StartKeeps DEF Abstract!Next
<1>3. ASSUME Alive, NEW how, DieAsIs(how) PROVE Timer' /\ Abstract!End
  BY <1>3, DeathKeeps DEF DieAsIs
<1>4. CASE Refuse \/ Crash \/ Sigterm
  <2>1. Alive
    BY <1>4 DEF Refuse, Crash, Sigterm, Alive
  <2>2. \/ \E how : DieAsIs(how)
        \/ UNCHANGED <<phase, at, left, fan, wd, lost>>
    BY <1>4, Zenon DEF Refuse, Crash, Sigterm, watchdog, history
  <2>3. QED
    BY <1>3, <2>1, <2>2, QuietTimer DEF Abstract!Next
<1>5. CASE Tick
  <2>1. CASE SystemdAborts
    <3>1. Alive /\ Die("other") /\ wd' = AfterClose(wd) /\ UNCHANGED fan
      BY <2>1 DEF SystemdAborts, SystemdExpires, Supervised, Alive
    <3>2. QED
      BY <3>1, DeathKeeps DEF Abstract!Next
  <2>2. CASE Pass
    BY <2>2, QuietTimer DEF Pass, process, history
  <2>3. QED
    BY <1>5, <2>1, <2>2, RebootKeeps DEF Tick, Abstract!Next
<1>6. ASSUME NEW f \in Fans, Drift(f) PROVE Timer' /\ Abstract!Release
  BY <1>6, DriftKeeps
<1>7. CASE UNCHANGED vars
  BY <1>7, QuietTimer DEF vars, process, watchdog, history
<1>8. QED
  BY <1>1, <1>2, <1>4, <1>5, <1>6, <1>7 DEF Next, Abstract!Next

LEMMA TimerAlways ==
    ASSUME Survives
    PROVE  Spec => []Timer
<1>1. Init => Timer
  BY BootedFacts DEF Init, Timer, Armed, Home
<1>2. Typed /\ Snaps /\ Timer /\ [Next]_vars => Timer'
  BY EveryStepKeeps
<1>3. QED
  BY <1>1, <1>2, TypedAlways, SnapsAlways, PTL DEF Spec

-----------------------------------------------------------------------------
(* ADR-0003's window as far as the code closes it: while a fan is in       *)
(* manual mode that was not in it when its process started, and that was   *)
(* not given up, the hardware watchdog runs, whatever dies, refuses, fails *)
(* or is restarted, and however soon.                                      *)
THEOREM AlwaysGuarded ==
    ASSUME Survives
    PROVE  Spec => []Guarded
<1>1. Typed /\ Timer => Guarded
  BY HomeIsNotHeld DEF Typed, Timer, Guarded, Held
<1>2. QED
  BY <1>1, TypedAlways, TimerAlways, PTL

(* A daemon past its takeover can give every fan back to the firmware that *)
(* the firmware had when the daemon started (ADR-0002), on any driver,     *)
(* after any restart: no other way leads to a snapshot of manual mode.     *)
THEOREM SnapshotsCanRestore == Spec => []SnapshotsAreFirmware
<1>1. Snaps => SnapshotsAreFirmware
  BY DEF Snaps, Known, SnapshotsAreFirmware
<1>2. QED
  BY <1>1, SnapsAlways, PTL

(* The life cycle implements the abstract fail-safe.                       *)
THEOREM LifeImplementsFailSafe ==
    ASSUME Survives
    PROVE  Spec => FailSafeSpec
<1>1. Init => Abstract!Init
  <2>1. ASSUME Init PROVE Abstract!Init
    <3>1. InManual = {} /\ lost = {} /\ wd = "idle" /\ ~Alive
      BY <2>1, BootedFacts, FanAssumption DEF Init, InManual, Alive
    <3>2. QED
      BY <3>1 DEF Abstract!Init
  <2>2. QED
    BY <2>1
<1>2. Typed /\ Snaps /\ Timer /\ [Next]_vars => [Abstract!Next]_Abstract!vars
  BY EveryStepKeeps
<1>3. QED
  BY <1>1, <1>2, TypedAlways, SnapsAlways, TimerAlways, PTL DEF Spec, FailSafeSpec, Abstract!Spec

-----------------------------------------------------------------------------
(* What would close the window word for word: a RestartSec no shorter than *)
(* any timeout, and restores that do not fail.  Then a process has ended   *)
(* no longer ago than the watchdog was fed last, and the next one finds    *)
(* the watchdog expired and the channels back with the firmware.           *)
SlowRestarts ==
    /\ "restore_fails" \notin Hazards
    /\ \A t \in Timeouts \cup {DriverTimeout} : t <= RestartDelay

Clocks ==
    /\ phase = "down" /\ wd = "running" => downAge <= wdAge
    /\ phase = "starting" => wd = "idle"
    /\ lost = {}

LEMMA StartsLate ==
    ASSUME Ages, Typed, Timer, Clocks, SlowRestarts, Start
    PROVE  Clocks'
<1>1. /\ phase = "down" /\ downAge >= RestartDelay /\ phase' = "starting"
      /\ wd' = wd /\ lost' = InManual
  BY DEF Start, watchdog
<1>2. /\ limit \in Nat \ {0} /\ limit <= RestartDelay /\ RestartDelay \in Nat
      /\ wdAge \in 0..(limit - 1) /\ downAge \in 0..RestartDelay
  BY LifecycleAssumption DEF Ages, SlowRestarts
<1>3. wd = "idle"
  <2>1. ~(downAge <= wdAge)
    BY <1>1, <1>2
  <2>2. QED
    BY <1>1, <2>1 DEF Clocks, Typed
<1>4. InManual = {}
  BY <1>3, HomeIsNotHeld DEF Timer, Clocks, Held
<1>5. QED
  BY <1>1, <1>3, <1>4 DEF Clocks

LEMMA RestoresWork ==
    ASSUME Typed, Snaps, Clocks, SlowRestarts, NEW f \in Fans, RestoreFan(f)
    PROVE  lost' = {}
<1>1. PICK fails \in {"none"} :
         lost' = IF Restore(fan[f], fails).ok THEN lost ELSE lost \cup {f}
  BY Zenon DEF RestoreFan, SlowRestarts
<1>2. fan[f].snapshot = BiosMode /\ BiosMode # NoSnapshot
  BY FanAssumption DEF RestoreFan, Snaps, Known, Clocks
<1>3. Restore(fan[f], fails).ok
  BY <1>1, <1>2 DEF Restore, Done
<1>4. QED
  BY <1>1, <1>3 DEF Clocks

LEMMA ClocksKept ==
    ASSUME Ages, Ages', Typed, Snaps, Timer, Clocks, Survives, SlowRestarts, [Next]_vars
    PROVE  Clocks'
<1>1. wdAge \in Nat /\ wdAge' \in Nat /\ downAge \in Nat
  BY LifecycleAssumption DEF Ages
<1>2. ASSUME NEW how, Die(how) PROVE Clocks'
  BY <1>1, <1>2 DEF Die, Clocks
<1>3. CASE UNCHANGED <<phase, wd, wdAge, downAge, lost>>
  BY <1>3 DEF Clocks
<1>4. CASE Pass
  <2>1. /\ UNCHANGED <<phase, wd, lost>>
        /\ wdAge' = IF wd = "running" THEN wdAge + 1 ELSE wdAge
        /\ downAge' = IF ~Alive /\ downAge < RestartDelay THEN downAge + 1 ELSE downAge
    BY <1>4 DEF Pass, WatchdogAges, process, history
  <2>2. QED
    BY <1>1, <2>1 DEF Clocks
<1>5. CASE phase' \notin {"down", "starting"} /\ lost' = lost
  BY <1>5 DEF Clocks
<1>6. CASE TakeFan
  <2>1. Die("other") \/ (NextTake /\ UNCHANGED <<left, fault, shutdown, wd, sdAge, downAge, history>>)
    BY <1>6, Zenon DEF TakeFan
  <2>2. phase = "taking"
    BY <1>6 DEF TakeFan
  <2>3. QED
    BY <1>2, <1>5, <2>1, <2>2 DEF NextTake, history
<1>7. ASSUME NEW f \in Fans, RestoreFan(f) PROVE Clocks'
  <2>1. phase' \notin {"down", "starting"}
    BY <1>7 DEF RestoreFan
  <2>2. QED
    BY <1>7, <2>1, RestoresWork DEF Clocks
<1>8. CASE Arm \/ Register \/ Poll \/ Leave \/ Disarm
  BY <1>2, <1>5, <1>8 DEF Arm, Register, Poll, Leave, Disarm, history
<1>9. CASE Refuse \/ Crash \/ Sigterm
  BY <1>2, <1>3, <1>9 DEF Refuse, Crash, Sigterm, DieAsIs, watchdog, history
<1>10. CASE Reboot \/ SystemdAborts
  BY <1>2, <1>10 DEF Reboot, SystemdAborts, Clocks
<1>11. ASSUME NEW f \in Fans, Drift(f) PROVE Clocks'
  BY <1>3, <1>11 DEF Drift, process, watchdog, history
<1>12. CASE UNCHANGED vars
  BY <1>3, <1>12 DEF vars, process, watchdog, history
<1>13. QED
  BY <1>4, <1>6, <1>7, <1>8, <1>9, <1>10, <1>11, <1>12, StartsLate DEF Next, Daemon, Tick

(* ADR-0003's window, closed word for word.                                *)
THEOREM SlowRestartsLeaveNoWindow ==
    ASSUME Survives, SlowRestarts
    PROVE  Spec => []NoWindow
<1>1. TypeOK => Ages
  BY TypeParts
<1>2. Spec => []Ages
  BY <1>1, LifeTypes, PTL
<1>3. Init => Clocks
  BY DEF Init, Clocks
<1>4. Ages /\ Ages' /\ Typed /\ Snaps /\ Timer /\ Clocks /\ [Next]_vars => Clocks'
  BY ClocksKept
<1>5. Spec => []Clocks
  BY <1>2, <1>3, <1>4, TypedAlways, SnapsAlways, TimerAlways, PTL DEF Spec
<1>6. Guarded /\ Clocks => NoWindow
  BY DEF Guarded, Clocks, NoWindow
<1>7. QED
  BY <1>5, <1>6, AlwaysGuarded, PTL

-----------------------------------------------------------------------------
(* While systemd supervises the daemon its clock is never ahead of the     *)
(* kernel's: the timer was started first, and a poll feeds both or none.   *)
Pace ==
    /\ phase \in {"taking", "ready", "loop"} => wd = "running"
    /\ Supervised => sdAge <= wdAge
    /\ phase \in {"down", "starting", "taking"} => sdAge = 0

LEMMA PaceKept ==
    ASSUME Ages, Ages', Pace, [Next]_vars
    PROVE  Pace'
<1>1. wdAge \in Nat /\ wdAge' \in Nat /\ sdAge \in Nat
  BY LifecycleAssumption DEF Ages
<1>2. ASSUME NEW how, Die(how) PROVE Pace'
  BY <1>2 DEF Die, Pace, Supervised
<1>3. CASE UNCHANGED <<phase, wd, wdAge, sdAge>>
  BY <1>3 DEF Pace, Supervised
<1>4. CASE Pass
  BY <1>1, <1>4 DEF Pass, WatchdogAges, process, Pace, Supervised
<1>5. CASE TakeFan
  <2>1. Die("other") \/ (NextTake /\ UNCHANGED <<left, fault, shutdown, wd, sdAge, downAge, history>>)
    BY <1>5, Zenon DEF TakeFan
  <2>2. phase = "taking" /\ wdAge' = wdAge
    BY <1>5 DEF TakeFan
  <2>3. CASE NextTake /\ wd' = wd /\ sdAge' = sdAge
    <3>1. phase' \in {"taking", "ready"}
      BY <2>2, <2>3 DEF NextTake
    <3>2. QED
      BY <1>1, <2>2, <2>3, <3>1 DEF Pace, Supervised
  <2>4. QED
    BY <1>2, <2>1, <2>3
<1>6. ASSUME NEW f \in Fans, RestoreFan(f) PROVE Pace'
  BY <1>6 DEF RestoreFan, Pace, Supervised
<1>7. CASE Poll
  BY <1>1, <1>7 DEF Poll, Pace, Supervised
<1>8. CASE Arm
  BY <1>2, <1>8 DEF Arm, Pace, Supervised
<1>9. CASE Register \/ Leave \/ Start
  BY <1>1, <1>9 DEF Register, Leave, Start, watchdog, Pace, Supervised
<1>10. CASE Refuse \/ Crash \/ Sigterm \/ Disarm \/ SystemdAborts
  BY <1>2, <1>3, <1>10
     DEF Refuse, Crash, Sigterm, Disarm, SystemdAborts, DieAsIs, watchdog
<1>11. CASE Reboot
  BY <1>11 DEF Reboot, Pace, Supervised
<1>12. ASSUME NEW f \in Fans, Drift(f) PROVE Pace'
  BY <1>3, <1>12 DEF Drift, process, watchdog
<1>13. CASE UNCHANGED vars
  BY <1>3, <1>13 DEF vars, process, watchdog
<1>14. QED
  BY <1>4, <1>5, <1>6, <1>7, <1>8, <1>9, <1>10, <1>11, <1>12, <1>13 DEF Next, Daemon, Tick

(* systemd never aborts the daemon ahead of the kernel's reboot when the   *)
(* kernel's timeout is within WatchdogSec, so that no restart forgets a    *)
(* fault for which the daemon has gone silent.                             *)
THEOREM KernelIsFirst == Spec => KernelBeforeSystemd
<1>1. TypeOK => Ages
  BY TypeParts
<1>2. Spec => []Ages
  BY <1>1, LifeTypes, PTL
<1>3. Init => Pace
  BY DEF Init, Pace, Supervised
<1>4. Ages /\ Ages' /\ Pace /\ [Next]_vars => Pace'
  BY PaceKept
<1>5. Ages /\ Pace => [SystemdAborts => limit > SystemdTimeout]_vars
  <2>1. ASSUME Ages, Pace, SystemdAborts PROVE limit > SystemdTimeout
    <3>1. wd = "running" /\ sdAge <= wdAge /\ sdAge + 1 = SystemdTimeout /\ wdAge + 1 # limit
      BY <2>1 DEF Pace, SystemdAborts, SystemdExpires, KernelExpires, Supervised
    <3>2. limit \in Nat \ {0} /\ wdAge \in 0..(limit - 1) /\ sdAge \in Nat /\ SystemdTimeout \in Nat
      BY <2>1, LifecycleAssumption DEF Ages
    <3>3. QED
      BY <3>1, <3>2
  <2>2. QED
    BY <2>1
<1>6. QED
  BY <1>2, <1>3, <1>4, <1>5, PTL DEF Spec, KernelBeforeSystemd
=============================================================================
