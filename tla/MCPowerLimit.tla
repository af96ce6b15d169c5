---------------------------- MODULE MCPowerLimit ----------------------------
(***************************************************************************)
(* Small instances of PowerLimit, and for how many polls each GPU has been *)
(* above its limit.  In watts: the driver admits 100 to 250, the default   *)
(* is 250; configurations ask for 150 or 200, and one for 300, which only  *)
(* a reload can bring into force.  MCNext is PowerLimit's Next, action by  *)
(* action, with the count kept.                                            *)
(***************************************************************************)
EXTENDS PowerLimit

VARIABLE exposed    \* gpu -> polls

Two(first, second, watts, interval, restore, structure) ==
    [enabled |-> <<first, second>>, watts |-> <<watts, 150>>,
     interval |-> interval, restore |-> restore, structure |-> structure]

(* Two GPUs: both limited; a longer interval and a limit out of range; the *)
(* first one released; and a file of another structure, which only a start *)
(* takes over.                                                             *)
MCStructures == {"one", "other"}
MCConfigs == {Two(TRUE, TRUE, 150, 1, FALSE, "one"), Two(TRUE, FALSE, 300, 2, FALSE, "one"),
              Two(FALSE, TRUE, 200, 2, TRUE, "one"), Two(TRUE, FALSE, 200, 1, TRUE, "other")}

(* The second foreign value reads as 150 W.                                *)
MCForeign == {250000, 150500}

Above(g) == Looping /\ live.enabled[g] /\ Watts(limit[g]) > live.watts[g]
Longest == (GpuThreshold + 1) * MaxInterval

MCInit == Init /\ exposed = [g \in Gpus |-> 0]
Track ==
    exposed' = [g \in Gpus |->
        IF ~Above(g)' THEN 0
        ELSE IF phase = "sleep" /\ phase' = "top" /\ exposed[g] <= Longest
             THEN exposed[g] + 1 ELSE exposed[g]]

MCNext ==
    \/ Start /\ Track
    \/ Apply /\ Track
    \/ LoopTop /\ Track
    \/ CheckPower /\ Track
    \/ Sleep /\ Track
    \/ Restore /\ Track
    \/ Edit /\ Track
    \/ Sighup /\ Track
    \/ Sigterm /\ Track
    \/ Crash /\ Track
    \/ Reboot /\ Track
    \/ \E g \in Gpus : ForeignWrite(g) /\ Track

MCSpec == MCInit /\ [][MCNext]_<<vars, exposed>> /\ WF_<<vars, exposed>>(Loop /\ Track)

(* PSU protection: while no fault stands a GPU that opted in is above its  *)
(* limit for at most threshold + 1 check intervals in a row, through       *)
(* failing reads and sets, reloads of limit and interval, and limits that  *)
(* are switched off and on again.                                          *)
ExposureBounded == \A g \in Gpus : exposed[g] > Longest => anyFault
=============================================================================
