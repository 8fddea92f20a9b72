------------------------------ MODULE MCKernel ------------------------------
(* The parts that all modules stand on, and what watches and renews the    *)
(* device, side by side: a behaviour exercises one of them, against what   *)
(* the others promise.                                                     *)
EXTENDS PulsePersistence, Startup, DataEvents, Alarms, ReleaseUpgrade

VARIABLE part

MCTasks == <<0, 1, 2>>
MCOn    == <<1, 0>>
MCOff   == <<0, 1>>

vars == <<pulseVars, startupVars, dataVars, alarmVars, upgradeVars, part>>

Init ==
    /\ part \in {"pulses", "startup", "data", "alarms", "upgrade"}
    /\ PulseInit /\ StartupInit /\ DataInit /\ AlarmInit /\ UpgradeInit
    /\ part # "startup" => needs = [m \in Registered |-> {}]

Next ==
    /\ \/ /\ part = "pulses" /\ PulseNext
          /\ UNCHANGED <<startupVars, dataVars, alarmVars, upgradeVars>>
       \/ /\ part = "startup" /\ StartupNext
          /\ UNCHANGED <<pulseVars, dataVars, alarmVars, upgradeVars>>
       \/ /\ part = "data" /\ DataNext
          /\ UNCHANGED <<pulseVars, startupVars, alarmVars, upgradeVars>>
       \/ /\ part = "alarms" /\ AlarmNext
          /\ UNCHANGED <<pulseVars, startupVars, dataVars, upgradeVars>>
       \/ /\ part = "upgrade" /\ UpgradeNext
          /\ UNCHANGED <<pulseVars, startupVars, dataVars, alarmVars>>
    /\ UNCHANGED part

(* The fairness of each part: PulseFairness and the like.  The alarms task *)
(* can always go on: its weak fairness is that its passes begin and end.   *)
Spec ==
    /\ Init
    /\ [][Next]_vars
    /\ WF_pulseVars(part = "pulses" /\ IoTask)
    /\ WF_pulseVars(part = "pulses" /\ Write)
    /\ WF_pulseVars(part = "pulses" /\ Loop /\ receipt' = "Pending")
    /\ WF_startupVars(part = "startup" /\ Sequencer)
    /\ WF_startupVars(part = "startup" /\ Confirm)
    /\ \A m \in Registered : WF_startupVars(part = "startup" /\ Elapse(m))
    /\ WF_dataVars(part = "data" /\ BusStep)
    /\ \A c \in Consumers : WF_dataVars(part = "data" /\ ConsumerStep(c))
    /\ \A k \in Keys : WF_dataVars(part = "data" /\ notifyChanged(k))
    /\ \A begun \in BOOLEAN : []<>(part = "alarms" => (pass.at # 0) = begun)
    /\ WF_upgradeVars(part = "upgrade" /\ Abandon)
    /\ WF_upgradeVars(part = "upgrade" /\ RestartDevice)
    /\ WF_upgradeVars(part = "upgrade" /\ BootStep)
    /\ WF_upgradeVars(part = "upgrade" /\ RemoteStep)
    /\ WF_upgradeVars(
           /\ part = "upgrade"
           /\ Begun \/ CommitReceipt \/ SelectRelease \/ Restore \/ CancelReceipt)

(* What must happen in the end: counters reach NVS, the modules come up,   *)
(* changes are told, alarms repeated, the updater freed.                   *)
EndsWell == CatchesUp /\ ComesUp /\ EachHasItsTurn /\ Reminds /\ UpdaterFreed
=============================================================================
