---------------------------- MODULE ReleaseUpgrade ----------------------------
(***************************************************************************)
(* FirmwareUpdateModule and ReleaseStorage: two pairs of an application    *)
(* and its file system.  A release received over the local network is      *)
(* written to the pair that does not run, checked, committed and booted;   *)
(* the older remote routes write an application, over a copy of the        *)
(* running file system, or the running file system in place.  Power may    *)
(* fail between any two writes.  An application that boots for the first   *)
(* time is pending until the program confirms it; else the boot loader     *)
(* goes back to the other one at the next reset.                           *)
(*                                                                         *)
(* The boot loader and esp_ota are external.  The uploads come in two      *)
(* chunks.  Progress, the web interface and the Nextion route are left     *)
(* out.                                                                    *)
(*                                                                         *)
(* The operators that no action uses (SelectedSlot, WhenUploading...) are  *)
(* mistakes easily made here, kept beside the definition they would        *)
(* replace: each breaks a property below.                                  *)
(***************************************************************************)
EXTENDS Integers, FiniteSets

CONSTANTS
    Installed,         \* the version of the pair delivered
    Newer,             \* the versions of the images on offer
    MaxReleases,       \* bound on the updates asked for
    MaxUpgradeFaults   \* bound on power cuts and on writes or checks that fail

Versions == {Installed} \cup Newer
Partitions == {"A", "B"}
other(s) == IF s = "A" THEN "B" ELSE "A"
Torn == {"Blank", "InPlace"}  \* not whole: never written or being written

Chunks == 2

ASSUME UpgradeAssumption ==
    /\ Versions \cap Torn = {} /\ MaxReleases \in Nat /\ MaxUpgradeFaults \in Nat

VARIABLES
    app, fs,  \* per slot the version of the image, or why there is none
    ota,      \* esp_ota_img_states of each application
    boot,     \* the slot that otadata selects
    run,      \* the slot that runs
    power,    \* Off, Setup, Halted or Up
    recorded,  \* FirmwareUpdateReceipt in the NVS, with its route
    release,  \* localRelease_
    hand,     \* how far the holder of localReleaseMutex_ is between two writes
    job,      \* updateStartPending_, queuedJob_, busy_ and runJob_
    leftBehind, \* history: a failure left the slot of its update selected
    overwritten, \* history: an update began to write over the other slot before
                 \* the running application was confirmed
    asked, mishaps

flash == <<app, fs, ota, boot>>
history == <<leftBehind, overwritten>>
upgradeVars == <<app, fs, ota, boot, run, power, recorded, release, hand, job, leftBehind,
                 overwritten, asked, mishaps>>

NoRelease == [stage |-> "Idle", version |-> Installed, image |-> Installed, received |-> 0,
              intact |-> FALSE, rebootPending |-> FALSE]
NoJob == [step |-> "None", target |-> "Waveshare", version |-> Installed]

SelectedSlot == boot

inactiveSlot == other(run)

Mishap == mishaps < MaxUpgradeFaults /\ mishaps' = mishaps + 1

persistReceipt(route, state) == recorded' = [route |-> route, state |-> state]

(* Nobody looks whether a failure could be written down.                   *)
reportFailure(route) == persistReceipt(route, "Failed") \/ UNCHANGED recorded
-----------------------------------------------------------------------------
(* The local release.  localReleaseActive_ is not (stage = "Idle").        *)
QuietUpdater == job.step \in {"None", "Starting"} /\ release.stage = "Idle"

UpdaterFree == job.step = "None" /\ release.stage = "Idle"

BeginRelease(version, image) ==
    /\ power = "Up" /\ hand = "Free" /\ UpdaterFree /\ asked < MaxReleases
    /\ asked' = asked + 1
    /\ release' = [NoRelease EXCEPT !.stage = "Prepared", !.version = version, !.image = image]
    /\ hand' = "Begin"
    /\ UNCHANGED <<flash, run, power, recorded, job, mishaps, history>>

(* The checkpoint of the counters, then the receipt.                       *)
Begun ==
    /\ hand = "Begin" /\ hand' = "Free"
    /\ \/ persistReceipt("local", "Running") /\ UNCHANGED <<release, mishaps>>
       \/ Mishap /\ release' = NoRelease /\ UNCHANGED recorded
    /\ UNCHANGED <<flash, run, power, job, asked, history>>

Fail == release' = [release EXCEPT !.stage = "Error"]

Confirmed == ota[run] \notin {"New", "Pending"}

(* The other slot is erased, be it what an application that is not         *)
(* confirmed would fall back to.                                           *)
BeginFilesystem ==
    /\ hand = "Free" /\ release.stage = "Prepared"
    /\ fs' = [fs EXCEPT ![inactiveSlot] = "Blank"]
    /\ release' = [release EXCEPT !.stage = "WritingFilesystem", !.received = 0, !.intact = TRUE]
    /\ overwritten' = (overwritten \/ ~Confirmed)
    /\ UNCHANGED <<app, ota, boot, run, power, recorded, hand, job, asked, mishaps, leftBehind>>

(* esp_ota_begin refuses while the running application is pending.         *)
BeginFirmware ==
    /\ hand = "Free" /\ release.stage = "FilesystemVerified"
    /\ IF ota[run] = "Pending" THEN Fail /\ UNCHANGED app
       ELSE /\ app' = [app EXCEPT ![inactiveSlot] = "Blank"]
            /\ release' = [release EXCEPT !.stage = "WritingFirmware", !.received = 0,
                                          !.intact = TRUE]
    /\ UNCHANGED <<fs, ota, boot, run, power, recorded, hand, job, asked, mishaps, history>>

(* A chunk in order; what arrives may not be what the manifest announced.  *)
Fill(image, stage, good) ==
    IF release.stage = stage /\ release.received + 1 = Chunks /\ release.intact /\ good
    THEN [image EXCEPT ![inactiveSlot] = IF stage = "WritingFilesystem" THEN release.image
                                         ELSE release.version]
    ELSE image

AlwaysMore == TRUE

MoreExpected == release.received < Chunks

WriteImage(good) ==
    /\ hand = "Free" /\ release.stage \in {"WritingFilesystem", "WritingFirmware"}
    /\ MoreExpected
    /\ release' = [release EXCEPT !.received = @ + 1, !.intact = @ /\ good]
    /\ fs' = Fill(fs, "WritingFilesystem", good)
    /\ app' = Fill(app, "WritingFirmware", good)
    /\ IF good THEN UNCHANGED mishaps ELSE Mishap
    /\ UNCHANGED <<ota, boot, run, power, recorded, hand, job, asked, history>>

(* A chunk or an end that the stage does not expect, or a failing write:   *)
(* the release has failed, also when it is committed already.              *)
OutOfOrder ==
    /\ hand = "Free" /\ release.stage \notin {"Idle", "Error"} /\ Mishap
    /\ Fail
    /\ UNCHANGED <<flash, run, power, recorded, hand, job, asked, history>>

ImageAccepted ==
    release.intact /\ (release.stage = "WritingFilesystem" => release.image = release.version)

EndImage ==
    /\ hand = "Free" /\ release.stage \in {"WritingFilesystem", "WritingFirmware"}
    /\ release.received = Chunks
    /\ IF ~ImageAccepted THEN Fail
       ELSE release' = [release EXCEPT !.received = 0, !.stage =
                           IF @ = "WritingFilesystem" THEN "FilesystemVerified"
                           ELSE "FirmwareVerified"]
    /\ UNCHANGED <<flash, run, power, recorded, hand, job, asked, mishaps, history>>

(* The commit: checkpoint, receipt, selection.  After a failing checkpoint *)
(* it can be asked again.                                                  *)
Commit ==
    /\ hand = "Free" /\ release.stage = "FirmwareVerified"
    /\ \/ hand' = "Committing" /\ UNCHANGED mishaps
       \/ Mishap /\ UNCHANGED hand
    /\ UNCHANGED <<flash, run, power, recorded, release, job, asked, history>>

CommitReceipt ==
    /\ hand = "Committing"
    /\ \/ persistReceipt("local", "RebootPending") /\ hand' = "Selecting"
          /\ UNCHANGED <<release, mishaps>>
       \/ Mishap /\ Fail /\ hand' = "Free" /\ UNCHANGED recorded
    /\ UNCHANGED <<flash, run, power, job, asked, history>>

SelectRelease ==
    /\ hand = "Selecting" /\ hand' = "Free"
    /\ \/ /\ boot' = inactiveSlot /\ ota' = [ota EXCEPT ![inactiveSlot] = "New"]
          /\ release' = [release EXCEPT !.stage = "ReadyToBoot", !.rebootPending = TRUE]
          /\ overwritten' = FALSE /\ UNCHANGED <<recorded, mishaps>>
       \/ /\ Mishap /\ reportFailure("local") /\ Fail
          /\ UNCHANGED <<boot, ota, overwritten>>
    /\ UNCHANGED <<app, fs, run, power, job, asked, leftBehind>>

(* The updater loop: 1.8 s later, a second checkpoint.  If it fails, the   *)
(* running application is selected again, and the receipt says failed.     *)
RebootCancelled ==
    /\ hand = "Free" /\ release.rebootPending /\ Mishap
    /\ release' = [release EXCEPT !.rebootPending = FALSE] /\ hand' = "Restoring"
    /\ UNCHANGED <<flash, run, power, recorded, job, asked, history>>

LeftSelected == UNCHANGED <<boot, ota>>

Reselect == boot' = run /\ ota' = [ota EXCEPT ![run] = "New"]

Restore ==
    /\ hand = "Restoring" /\ hand' = "Restored"
    /\ Reselect
    /\ UNCHANGED <<app, fs, run, power, recorded, release, job, asked, mishaps, history>>

RestoreFails ==
    /\ hand = "Restoring" /\ hand' = "Restored" /\ Mishap
    /\ leftBehind' = TRUE
    /\ UNCHANGED <<flash, run, power, recorded, release, job, asked, overwritten>>

CancelReceipt ==
    /\ hand = "Restored" /\ hand' = "Free"
    /\ Fail /\ reportFailure("local")
    /\ UNCHANGED <<flash, run, power, job, history, asked, mishaps>>

(* The web interface aborts, or nothing came for two minutes.              *)
WhenUploading == release.stage \in {"Prepared", "WritingFilesystem", "WritingFirmware"}

MayBeDropped == release.stage # "Idle" /\ ~release.rebootPending

Abandon ==
    /\ hand = "Free" /\ MayBeDropped
    /\ release' = NoRelease
    /\ reportFailure("local")
    /\ UNCHANGED <<flash, run, power, hand, job, asked, mishaps, history>>
-----------------------------------------------------------------------------
(* The remote routes: startUpdate_, then runJob_ in the updater loop.      *)
StartUpdate(target, version) ==
    /\ power = "Up" /\ UpdaterFree /\ asked < MaxReleases
    /\ asked' = asked + 1
    /\ job' = [step |-> "Starting", target |-> target, version |-> version]
    /\ UNCHANGED <<flash, run, power, recorded, release, hand, mishaps, history>>

Queue ==
    /\ job.step = "Starting"
    /\ \/ persistReceipt("remote", "Running") /\ job' = [job EXCEPT !.step = "Queued"]
          /\ UNCHANGED mishaps
       \/ Mishap /\ job' = NoJob /\ UNCHANGED recorded
    /\ UNCHANGED <<flash, run, power, release, hand, asked, history>>

(* The running file system is copied to the other slot first.              *)
TakeJob ==
    /\ job.step = "Queued"
    /\ job' = [job EXCEPT !.step = IF job.target = "Spiffs" THEN "InPlace"
                                   ELSE "Cloning"]
    /\ fs' = IF job.target = "Spiffs" THEN [fs EXCEPT ![run] = "InPlace"]
             ELSE [fs EXCEPT ![inactiveSlot] = "Blank"]
    /\ overwritten' = (overwritten \/ (job.target # "Spiffs" /\ ~Confirmed))
    /\ UNCHANGED <<app, ota, boot, run, power, recorded, release, hand, asked, mishaps, leftBehind>>

Clone ==
    /\ job.step = "Cloning" /\ job' = [job EXCEPT !.step = "Flashing"]
    /\ fs' = [fs EXCEPT ![inactiveSlot] = fs[run]]
    /\ app' = [app EXCEPT ![inactiveSlot] = "Blank"]
    /\ UNCHANGED <<ota, boot, run, power, recorded, release, hand, asked, mishaps, history>>

(* Update.end selects the application.                                     *)
Flashed ==
    /\ job.step = "Flashing" /\ job' = [job EXCEPT !.step = "Finishing"]
    /\ app' = [app EXCEPT ![inactiveSlot] = job.version]
    /\ boot' = inactiveSlot /\ ota' = [ota EXCEPT ![inactiveSlot] = "New"]
    /\ overwritten' = FALSE
    /\ UNCHANGED <<fs, run, power, recorded, release, hand, asked, mishaps, leftBehind>>

FlashedInPlace ==
    /\ job.step = "InPlace" /\ job' = [job EXCEPT !.step = "Finishing"]
    /\ fs' = [fs EXCEPT ![run] = job.version]
    /\ UNCHANGED <<app, ota, boot, run, power, recorded, release, hand, asked, mishaps, history>>

FinishReceipt ==
    /\ job.step = "Finishing" /\ job' = [job EXCEPT !.step = "Leaving"]
    /\ persistReceipt("remote", "RebootPending")
    /\ UNCHANGED <<flash, run, power, release, hand, asked, mishaps, history>>

(* Any step of the job fails, the last checkpoint too.                     *)
FailJob ==
    /\ job.step \notin {"None", "Starting"} /\ Mishap
    /\ job' = NoJob /\ reportFailure("remote")
    /\ leftBehind' = (leftBehind \/ (boot # run /\ job.step \in {"Finishing", "Leaving"}))
    /\ UNCHANGED <<flash, run, power, release, hand, asked, overwritten>>
-----------------------------------------------------------------------------
(* The RAM is lost.                                                        *)
GoOff == power' = "Off" /\ release' = NoRelease /\ hand' = "Free" /\ job' = NoJob

RestartDevice ==
    /\ hand = "Free" /\ (release.rebootPending \/ job.step = "Leaving")
    /\ GoOff
    /\ UNCHANGED <<flash, run, recorded, asked, mishaps, history>>

PowerCut ==
    /\ power # "Off" /\ Mishap
    /\ GoOff
    /\ UNCHANGED <<flash, run, recorded, asked, history>>

(* The boot loader: an application that was not confirmed, or that is not  *)
(* whole, gives way to the other one.                                      *)
Candidate == IF ota[boot] = "Pending" THEN other(boot) ELSE boot
BootSlot == IF app[Candidate] \in Torn THEN other(Candidate) ELSE Candidate

Boot ==
    /\ power = "Off" /\ power' = "Setup"
    /\ run' = BootSlot /\ boot' = BootSlot
    /\ ota' = [s \in Partitions |-> IF s = BootSlot /\ ota[s] = "New" THEN "Pending"
                               ELSE IF s = boot /\ ota[s] = "Pending" THEN "Invalid"
                               ELSE ota[s]]
    /\ leftBehind' = FALSE
    /\ UNCHANGED <<app, fs, recorded, release, hand, job, asked, mishaps, overwritten>>

(* Setup mounts the file system of the slot, and the receipt of the        *)
(* operation before is finalised.                                          *)
AfterBoot ==
    IF recorded.state = "RebootPending" THEN "Succeeded"
    ELSE IF recorded.state = "Running" THEN "Interrupted" ELSE recorded.state

Mount ==
    /\ power = "Setup" /\ fs[run] \notin Torn /\ power' = "Up"
    /\ persistReceipt(recorded.route, AfterBoot)
    /\ UNCHANGED <<flash, run, release, hand, job, asked, mishaps, history>>

MayRollBack == app[inactiveSlot] \notin Torn /\ ota[inactiveSlot] # "Invalid"
RollBack == ota' = [ota EXCEPT ![run] = "Invalid"] /\ boot' = inactiveSlot

MountFails ==
    /\ power = "Setup" /\ fs[run] \in Torn
    /\ IF ota[run] = "Pending" /\ MayRollBack
       THEN RollBack /\ power' = "Off"
       ELSE power' = "Halted" /\ UNCHANGED <<ota, boot>>
    /\ UNCHANGED <<app, fs, run, recorded, release, hand, job, asked, mishaps, history>>

(* Once all modules are released, which may never be.                      *)
ConfirmApplication ==
    /\ power = "Up" /\ ota[run] = "Pending" /\ fs[run] = app[run]
    /\ ota' = [ota EXCEPT ![run] = "Valid"] /\ overwritten' = FALSE
    /\ UNCHANGED <<app, fs, boot, run, power, recorded, release, hand, job, asked, mishaps, leftBehind>>

RejectApplication ==
    /\ power = "Up" /\ ota[run] = "Pending" /\ fs[run] # app[run] /\ MayRollBack
    /\ RollBack /\ GoOff
    /\ UNCHANGED <<app, fs, run, recorded, asked, mishaps, history>>

(* The peer may keep silent.                                               *)
StayUp ==
    /\ power \in {"Halted", "Up"}
    /\ UNCHANGED upgradeVars
-----------------------------------------------------------------------------
UpgradeInit ==
    /\ app = [s \in Partitions |-> IF s = "A" THEN Installed ELSE "Blank"]
    /\ fs = [s \in Partitions |-> IF s = "A" THEN Installed ELSE "Blank"]
    /\ ota = [s \in Partitions |-> "Valid"] /\ boot = "A" /\ run = "A" /\ power = "Up"
    /\ recorded = [route |-> "none", state |-> "None"]
    /\ release = NoRelease /\ hand = "Free" /\ job = NoJob
    /\ leftBehind = FALSE /\ overwritten = FALSE /\ asked = 0 /\ mishaps = 0

LocalStep ==
    \/ Begun \/ BeginFilesystem \/ BeginFirmware \/ OutOfOrder \/ EndImage \/ Commit
    \/ CommitReceipt \/ SelectRelease \/ RebootCancelled \/ Restore \/ RestoreFails
    \/ CancelReceipt \/ Abandon
    \/ \E good \in BOOLEAN : WriteImage(good)

RemoteStep ==
    \/ Queue \/ TakeJob \/ Clone \/ Flashed \/ FlashedInPlace \/ FinishReceipt \/ FailJob

BootStep == Boot \/ Mount \/ MountFails

UpgradeNext ==
    \/ \E version, image \in Newer : BeginRelease(version, image)
    \/ \E target \in {"Waveshare", "Spiffs"}, version \in Newer : StartUpdate(target, version)
    \/ LocalStep \/ RemoteStep \/ BootStep
    \/ RestartDevice \/ PowerCut \/ ConfirmApplication \/ RejectApplication \/ StayUp

(* The updater loop and the tasks that hold the mutex go on; the peer that *)
(* uploads need not.                                                       *)
UpgradeFairness ==
    /\ WF_upgradeVars(Abandon) /\ WF_upgradeVars(RestartDevice) /\ WF_upgradeVars(BootStep)
    /\ WF_upgradeVars(RemoteStep)
    /\ WF_upgradeVars(
           (Begun \/ CommitReceipt \/ SelectRelease \/ Restore \/ CancelReceipt))

UpgradeSpec == UpgradeInit /\ [][UpgradeNext]_upgradeVars /\ UpgradeFairness
-----------------------------------------------------------------------------
Stages == {"Idle", "Prepared", "WritingFilesystem", "FilesystemVerified", "WritingFirmware",
           "FirmwareVerified", "ReadyToBoot", "Error"}

(* Partitions, receipt, release and job keep their types.                  *)
UpgradeTypeOK ==
    /\ {app, fs} \subseteq [Partitions -> Versions \cup Torn]
    /\ ota \in [Partitions -> {"Valid", "New", "Pending", "Invalid"}]
    /\ {boot, run} \subseteq Partitions /\ power \in {"Off", "Setup", "Halted", "Up"}
    /\ recorded.state \in {"None", "Running", "RebootPending", "Succeeded", "Interrupted",
                          "Failed"}
    /\ release \in [stage : Stages, version : Versions, image : Versions,
                    received : 0..Chunks, intact : BOOLEAN, rebootPending : BOOLEAN]
    /\ hand \in {"Free", "Begin", "Committing", "Selecting", "Restoring", "Restored"}
    /\ job.step \in {"None", "Starting", "Queued", "Cloning", "InPlace", "Flashing",
                     "Finishing", "Leaving"}

(* What a power cut would leave: the pair that boots, or the one that the  *)
(* program itself falls back to, has an application and a file system.     *)
(* The route that writes the running file system in place is left out.     *)
Whole(s) == app[s] \notin Torn /\ fs[s] # "Blank"

BootsAfterCut == Whole(BootSlot) \/ (ota[BootSlot] = "New" /\ Whole(other(BootSlot)))

(* It is survived, also by an application that is not confirmed yet, until *)
(* an update takes from it what it falls back to.                          *)
CutIsSurvived == power = "Up" /\ (Confirmed \/ ~overwritten) => BootsAfterCut

(* An interruption before the commit leaves the running release intact (as *)
(* release-upgrade-ab.md has it): nothing asks whether it is confirmed.    *)
InterruptionIsSurvived == power = "Up" /\ release.stage # "Idle" => BootsAfterCut

(* A committed release is the one that was announced: its application and  *)
(* its own file system, complete, in the slot selected.                    *)
CommittedIsWhole ==
    release.rebootPending => /\ boot # run
                             /\ app[boot] = release.version /\ fs[boot] = release.version

(* A local release that the receipt calls failed is not what boots next,   *)
(* unless the message says that it could not be taken back, or an update   *)
(* that failed before had left that slot selected.                         *)
FailedIsNotBooted ==
    power = "Up" /\ recorded = [route |-> "local", state |-> "Failed"] /\ ~leftBehind => boot = run

(* An update, wherever power is cut or a step fails: something whole is    *)
(* left to boot, unless it began to write before the running application   *)
(* was confirmed; and what boots is what the receipt says.                 *)
UpgradeSound == UpgradeTypeOK /\ CutIsSurvived /\ CommittedIsWhole /\ FailedIsNotBooted

(* The updater is free again at last, whatever the peer does.              *)
UpdaterFreed == []<>(UpdaterFree \/ power = "Halted")
=============================================================================
