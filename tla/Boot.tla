-------------------------------- MODULE Boot -------------------------------
(* From power on to power off: the three stages of runit, the helpers stage *)
(* 1 runs (fsck.ir0, ir0-firstboot --early), recovery, and the shutdown     *)
(* programs (services/runit_stage*.c, ir0_recovery.c, mount_root_rw.c,      *)
(* ir0_force_power.c).  First boot itself is module FirstBoot; here it is a *)
(* helper that writes, or does not.  fsck.ir0 reads and prints only.        *)
EXTENDS Integers

CONSTANT
    MaxWrites   \* bound on the changes made to the root file system

ASSUME BootAssumption == MaxWrites \in Nat

VARIABLES
    stage,    \* the program in charge
    found,    \* stage 1 has found ir0.recovery=1 on the command line
    early,    \* whether the unattended first boot has been: no, running, over
    root,     \* how / is mounted
    cache,    \* changes made to /
    disk,     \* those that are on the disk
    due       \* changes a shutdown in progress has to save, or -1

filevars == <<cache, disk>>
vars == <<stage, found, early, root, filevars, due>>

\* The stages in which programs other than the boot itself run.
Up == {"services", "recoverysh"}
\* Where only turning the machine off and on helps.
Dead == {"failed", "halted"}
Shutdown == {"sync3", "reboot3", "syncforce", "rebootforce"}

Init ==
    /\ stage = "off" /\ found = FALSE /\ early = "no"
    /\ root = "rw" /\ cache = 0 /\ disk = 0 /\ due = -1

Goto(s) == stage' = s

\* The kernel starts runit, and runit stage 1.
PowerOn ==
    /\ stage = "off"
    /\ Goto("fsck")
    /\ found' = FALSE /\ early' = "no"
    /\ root' = "rw" /\ cache' = disk /\ due' = -1
    /\ UNCHANGED disk

\* The power fails: what is not on the disk is lost.
PowerCut ==
    /\ stage # "off"
    /\ Goto("off")
    /\ cache' = disk
    /\ early' = "no"
    /\ UNCHANGED <<found, root, disk, due>>

----------------------------------------------------------------------------
(* Stage 1 *)

\* want_fsck and run_helper: whether fsck.ir0 is asked for and what it says is not
\* looked at, and a fork or exec that fails is as if it had not been asked for.
Fsck ==
    /\ stage = "fsck"
    /\ Goto("firstboot")
    /\ UNCHANGED <<found, early, root, filevars, due>>

\* A mistake: stage 1 does not wait for the unattended first boot.
FirstBootAlone ==
    /\ stage = "firstboot"
    /\ early' = "running"
    /\ Goto("handoff")
    /\ UNCHANGED <<found, root, filevars, due>>

\* A mistake: a fork that fails is waited for all the same.
FirstBootWaited ==
    /\ stage = "firstboot"
    /\ early' = "running" \/ UNCHANGED early
    /\ Goto("wait")
    /\ UNCHANGED <<found, root, filevars, due>>

\* run_firstboot_early: fork, or not.
FirstBoot ==
    /\ stage = "firstboot"
    /\ \/ early' = "running" /\ Goto("wait")
       \/ UNCHANGED early /\ Goto("handoff")
    /\ UNCHANGED <<found, root, filevars, due>>

\* The helper makes a change; write_file syncs each of its files.
EarlyWrites ==
    /\ early = "running" /\ cache < MaxWrites
    /\ cache' = cache + 1
    /\ disk' = cache'
    /\ UNCHANGED <<stage, found, early, root, due>>
EarlyEnds ==
    /\ early = "running"
    /\ early' = "over"
    /\ UNCHANGED <<stage, found, root, filevars, due>>
\* waitpid returns, whatever the helper's status is.
WaitFirstBoot ==
    /\ stage = "wait" /\ early = "over"
    /\ Goto("handoff")
    /\ UNCHANGED <<found, early, root, filevars, due>>

\* cmdline_has_recovery finds the word, or does not: it is not there, it is beyond
\* the 255 characters read, or /proc/cmdline cannot be opened or read.  Stage 1
\* becomes recovery or stage 2; a failing exec ends it with 111, and what runit,
\* which is not in this repository, does then is not modelled.
Handoff ==
    /\ stage = "handoff"
    /\ found' \in BOOLEAN
    /\ Goto(IF found' THEN "recovery" ELSE "stage2") \/ Goto("failed")
    /\ UNCHANGED <<early, root, filevars, due>>

----------------------------------------------------------------------------
(* Stage 2 and recovery *)

\* Stage 2 becomes runsvdir.
Stage2 ==
    /\ stage = "stage2"
    /\ Goto("services") \/ Goto("failed")
    /\ UNCHANGED <<found, early, root, filevars, due>>

\* ir0_recovery: / becomes read-only, or a warning is given ("continuing
\* anyway"); then a shell of root, or 111.
Recovery ==
    /\ stage = "recovery"
    /\ \/ root' = "ro" /\ disk' = cache
       \/ root' = "rwwarned" /\ UNCHANGED disk
    /\ Goto("recoverysh") \/ Goto("failed")
    /\ UNCHANGED <<found, early, cache, due>>

\* mount-root-rw; it refuses everybody but root, which the recovery shell is.
MountRootRw ==
    /\ stage = "recoverysh"
    /\ root' = "rw"
    /\ UNCHANGED <<stage, found, early, filevars, due>>

\* Some program changes a file.
WriteFile ==
    /\ stage \in Up \cup Shutdown
    /\ root # "ro" /\ cache < MaxWrites
    /\ cache' = cache + 1
    /\ UNCHANGED <<stage, found, early, root, disk, due>>
\* The kernel writes back when it likes.
WriteBack ==
    /\ stage # "off" /\ disk < cache
    /\ disk' = cache
    /\ UNCHANGED <<stage, found, early, root, cache, due>>

----------------------------------------------------------------------------
(* Shutdown *)

\* runit ends stage 2 and runs stage 3; or halt, reboot and poweroff of
\* ir0_force_power are run.  From now on what has been written is due.
Ask ==
    /\ \/ stage = "services" /\ Goto("sync3")
       \/ stage \in Up /\ Goto("syncforce")
    /\ due' = cache
    /\ UNCHANGED <<found, early, root, filevars>>

\* A mistake: the machine is stopped without the sync.
SyncNot ==
    /\ stage \in {"sync3", "syncforce"}
    /\ Goto(IF stage = "sync3" THEN "reboot3" ELSE "rebootforce")
    /\ UNCHANGED <<found, early, root, filevars, due>>

Sync ==
    /\ stage \in {"sync3", "syncforce"}
    /\ disk' = cache
    /\ Goto(IF stage = "sync3" THEN "reboot3" ELSE "rebootforce")
    /\ UNCHANGED <<found, early, root, cache, due>>

\* reboot(2): stage 3 always halts, the command does what its name says; power
\* off and restart both lead to where the machine can be started again.
Reboot ==
    /\ stage \in {"reboot3", "rebootforce"}
    /\ Goto("halted") \/ (stage = "rebootforce" /\ Goto("off"))
    /\ cache' = disk
    /\ UNCHANGED <<found, early, root, disk, due>>
\* It returns: stage 3 ends, the command fails and its caller goes on.
RebootFails ==
    /\ stage \in {"reboot3", "rebootforce"}
    /\ IF stage = "reboot3" THEN Goto("failed")
       ELSE Goto(IF found THEN "recoverysh" ELSE "services")
    /\ due' = -1
    /\ UNCHANGED <<found, early, root, filevars>>

Stage1 == Fsck \/ FirstBoot \/ EarlyEnds \/ WaitFirstBoot \/ Handoff
Stages == Stage1 \/ Stage2 \/ Recovery
Stopping == Sync \/ Reboot \/ RebootFails
Others == EarlyWrites \/ MountRootRw \/ WriteFile \/ WriteBack \/ Ask
Next == PowerOn \/ PowerCut \/ Stages \/ Stopping \/ Others

Spec == Init /\ [][Next]_vars
\* Every program of the boot and of the shutdown goes on until it ends.
LiveSpec == Spec /\ WF_vars(Stages) /\ WF_vars(Stopping)

----------------------------------------------------------------------------
(* Properties *)

TypeOK ==
    /\ stage \in {"off", "fsck", "firstboot", "wait", "handoff", "stage2", "recovery"}
                 \cup Up \cup Dead \cup Shutdown
    /\ found \in BOOLEAN
    /\ early \in {"no", "running", "over"}
    /\ root \in {"rw", "ro", "rwwarned"}
    /\ cache \in 0..MaxWrites
    /\ disk \in 0..cache
    /\ due \in -1..MaxWrites

\* Nothing runs beside the unattended first boot: not a service, not the
\* console's wizard, which is the same program, and no recovery shell
\* (run_firstboot_early waits).  The helper may have died half way by then.
FirstBootIsAlone == early = "running" => stage = "wait"

\* An orderly shutdown saves everything that was written before it was asked
\* for, whatever is written while it goes on (stage 3, ir0_force_power).
ShutdownSaves == [][ Reboot => due <= disk' ]_vars

\* However its helpers end, a boot comes to its services, to its recovery
\* shell, or stops with an error; it never hangs in a stage.
BootSettles == stage = "fsck" ~> stage \in Up \cup Dead \cup Shutdown \cup {"off"}
=============================================================================
