----------------------------- MODULE Boot_proofs ----------------------------
(* The boot and the shutdown, for any number of changes to the root file    *)
(* system, power cuts and failing helpers.                                  *)
EXTENDS Boot, TLAPS

\* What a shutdown in progress has to save is in the cache, and on the disk
\* once the sync is over.
DueIsKept ==
    /\ stage \in Shutdown => due <= cache
    /\ stage \in {"reboot3", "rebootforce"} => due <= disk

Inv == TypeOK /\ FirstBootIsAlone /\ DueIsKept

\* The invariant holds when the machine is off.
LEMMA InitInv == Init => Inv
<1> SUFFICES ASSUME Init PROVE Inv
  OBVIOUS
<1>1. TypeOK
  <2>2. MaxWrites \in Nat
    BY BootAssumption
  <2>3. cache \in 0..MaxWrites /\ disk \in 0..cache /\ due \in -1..MaxWrites
    BY <2>2 DEF Init
  <2>4. found \in BOOLEAN
    BY DEF Init
  <2> QED
    BY <2>3, <2>4 DEF Init, TypeOK
<1>2. FirstBootIsAlone /\ DueIsKept
  BY DEF Init, FirstBootIsAlone, DueIsKept, Shutdown
<1> QED
  BY <1>1, <1>2 DEF Inv

\* Every variable keeps its type.
LEMMA TypeStep == TypeOK /\ [Next]_vars => TypeOK'
<1> SUFFICES ASSUME TypeOK, [Next]_vars PROVE TypeOK'
  OBVIOUS
<1> USE BootAssumption DEF TypeOK, Goto, filevars, Up, Dead, Shutdown
<1>1. CASE PowerOn \/ PowerCut
  <2>1. disk \in 0..disk /\ disk \in 0..MaxWrites /\ -1 \in -1..MaxWrites
    OBVIOUS
  <2>2. CASE PowerOn
    BY <2>1, <2>2 DEF PowerOn
  <2>3. CASE PowerCut
    BY <2>1, <2>3 DEF PowerCut
  <2> QED
    BY <1>1, <2>2, <2>3
<1>2. CASE Fsck
  BY <1>2 DEF Fsck
<1>3. CASE FirstBoot \/ EarlyEnds \/ WaitFirstBoot \/ Handoff \/ Stage2 \/ Recovery
  BY <1>3 DEF FirstBoot, EarlyEnds, WaitFirstBoot, Handoff, Stage2, Recovery
<1>4. CASE EarlyWrites \/ MountRootRw \/ WriteFile
  BY <1>4 DEF EarlyWrites, MountRootRw, WriteFile
<1>5. CASE WriteBack \/ Ask \/ Sync \/ Reboot \/ RebootFails
  BY <1>5 DEF WriteBack, Ask, Sync, Reboot, RebootFails
<1>6. CASE UNCHANGED vars
  BY <1>6 DEF vars
<1> QED
  BY <1>1, <1>2, <1>3, <1>4, <1>5, <1>6 DEF Next, Stages, Stage1, Stopping, Others

\* Stage 1 leaves "wait" only once the helper it waits for is over.
LEMMA AloneStep == TypeOK /\ FirstBootIsAlone /\ [Next]_vars => FirstBootIsAlone'
<1> SUFFICES ASSUME TypeOK, FirstBootIsAlone, [Next]_vars PROVE FirstBootIsAlone'
  OBVIOUS
<1> USE DEF FirstBootIsAlone, Goto, filevars
<1>1. CASE PowerOn \/ PowerCut
  BY <1>1 DEF PowerOn, PowerCut
<1>2. CASE Fsck \/ FirstBoot \/ EarlyEnds
  BY <1>2 DEF Fsck, FirstBoot, EarlyEnds
<1>3. CASE WaitFirstBoot \/ Handoff \/ Stage2 \/ Recovery
  BY <1>3 DEF WaitFirstBoot, Handoff, Stage2, Recovery
<1>4. CASE EarlyWrites \/ MountRootRw \/ WriteFile \/ WriteBack
  BY <1>4 DEF EarlyWrites, MountRootRw, WriteFile, WriteBack
<1>5. CASE Ask \/ Sync \/ Reboot \/ RebootFails
  BY <1>5 DEF Ask, Sync, Reboot, RebootFails, Up
<1>6. CASE UNCHANGED vars
  BY <1>6 DEF vars
<1> QED
  BY <1>1, <1>2, <1>3, <1>4, <1>5, <1>6 DEF Next, Stages, Stage1, Stopping, Others

\* The sync puts on the disk what the shutdown owes, and nothing takes it away.
LEMMA DueStep ==
    TypeOK /\ FirstBootIsAlone /\ DueIsKept /\ [Next]_vars => DueIsKept'
<1> SUFFICES ASSUME TypeOK, FirstBootIsAlone, DueIsKept, [Next]_vars
             PROVE  DueIsKept'
  OBVIOUS
<1>1. cache \in Nat /\ disk \in Nat /\ disk <= cache /\ due \in Int
  BY BootAssumption DEF TypeOK
<1> USE <1>1 DEF DueIsKept, Shutdown, Goto, filevars
<1>2. CASE PowerOn \/ PowerCut \/ Reboot
  BY <1>2 DEF PowerOn, PowerCut, Reboot
<1>3. CASE Fsck \/ FirstBoot \/ WaitFirstBoot \/ Handoff \/ Stage2
  BY <1>3 DEF Fsck, FirstBoot, WaitFirstBoot, Handoff, Stage2
<1>4. CASE EarlyEnds \/ MountRootRw
  BY <1>4 DEF EarlyEnds, MountRootRw
<1>5. CASE Recovery
  BY <1>5 DEF Recovery
<1>6. CASE EarlyWrites
  BY <1>6 DEF EarlyWrites, FirstBootIsAlone
<1>7. CASE WriteFile
  BY <1>7 DEF WriteFile
<1>8. CASE WriteBack
  BY <1>8 DEF WriteBack
<1>9. CASE Ask
  BY <1>9 DEF Ask
<1>10. CASE Sync
  BY <1>10 DEF Sync
<1>11. CASE RebootFails
  BY <1>11 DEF RebootFails
<1>12. CASE UNCHANGED vars
  BY <1>12 DEF vars
<1> QED
  BY <1>2, <1>3, <1>4, <1>5, <1>6, <1>7, <1>8, <1>9, <1>10, <1>11, <1>12
     DEF Next, Stages, Stage1, Stopping, Others

\* Every step of the three stages, of the power and of the image keeps it.
LEMMA InvStep == Inv /\ [Next]_vars => Inv'
BY TypeStep, AloneStep, DueStep DEF Inv

\* The inductive invariant holds in every reachable state.
THEOREM Invariance == Spec => []Inv
BY InitInv, InvStep, PTL DEF Spec

\* Whatever is cut, fails or is never started, the boot and the disk keep their
\* types, and no more is on the disk than was written.
THEOREM TypeCorrect == Spec => []TypeOK
<1>1. Inv => TypeOK
  BY DEF Inv
<1> QED
  BY <1>1, Invariance, PTL

\* Nothing ever runs beside the unattended first boot.
THEOREM FirstBootAloneAlways == Spec => []FirstBootIsAlone
<1>1. Inv => FirstBootIsAlone
  BY DEF Inv
<1> QED
  BY <1>1, Invariance, PTL

\* A machine that stops in order has on its disk all that was written before the
\* shutdown was asked for.
THEOREM OrderlyShutdown == Spec => ShutdownSaves
<1>1. Inv /\ [Next]_vars => [Reboot => due <= disk']_vars
  BY DEF Inv, DueIsKept, Reboot
<1> QED
  BY <1>1, Invariance, PTL DEF Spec, ShutdownSaves

----------------------------------------------------------------------------
(* What BootSettles rests on beside fairness: a boot is finitely many steps *)

\* How many steps of the three stages are ahead at most; the wait is longer
\* while the helper runs.
Ahead ==
    CASE stage = "fsck" -> 6
      [] stage = "firstboot" -> 5
      [] stage = "wait" -> IF early = "running" THEN 4 ELSE 3
      [] stage = "handoff" -> 2
      [] stage \in {"stage2", "recovery"} -> 1
      [] OTHER -> 0

\* Every step of a stage brings the boot nearer to its end, and only a power cut
\* does anything else with it: no write, no failing helper and no shutdown that
\* somebody asks for can make a boot longer.
BootGoesOn ==
    [][/\ Stages => Ahead' < Ahead
       /\ Ahead > 0 => Stages \/ Ahead' = Ahead \/ stage' = "off"]_vars

\* A stage moves on at each of its steps, and nothing else moves it.
LEMMA GoesOnStep ==
    FirstBootIsAlone /\ [Next]_vars =>
        [/\ Stages => Ahead' < Ahead
         /\ Ahead > 0 => Stages \/ Ahead' = Ahead \/ stage' = "off"]_vars
<1> SUFFICES ASSUME FirstBootIsAlone, [Next]_vars
             PROVE  \/ /\ Stages => Ahead' < Ahead
                       /\ Ahead > 0 => Stages \/ Ahead' = Ahead \/ stage' = "off"
                    \/ UNCHANGED vars
  OBVIOUS
<1> USE DEF Ahead, Goto
<1>1. ASSUME Stages PROVE Ahead' < Ahead
  <2>1. CASE Fsck \/ FirstBoot
    BY <2>1 DEF Fsck, FirstBoot
  <2>2. CASE EarlyEnds
    BY <2>2 DEF EarlyEnds, FirstBootIsAlone
  <2>3. CASE WaitFirstBoot \/ Handoff \/ Stage2 \/ Recovery
    BY <2>3 DEF WaitFirstBoot, Handoff, Stage2, Recovery
  <2> QED
    BY <1>1, <2>1, <2>2, <2>3 DEF Stages, Stage1
<1>2. CASE PowerOn \/ Stopping \/ Ask
  BY <1>1, <1>2 DEF PowerOn, Stopping, Sync, Reboot, RebootFails, Ask, Up
<1>3. CASE PowerCut
  BY <1>1, <1>3 DEF PowerCut
<1>4. CASE EarlyWrites \/ MountRootRw \/ WriteFile \/ WriteBack
  BY <1>1, <1>4 DEF EarlyWrites, MountRootRw, WriteFile, WriteBack
<1> QED
  BY <1>1, <1>2, <1>3, <1>4 DEF Next, Others

\* A boot takes at most six steps of its stages, whatever else happens.
THEOREM BootIsBounded == Spec => BootGoesOn
<1>1. Inv => FirstBootIsAlone
  BY DEF Inv
<1> QED
  BY <1>1, GoesOnStep, Invariance, PTL DEF Spec, BootGoesOn
=============================================================================
