------------------------ MODULE SandboxLifecycleProofs ------------------------
(***************************************************************************)
(* Proofs about SandboxLifecycle, for every set of descendants, exit codes *)
(* and options.                                                            *)
(***************************************************************************)
EXTENDS SandboxLifecycle, TLAPS

(***************************************************************************)
(* Lemmas about the operators the actions share.                           *)
(***************************************************************************)

\* The statuses the model builds are statuses.
LEMMA StatusTypes ==
  /\ NoStatus \in Statuses
  /\ \A n \in 0..255 : Exited(n) \in Statuses
  /\ \A s \in Signals : Signaled(s) \in Statuses
BY DEF NoStatus, Exited, Signaled, Statuses

\* The code made from a status is a byte.
LEMMA ExitCodeType == \A st \in Statuses : ExitCode(st) \in 0..255
BY DEF ExitCode, Statuses, Signals, SIGINT, SIGKILL, SIGPIPE, SIGALRM, SIGTERM

\* No process can be told apart wrongly: payload, descendants, launcher and
\* pid1 are different processes.
LEMMA ProcessesDistinct ==
  /\ Payload \in Procs
  /\ Desc \subseteq Procs
  /\ "launcher" \notin Procs
  /\ "pid1" \notin Procs
BY ConstantsAssumption DEF Procs

\* How the kernel changes the pending signals when the launcher ends.
LEMMA LauncherEndsType ==
  ASSUME TypeOK, NEW pc \in LauncherControl, NEW st \in Statuses,
         LauncherEnds(pc, st)
  PROVE  /\ lpc' \in LauncherControl
         /\ lstatus' \in Statuses
         /\ alarm' \in {"off", "timeout", "grace"}
         /\ pending' \in [Procs \cup {"launcher", "pid1"} -> SUBSET Signals]
BY DEF TypeOK, LauncherEnds, Signals, SIGKILL

\* How the kernel changes the pending signals when pid1 ends.
LEMMA Pid1EndsType ==
  ASSUME TypeOK, NEW st \in Statuses, Pid1Ends(st)
  PROVE  /\ ppc' \in Pid1Control
         /\ pstatus' \in Statuses
         /\ pending' \in [Procs \cup {"launcher", "pid1"} -> SUBSET Signals]
BY DEF TypeOK, Pid1Ends, Signals, SIGKILL, Pid1Control

(***************************************************************************)
(* Type correctness.                                                       *)
(***************************************************************************)

\* Every state of every run is well typed; what WaitForPid1 returns and what
\* main exits with is a byte.
THEOREM TypeCorrect == Spec => []TypeOK
<1> USE ConstantsAssumption, ProcessesDistinct, StatusTypes
<1>1. Init => TypeOK
  <2> SUFFICES ASSUME Init PROVE TypeOK
    OBVIOUS
  <2>1. /\ proc \in [Procs -> ProcState]
        /\ parent \in [Desc -> Procs \cup {"pid1"}]
        /\ pending \in [Procs \cup {"launcher", "pid1"} -> SUBSET Signals]
    BY DEF Init, ProcState
  <2>2. child_status \in 0..255
    BY DEF Init, EXIT_FAILURE
  <2>3. /\ lpc \in LauncherControl
        /\ ppc \in Pid1Control
    BY DEF Init, LauncherControl, Pid1Control
  <2>4. QED
    BY <2>1, <2>2, <2>3, Zenon DEF Init, TypeOK
<1>2. TypeOK /\ [Next]_vars => TypeOK'
  <2> SUFFICES ASSUME TypeOK, [Next]_vars PROVE TypeOK'
    OBVIOUS
  <2> USE DEF launcherVars, pid1Vars, procVars, history
  <2>1. CASE ArmParentDeath
    BY <2>1 DEF ArmParentDeath, TypeOK, LauncherControl
  <2>2. CASE Prepare
    BY <2>2 DEF Prepare, TypeOK, LauncherControl, getppid
  <2>3. CASE Clone
    BY <2>3 DEF Clone, TypeOK, LauncherControl, Pid1Control
  <2>4. CASE AwaitChild
    BY <2>4 DEF AwaitChild, TypeOK, LauncherControl
  <2>5. CASE ArmTimeout
    BY <2>5 DEF ArmTimeout, TypeOK, LauncherControl, OptionRecord
  <2>6. CASE HandleTerm
    BY <2>6 DEF HandleTerm, TypeOK, LauncherControl
  <2>7. CASE HandleInt
    BY <2>7 DEF HandleInt, TypeOK, LauncherControl
  <2>8. CASE Interrupted
    <3>1. child_status' \in 0..255
      BY <2>8 DEF Interrupted, TypeOK
    <3>2. QED
      BY <2>8, <3>1 DEF Interrupted, TypeOK, LauncherControl
  <2>9. CASE Pid1WaitPipe
    BY <2>9 DEF Pid1WaitPipe, TypeOK, Pid1Control
  <2>10. CASE Pid1ArmParentDeath
    BY <2>10 DEF Pid1ArmParentDeath, TypeOK, Pid1Control
  <2>11. CASE Pid1Setup
    BY <2>11 DEF Pid1Setup, TypeOK, Pid1Control
  <2>12. CASE SpawnChild
    BY <2>12 DEF SpawnChild, TypeOK, Pid1Control, ProcState
  <2>13. CASE InstallForward
    BY <2>13 DEF InstallForward, TypeOK, Pid1Control
  <2>14. CASE NamespaceEmptied
    BY <2>14 DEF NamespaceEmptied, TypeOK, Pid1Control, ProcState
  <2>15. CASE ChildSetpgid
    BY <2>15 DEF ChildSetpgid, TypeOK, ProcState
  <2>16. CASE ChildExec
    BY <2>16 DEF ChildExec, TypeOK, ProcState
  <2>17. CASE KillPid1
    BY <2>17 DEF KillPid1, TypeOK, Signals
  <2>18. CASE InvokerDies
    <3>1. pending' \in [Procs \cup {"launcher", "pid1"} -> SUBSET Signals]
      BY <2>18 DEF InvokerDies, TypeOK, Signals
    <3>2. invoker' \in BOOLEAN
      BY <2>18 DEF InvokerDies
    <3>3. QED
      BY <2>18, <3>1, <3>2 DEF InvokerDies, TypeOK
  <2>19. CASE AlarmExpires
    BY <2>19 DEF AlarmExpires, TypeOK, Signals
  <2>20. CASE Finished
    BY <2>20 DEF Finished, TypeOK, vars
  <2>21. CASE MiniSbxSetError
    BY <2>21, LauncherEndsType DEF MiniSbxSetError, TypeOK, LauncherControl,
       EXIT_FAILURE
  <2>22. CASE SignalChild
    <3>1. CASE Pid1Alive
      BY <2>22, <3>1 DEF SignalChild, TypeOK, LauncherControl
    <3>2. CASE ~Pid1Alive
      <4>1. /\ "killed" \in LauncherControl
            /\ Signaled(SIGPIPE) \in Statuses
        BY DEF LauncherControl, Signals
      <4>2. QED
        BY <2>22, <3>2, <4>1, LauncherEndsType DEF SignalChild, TypeOK
    <3>3. QED
      BY <3>1, <3>2
  <2>23. CASE CleanupAndReturn
    BY <2>23, LauncherEndsType DEF CleanupAndReturn, TypeOK, LauncherControl
  <2>24. CASE ReapPid1
    BY <2>24, ExitCodeType DEF ReapPid1, TypeOK, LauncherControl, Pid1Control
  <2>25. CASE Pid1SignalPipe
    <3>1. CASE LauncherAlive
      BY <2>25, <3>1 DEF Pid1SignalPipe, TypeOK, Pid1Control
    <3>2. CASE ~LauncherAlive
      <4>1. Exited(EXIT_FAILURE) \in Statuses
        BY DEF EXIT_FAILURE
      <4>2. QED
        BY <2>25, <3>2, <4>1, Pid1EndsType DEF Pid1SignalPipe, TypeOK
    <3>3. QED
      BY <3>1, <3>2
  <2>26. CASE Pid1Dies
    BY <2>26, Pid1EndsType DEF Pid1Dies, TypeOK, EXIT_FAILURE
  <2>27. CASE Pid1Killed
    BY <2>27, Pid1EndsType DEF Pid1Killed, TypeOK, Signals
  <2>28. CASE ForwardSignal
    BY <2>28 DEF ForwardSignal, TypeOK, Signals
  <2>29. ASSUME NEW p \in Procs, WaitForChild(p) PROVE TypeOK'
    <3>1. CASE p # Payload
      BY <2>29, <3>1 DEF WaitForChild, TypeOK, ProcState
    <3>2. CASE p = Payload
      <4>1. Exited(ExitCode(cstatus)) \in Statuses
        BY ExitCodeType DEF TypeOK
      <4>2. QED
        BY <2>29, <3>2, <4>1, Pid1EndsType DEF WaitForChild, TypeOK, ProcState
    <3>3. QED
      BY <3>1, <3>2
  <2>30. ASSUME NEW s \in Signals, OnTimeoutOrTerm(s) PROVE TypeOK'
    BY <2>30 DEF OnTimeoutOrTerm, TypeOK, LauncherControl, Signals
  <2>31. ASSUME NEW s \in Signals, LauncherKilled(s) PROVE TypeOK'
    BY <2>31, LauncherEndsType DEF LauncherKilled, TypeOK, LauncherControl
  <2>32. ASSUME NEW s \in Signals, LauncherIgnores(s) PROVE TypeOK'
    BY <2>32 DEF LauncherIgnores, TypeOK
  <2>33. ASSUME NEW s \in {SIGINT, SIGTERM, SIGKILL}, SignalLauncher(s) PROVE TypeOK'
    BY <2>33 DEF SignalLauncher, TypeOK, Signals
  <2>34. ASSUME NEW p \in Procs, NEW st \in Statuses, ProcEnds(p, st) PROVE TypeOK'
    BY <2>34 DEF ProcEnds, TypeOK, ProcState
  <2>35. CASE ChildDies
    BY <2>35, <2>34 DEF ChildDies, EXIT_FAILURE
  <2>36. ASSUME NEW p \in Procs, NEW c \in Codes, ProcExits(p, c) PROVE TypeOK'
    BY <2>36, <2>34 DEF ProcExits
  <2>37. ASSUME NEW p \in Procs, NEW s \in Signals, ProcKilled(p, s) PROVE TypeOK'
    BY <2>37, <2>34 DEF ProcKilled
  <2>38. ASSUME NEW p \in Procs, ProcSurvivesTerm(p) PROVE TypeOK'
    BY <2>38 DEF ProcSurvivesTerm, TypeOK
  <2>39. ASSUME NEW p \in Procs, NEW d \in Desc, ProcForks(p, d) PROVE TypeOK'
    BY <2>39 DEF ProcForks, TypeOK, ProcState
  <2>40. CASE UNCHANGED vars
    BY <2>40 DEF vars, TypeOK
  <2>41. QED
    BY <2>1, <2>2, <2>3, <2>4, <2>5, <2>6, <2>7, <2>8, <2>9, <2>10, <2>11,
       <2>12, <2>13, <2>14, <2>15, <2>16, <2>17, <2>18, <2>19, <2>20, <2>21,
       <2>22, <2>23, <2>24, <2>25, <2>26, <2>27, <2>28, <2>29, <2>30, <2>31,
       <2>32, <2>33, <2>34, <2>35, <2>36, <2>37, <2>38, <2>39, <2>40 DEF
       Next, LauncherStep, Pid1Step, ChildStep, PayloadStep, KernelStep,
       Environment, Signals
<1>3. QED
  BY <1>1, <1>2, PTL DEF Spec

(***************************************************************************)
(* No orphaned sandbox.                                                    *)
(***************************************************************************)

\* The strengthening: from its prctl on, pid1 is owed a parent death signal.
OrphanInv ==
  /\ ppc \in {"armed", "linked", "ready", "forked", "reaping"}
       => "pid1" \in pdeath
  /\ NoOrphanedPid1

\* What the death of the launcher does to pid1.
LEMMA LauncherEndsOrphan ==
  ASSUME TypeOK, OrphanInv, NEW pc, NEW st, LauncherEnds(pc, st),
         UNCHANGED <<ppc, pdeath>>
  PROVE  OrphanInv'
BY ProcessesDistinct
   DEF TypeOK, OrphanInv, NoOrphanedPid1, LauncherEnds, Pid1Alive, LauncherAlive

\* A pid1 that ends is no longer anyone's orphan.
LEMMA Pid1EndsOrphan ==
  ASSUME OrphanInv, NEW st, Pid1Ends(st), UNCHANGED <<lpc, pdeath>>
  PROVE  OrphanInv'
BY DEF OrphanInv, NoOrphanedPid1, Pid1Ends

\* The parent death protocol of SetupSelfDestruction closes every window.
THEOREM OrphanSafety == Spec => []NoOrphanedPid1
<1> USE ConstantsAssumption, ProcessesDistinct
<1>1. Init => OrphanInv
  BY DEF Init, OrphanInv, NoOrphanedPid1
<1>2. TypeOK /\ OrphanInv /\ [Next]_vars => OrphanInv'
  <2> SUFFICES ASSUME TypeOK, OrphanInv, [Next]_vars PROVE OrphanInv'
    OBVIOUS
  <2> USE DEF launcherVars, pid1Vars, procVars, history
  <2>1. CASE ArmParentDeath
    BY <2>1 DEF ArmParentDeath, OrphanInv, NoOrphanedPid1, LauncherAlive
  <2>2. CASE Prepare \/ AwaitChild \/ ArmTimeout \/ HandleTerm \/ HandleInt
             \/ Interrupted
    BY <2>2 DEF Prepare, AwaitChild, ArmTimeout, HandleTerm, HandleInt,
                Interrupted, OrphanInv, NoOrphanedPid1, LauncherAlive
  <2>3. CASE Clone \/ ReapPid1
    BY <2>3 DEF Clone, ReapPid1, OrphanInv, NoOrphanedPid1
  <2>4. CASE MiniSbxSetError \/ CleanupAndReturn
    BY <2>4, LauncherEndsOrphan DEF MiniSbxSetError, CleanupAndReturn
  <2>5. CASE SignalChild
    <3>1. CASE Pid1Alive
      BY <2>5, <3>1 DEF SignalChild, OrphanInv, NoOrphanedPid1, LauncherAlive
    <3>2. CASE ~Pid1Alive
      BY <2>5, <3>2, LauncherEndsOrphan DEF SignalChild
    <3>3. QED
      BY <3>1, <3>2
  <2>6. ASSUME NEW s \in Signals, LauncherKilled(s) PROVE OrphanInv'
    BY <2>6, LauncherEndsOrphan DEF LauncherKilled
  <2>7. ASSUME NEW s \in Signals, OnTimeoutOrTerm(s) PROVE OrphanInv'
    BY <2>7 DEF OnTimeoutOrTerm, TypeOK, OrphanInv, NoOrphanedPid1,
                LauncherAlive
  <2>8. CASE Pid1WaitPipe \/ Pid1ArmParentDeath
    BY <2>8 DEF Pid1WaitPipe, Pid1ArmParentDeath, OrphanInv, NoOrphanedPid1
  <2>9. CASE Pid1SignalPipe
    <3>1. CASE LauncherAlive
      BY <2>9, <3>1 DEF Pid1SignalPipe, OrphanInv, NoOrphanedPid1, LauncherAlive
    <3>2. CASE ~LauncherAlive
      BY <2>9, <3>2, Pid1EndsOrphan DEF Pid1SignalPipe
    <3>3. QED
      BY <3>1, <3>2
  <2>10. CASE Pid1Setup \/ SpawnChild \/ InstallForward \/ NamespaceEmptied
    BY <2>10 DEF Pid1Setup, SpawnChild, InstallForward, NamespaceEmptied,
                 OrphanInv, NoOrphanedPid1, LauncherAlive
  <2>11. CASE Pid1Dies \/ Pid1Killed
    BY <2>11, Pid1EndsOrphan DEF Pid1Dies, Pid1Killed
  <2>12. ASSUME NEW p \in Procs, WaitForChild(p) PROVE OrphanInv'
    <3>1. CASE p # Payload
      BY <2>12, <3>1 DEF WaitForChild, OrphanInv, NoOrphanedPid1, LauncherAlive
    <3>2. CASE p = Payload
      BY <2>12, <3>2, Pid1EndsOrphan DEF WaitForChild
    <3>3. QED
      BY <3>1, <3>2
  <2>13. CASE ForwardSignal
    BY <2>13 DEF ForwardSignal, TypeOK, OrphanInv, NoOrphanedPid1,
                 LauncherAlive, SIGKILL, SIGTERM
  <2>14. ASSUME NEW p \in Procs, NEW st, ProcEnds(p, st) PROVE OrphanInv'
    BY <2>14 DEF ProcEnds, TypeOK, OrphanInv, NoOrphanedPid1, LauncherAlive
  <2>15. ASSUME NEW p \in Procs, ProcSurvivesTerm(p) PROVE OrphanInv'
    BY <2>15 DEF ProcSurvivesTerm, TypeOK, OrphanInv, NoOrphanedPid1,
                 LauncherAlive
  <2>16. ASSUME NEW p \in Procs, NEW d \in Desc, ProcForks(p, d)
         PROVE  OrphanInv'
    BY <2>16 DEF ProcForks, OrphanInv, NoOrphanedPid1, LauncherAlive
  <2>17. CASE ChildSetpgid \/ ChildExec
    BY <2>17 DEF ChildSetpgid, ChildExec, OrphanInv, NoOrphanedPid1,
                 LauncherAlive
  <2>18. CASE KillPid1 \/ InvokerDies \/ AlarmExpires
    BY <2>18 DEF KillPid1, InvokerDies, AlarmExpires, TypeOK, OrphanInv,
                 NoOrphanedPid1, LauncherAlive
  <2>19. ASSUME NEW s \in Signals, LauncherIgnores(s) \/ SignalLauncher(s)
         PROVE  OrphanInv'
    BY <2>19 DEF LauncherIgnores, SignalLauncher, TypeOK, OrphanInv,
                 NoOrphanedPid1, LauncherAlive
  <2>20. CASE UNCHANGED vars
    BY <2>20 DEF vars, OrphanInv, NoOrphanedPid1, LauncherAlive
  <2>21. CASE LauncherStep
    BY <2>1, <2>2, <2>3, <2>4, <2>5, <2>21 DEF LauncherStep
  <2>22. CASE Pid1Step
    BY <2>8, <2>9, <2>10, <2>11, <2>12, <2>13, <2>22 DEF Pid1Step
  <2>23. CASE ChildStep \/ PayloadStep
    BY <2>14, <2>15, <2>16, <2>17, <2>23
       DEF ChildStep, PayloadStep, ChildDies, ProcExits, ProcKilled
  <2>24. CASE KernelStep
    BY <2>6, <2>7, <2>10, <2>11, <2>14, <2>18, <2>24
       DEF KernelStep, ProcKilled
  <2>25. CASE Environment
    BY <2>18, <2>19, <2>25 DEF Environment, Signals
  <2>26. QED
    BY <2>20, <2>21, <2>22, <2>23, <2>24, <2>25 DEF Next, Finished
<1>3. OrphanInv => NoOrphanedPid1
  BY DEF OrphanInv
<1>4. QED
  BY <1>1, <1>2, <1>3, TypeCorrect, PTL DEF Spec

(***************************************************************************)
(* The grace period's timer is never lost.                                 *)
(***************************************************************************)

\* The strengthening: before the timeout is armed no handler is installed, so
\* nothing has been asked.
EscalationInv ==
  /\ lpc \in {"options", "armed", "masked", "cloned", "signalled", "spawned"}
       => handlers = {} /\ ~asked
  /\ EscalationArmed

\* A step that leaves the launcher's timer, signals and history alone.
LEMMA EscalationUntouched ==
  ASSUME TypeOK, EscalationInv,
         UNCHANGED <<lpc, handlers, alarm, asked, forced>>,
         SIGALRM \in pending["launcher"] => SIGALRM \in pending'["launcher"]
  PROVE  EscalationInv'
BY DEF EscalationInv, EscalationArmed, LauncherAlive

\* Nothing is owed once the launcher has ended.
LEMMA LauncherEndsEscalation ==
  ASSUME NEW pc \in {"exited", "killed"}, NEW st, LauncherEnds(pc, st)
  PROVE  EscalationInv'
BY DEF EscalationInv, EscalationArmed, LauncherAlive, LauncherEnds

\* The end of pid1 does not touch the launcher's pending signals.
LEMMA Pid1EndsKeepsLauncher ==
  ASSUME TypeOK, NEW st, Pid1Ends(st)
  PROVE  pending'["launcher"] = pending["launcher"]
BY ProcessesDistinct DEF TypeOK, Pid1Ends

\* However SIGTERM, SIGINT, the timeout and the installation of the handlers
\* interleave, a polite request is followed by the grace period's alarm.
THEOREM EscalationSafety == Spec => []EscalationArmed
<1> USE ConstantsAssumption, ProcessesDistinct
<1>1. Init => EscalationInv
  BY DEF Init, EscalationInv, EscalationArmed
<1>2. TypeOK /\ EscalationInv /\ [Next]_vars => EscalationInv'
  <2> SUFFICES ASSUME TypeOK, EscalationInv, [Next]_vars PROVE EscalationInv'
    OBVIOUS
  <2> USE DEF launcherVars, pid1Vars, procVars, history
  <2>1. CASE ArmParentDeath \/ Prepare \/ Clone \/ AwaitChild
    BY <2>1 DEF ArmParentDeath, Prepare, Clone, AwaitChild, EscalationInv,
                EscalationArmed
  <2>2. CASE ArmTimeout
    BY <2>2 DEF ArmTimeout, EscalationInv, EscalationArmed
  <2>3. CASE HandleTerm \/ HandleInt \/ ReapPid1 \/ Interrupted
    BY <2>3 DEF HandleTerm, HandleInt, ReapPid1, Interrupted, EscalationInv,
                EscalationArmed, LauncherAlive
  <2>4. CASE MiniSbxSetError \/ CleanupAndReturn
    BY <2>4, LauncherEndsEscalation DEF MiniSbxSetError, CleanupAndReturn
  <2>5. CASE SignalChild
    <3>1. CASE Pid1Alive
      BY <2>5, <3>1 DEF SignalChild, EscalationInv, EscalationArmed
    <3>2. CASE ~Pid1Alive
      BY <2>5, <3>2, LauncherEndsEscalation DEF SignalChild
    <3>3. QED
      BY <3>1, <3>2
  <2>6. ASSUME NEW s \in Signals, LauncherKilled(s) PROVE EscalationInv'
    BY <2>6, LauncherEndsEscalation DEF LauncherKilled
  <2>7. ASSUME NEW s \in Signals, OnTimeoutOrTerm(s) PROVE EscalationInv'
    <3>1. lpc \notin {"options", "armed", "masked", "cloned", "signalled",
                      "spawned"}
      BY <2>7 DEF OnTimeoutOrTerm, EscalationInv
    <3>2. lpc' \notin {"options", "armed", "masked", "cloned", "signalled",
                       "spawned"}
      BY <2>7, <3>1 DEF OnTimeoutOrTerm
    <3>3. CASE polite
      BY <2>7, <3>2, <3>3 DEF OnTimeoutOrTerm, EscalationInv, EscalationArmed
    <3>4. CASE ~polite
      BY <2>7, <3>2, <3>4 DEF OnTimeoutOrTerm, EscalationInv, EscalationArmed
    <3>5. QED
      BY <3>3, <3>4 DEF TypeOK
  <2>8. CASE Pid1WaitPipe \/ Pid1ArmParentDeath \/ Pid1Setup \/ SpawnChild
             \/ InstallForward \/ NamespaceEmptied \/ ChildSetpgid \/ ChildExec
    BY <2>8, EscalationUntouched
       DEF Pid1WaitPipe, Pid1ArmParentDeath, Pid1Setup, SpawnChild,
           InstallForward, NamespaceEmptied, ChildSetpgid, ChildExec
  <2>9. CASE Pid1SignalPipe \/ Pid1Dies \/ Pid1Killed
    BY <2>9, EscalationUntouched, Pid1EndsKeepsLauncher
       DEF Pid1SignalPipe, Pid1Dies, Pid1Killed
  <2>10. ASSUME NEW p \in Procs, WaitForChild(p) PROVE EscalationInv'
    BY <2>10, EscalationUntouched, Pid1EndsKeepsLauncher DEF WaitForChild
  <2>11. CASE ForwardSignal
    <3>1. pending'["launcher"] = pending["launcher"]
      BY <2>11 DEF ForwardSignal, TypeOK
    <3>2. QED
      BY <2>11, <3>1, EscalationUntouched DEF ForwardSignal
  <2>12. ASSUME NEW p \in Procs, NEW st, ProcEnds(p, st) PROVE EscalationInv'
    <3>1. pending'["launcher"] = pending["launcher"]
      BY <2>12 DEF ProcEnds, TypeOK
    <3>2. QED
      BY <2>12, <3>1, EscalationUntouched DEF ProcEnds
  <2>13. ASSUME NEW p \in Procs, ProcSurvivesTerm(p) PROVE EscalationInv'
    <3>1. pending'["launcher"] = pending["launcher"]
      BY <2>13 DEF ProcSurvivesTerm, TypeOK
    <3>2. QED
      BY <2>13, <3>1, EscalationUntouched DEF ProcSurvivesTerm
  <2>14. ASSUME NEW p \in Procs, NEW d \in Desc, ProcForks(p, d)
         PROVE  EscalationInv'
    BY <2>14, EscalationUntouched DEF ProcForks
  <2>15. CASE KillPid1 \/ InvokerDies
    <3>1. SIGALRM \in pending["launcher"] => SIGALRM \in pending'["launcher"]
      BY <2>15 DEF KillPid1, InvokerDies, TypeOK
    <3>2. QED
      BY <2>15, <3>1, EscalationUntouched DEF KillPid1, InvokerDies
  <2>16. CASE AlarmExpires
    BY <2>16 DEF AlarmExpires, TypeOK, EscalationInv, EscalationArmed
  <2>17. ASSUME NEW s \in Signals, LauncherIgnores(s) PROVE EscalationInv'
    BY <2>17 DEF LauncherIgnores, EscalationInv, EscalationArmed
  <2>18. ASSUME NEW s \in Signals, SignalLauncher(s) PROVE EscalationInv'
    <3>1. SIGALRM \in pending["launcher"] => SIGALRM \in pending'["launcher"]
      BY <2>18 DEF SignalLauncher, TypeOK
    <3>2. QED
      BY <2>18, <3>1, EscalationUntouched DEF SignalLauncher
  <2>19. CASE UNCHANGED vars
    BY <2>19, EscalationUntouched DEF vars
  <2>20. CASE LauncherStep
    BY <2>1, <2>2, <2>3, <2>4, <2>5, <2>20 DEF LauncherStep
  <2>21. CASE Pid1Step
    BY <2>8, <2>9, <2>10, <2>11, <2>21 DEF Pid1Step
  <2>22. CASE ChildStep \/ PayloadStep
    BY <2>8, <2>12, <2>13, <2>14, <2>22
       DEF ChildStep, PayloadStep, ChildDies, ProcExits, ProcKilled
  <2>23. CASE KernelStep
    BY <2>6, <2>7, <2>8, <2>9, <2>12, <2>16, <2>23 DEF KernelStep, ProcKilled
  <2>24. CASE Environment
    BY <2>15, <2>17, <2>18, <2>24 DEF Environment, Signals
  <2>25. QED
    BY <2>19, <2>20, <2>21, <2>22, <2>23, <2>24 DEF Next, Finished
<1>3. EscalationInv => EscalationArmed
  BY DEF EscalationInv
<1>4. QED
  BY <1>1, <1>2, <1>3, TypeCorrect, PTL DEF Spec

(***************************************************************************)
(* Cleanup only after the last process of the sandbox.                     *)
(***************************************************************************)

\* The strengthening: there is no pid1 before the clone and no process of the
\* payload before pid1 forks it; a dead init has an empty namespace; while the
\* invoker lives the recorded parent is the invoker, so WaitForPid1 gives up
\* on nobody; and only a returning launcher has removed the directories.
CleanupInv ==
  /\ lpc \in {"options", "armed", "masked"} => ppc = "none"
  /\ ppc \in {"none", "born", "resumed", "armed", "linked", "ready"}
       => \A p \in Procs : proc[p] = "none"
  /\ ppc \in {"zombie", "reaped"} => \A p \in Procs : ~LiveProc(p)
  /\ lpc \notin {"options", "armed"} /\ LauncherAlive /\ invoker
       => initial_ppid = "invoker"
  /\ lpc = "reaped" /\ invoker => ppc = "reaped"
  /\ ~dirs => lpc = "exited"
  /\ ~dirs /\ invoker => ppc \in {"none", "reaped"}

\* It is inductive, given the types.
LEMMA CleanupInvariant == Spec => []CleanupInv
<1> USE ConstantsAssumption, ProcessesDistinct
<1>1. Init => CleanupInv
  BY DEF Init, CleanupInv
<1>2. TypeOK /\ CleanupInv /\ [Next]_vars => CleanupInv'
  <2> SUFFICES ASSUME TypeOK, CleanupInv, [Next]_vars PROVE CleanupInv'
    OBVIOUS
  <2> USE DEF launcherVars, pid1Vars, procVars, history
  <2>1. CASE ArmParentDeath \/ Prepare \/ Clone \/ AwaitChild
    BY <2>1 DEF ArmParentDeath, Prepare, Clone, AwaitChild, CleanupInv,
                LiveProc, LauncherAlive, getppid
  <2>2. CASE ArmTimeout \/ HandleTerm \/ HandleInt
    BY <2>2 DEF ArmTimeout, HandleTerm, HandleInt, CleanupInv, LiveProc,
                LauncherAlive
  <2>3. CASE ReapPid1
    BY <2>3 DEF ReapPid1, CleanupInv, LiveProc, LauncherAlive
  <2>4. CASE Interrupted
    BY <2>4 DEF Interrupted, CleanupInv, LiveProc, LauncherAlive, getppid
  <2>5. CASE MiniSbxSetError \/ CleanupAndReturn
    BY <2>5 DEF MiniSbxSetError, CleanupAndReturn, LauncherEnds, CleanupInv,
                LiveProc, LauncherAlive
  <2>6. CASE SignalChild
    BY <2>6 DEF SignalChild, LauncherEnds, CleanupInv, LiveProc, LauncherAlive
  <2>7. ASSUME NEW s \in Signals, LauncherKilled(s) PROVE CleanupInv'
    BY <2>7 DEF LauncherKilled, LauncherEnds, CleanupInv, LiveProc,
                LauncherAlive
  <2>8. ASSUME NEW s \in Signals, OnTimeoutOrTerm(s) PROVE CleanupInv'
    BY <2>8 DEF OnTimeoutOrTerm, CleanupInv, LiveProc, LauncherAlive
  <2>9. CASE Pid1WaitPipe \/ Pid1ArmParentDeath \/ Pid1Setup
    BY <2>9 DEF Pid1WaitPipe, Pid1ArmParentDeath, Pid1Setup, CleanupInv,
                LiveProc, LauncherAlive
  <2>10. CASE SpawnChild \/ InstallForward
    BY <2>10 DEF SpawnChild, InstallForward, CleanupInv, LiveProc,
                 LauncherAlive
  <2>11. CASE Pid1SignalPipe \/ Pid1Dies \/ Pid1Killed
    BY <2>11 DEF Pid1SignalPipe, Pid1Dies, Pid1Killed, Pid1Ends, Pid1Alive,
                 CleanupInv, LiveProc, LauncherAlive
  <2>12. ASSUME NEW p \in Procs, WaitForChild(p) PROVE CleanupInv'
    BY <2>12 DEF WaitForChild, Pid1Ends, CleanupInv, LiveProc, LauncherAlive
  <2>13. CASE ForwardSignal
    BY <2>13 DEF ForwardSignal, CleanupInv, LiveProc, LauncherAlive
  <2>14. CASE NamespaceEmptied
    <3>1. \A p \in Procs : ~LiveProc(p)'
      BY <2>14 DEF NamespaceEmptied, LiveProc, TypeOK
    <3>2. QED
      BY <2>14, <3>1 DEF NamespaceEmptied, CleanupInv, LauncherAlive
  <2>15. ASSUME NEW p \in Procs, NEW st, LiveProc(p), ProcEnds(p, st)
         PROVE  CleanupInv'
    BY <2>15 DEF ProcEnds, TypeOK, CleanupInv, LiveProc, LauncherAlive
  <2>16. CASE ChildSetpgid \/ ChildExec
    BY <2>16 DEF ChildSetpgid, ChildExec, TypeOK, CleanupInv, LiveProc,
                 LauncherAlive
  <2>17. ASSUME NEW p \in Procs, NEW d \in Desc, ProcForks(p, d)
         PROVE  CleanupInv'
    BY <2>17 DEF ProcForks, Pid1Alive, TypeOK, CleanupInv, LiveProc,
                 LauncherAlive
  <2>18. ASSUME NEW p \in Procs, ProcSurvivesTerm(p) PROVE CleanupInv'
    BY <2>18 DEF ProcSurvivesTerm, CleanupInv, LiveProc, LauncherAlive
  <2>19. CASE KillPid1 \/ InvokerDies \/ AlarmExpires
    BY <2>19 DEF KillPid1, InvokerDies, AlarmExpires, CleanupInv, LiveProc,
                 LauncherAlive
  <2>20. ASSUME NEW s \in Signals, LauncherIgnores(s) \/ SignalLauncher(s)
         PROVE  CleanupInv'
    BY <2>20 DEF LauncherIgnores, SignalLauncher, CleanupInv, LiveProc,
                 LauncherAlive
  <2>21. CASE UNCHANGED vars
    BY <2>21 DEF vars, CleanupInv, LiveProc, LauncherAlive
  <2>22. CASE LauncherStep
    BY <2>1, <2>2, <2>3, <2>4, <2>5, <2>6, <2>22 DEF LauncherStep
  <2>23. CASE Pid1Step
    BY <2>9, <2>10, <2>11, <2>12, <2>13, <2>23 DEF Pid1Step
  <2>24. CASE ChildStep
    BY <2>15, <2>16, <2>24 DEF ChildStep, ChildDies, LiveProc
  <2>25. CASE PayloadStep
    BY <2>15, <2>17, <2>18, <2>25 DEF PayloadStep, ProcExits, ProcKilled,
                                      LiveProc
  <2>26. CASE KernelStep
    BY <2>7, <2>8, <2>11, <2>14, <2>15, <2>19, <2>26 DEF KernelStep, ProcKilled
  <2>27. CASE Environment
    BY <2>19, <2>20, <2>27 DEF Environment, Signals
  <2>28. QED
    BY <2>21, <2>22, <2>23, <2>24, <2>25, <2>26, <2>27 DEF Next, Finished
<1>3. QED
  BY <1>1, <1>2, TypeCorrect, PTL DEF Spec

\* The directories of a run outlive every process that could be using them.
THEOREM CleanupSafety == Spec => []CleanupOnlyWhenEmpty
<1>1. CleanupInv => CleanupOnlyWhenEmpty
  BY DEF CleanupInv, CleanupOnlyWhenEmpty, SandboxEmpty, LiveProc
<1>2. QED
  BY <1>1, CleanupInvariant, PTL

(***************************************************************************)
(* The exit status of the command travels up unchanged.                    *)
(***************************************************************************)

\* The payload has a status when it has ended, and only then.
PayloadStatus ==
  IF proc[Payload] \in {"zombie", "gone"}
  THEN cstatus.kind \in {"exit", "signal"}
  ELSE cstatus = NoStatus

\* A pid1 that has ended was killed, gave up before it had a payload, or has
\* taken over the status of the payload it has reaped.
Pid1Status ==
  ppc \in {"dying", "zombie", "reaped"} =>
    \/ pstatus = Signaled(SIGKILL)
    \/ pstatus = Exited(EXIT_FAILURE) /\ proc[Payload] = "none"
    \/ pstatus = Exited(ExitCode(cstatus)) /\ proc[Payload] = "gone"

\* What the launcher has of pid1's status, while the invoker can see it.
LauncherStatus ==
  /\ lpc = "reaped" /\ invoker => child_status = ExitCode(pstatus)
  /\ lpc = "exited" /\ invoker /\ ppc = "reaped" => lstatus = Exited(ExitCode(pstatus))

StatusInv == PayloadStatus /\ Pid1Status /\ LauncherStatus

\* A step that leaves all statuses, and what they depend on, alone.
LEMMA StatusUntouched ==
  ASSUME StatusInv, UNCHANGED <<ppc, pstatus, cstatus, lstatus, child_status, lpc>>,
         proc'[Payload] = proc[Payload], invoker' => invoker
  PROVE  StatusInv'
BY DEF StatusInv, PayloadStatus, Pid1Status, LauncherStatus

\* The launcher moves on and is neither reaping nor returning.
LEMMA StatusLauncherMoves ==
  ASSUME StatusInv, UNCHANGED <<pstatus, cstatus, proc, invoker>>,
         ppc' = ppc \/ ppc' = "born", lpc' \notin {"reaped", "exited"}
  PROVE  StatusInv'
BY DEF StatusInv, PayloadStatus, Pid1Status, LauncherStatus

\* The end of pid1: its status is one of the three.
LEMMA StatusPid1Ends ==
  ASSUME StatusInv, NEW st, Pid1Ends(st), UNCHANGED <<cstatus, lpc, lstatus, child_status, invoker>>,
         lpc \notin {"reaped", "exited"} \/ ~invoker \/ ppc # "reaped",
         lpc = "reaped" /\ invoker => ppc = "reaped",
         PayloadStatus',
         \/ st = Signaled(SIGKILL)
         \/ st = Exited(EXIT_FAILURE) /\ proc'[Payload] = "none"
         \/ st = Exited(ExitCode(cstatus)) /\ proc'[Payload] = "gone"
  PROVE  StatusInv'
<1>1. ppc' = "dying" /\ pstatus' = st
  BY DEF Pid1Ends
<1>2. Pid1Status'
  BY <1>1 DEF Pid1Status
<1>3. LauncherStatus'
  BY <1>1 DEF LauncherStatus
<1>4. QED
  BY <1>2, <1>3 DEF StatusInv

\* Through pid1 and the launcher, and past adopted orphans, signals and a
\* restarted wait, the status of the command is what the launcher exits with.
THEOREM StatusSafety == Spec => []ExitStatusFaithful
<1> USE ConstantsAssumption, ProcessesDistinct
<1>1. Init => StatusInv
  BY DEF Init, StatusInv, PayloadStatus, Pid1Status, LauncherStatus
<1>2. TypeOK /\ CleanupInv /\ StatusInv /\ [Next]_vars => StatusInv'
  <2> SUFFICES ASSUME TypeOK, CleanupInv, StatusInv, [Next]_vars PROVE StatusInv'
    OBVIOUS
  <2> USE DEF launcherVars, pid1Vars, procVars, history
  <2>0. /\ ppc \in {"none", "born", "resumed", "armed", "linked", "ready"}
             => proc[Payload] = "none"
        /\ lpc = "reaped" /\ invoker => ppc = "reaped"
    BY DEF CleanupInv
  <2>1. CASE ArmParentDeath \/ Prepare \/ Clone \/ AwaitChild \/ ArmTimeout
             \/ HandleTerm \/ HandleInt
    BY <2>1, StatusLauncherMoves
       DEF ArmParentDeath, Prepare, Clone, AwaitChild, ArmTimeout, HandleTerm, HandleInt
  <2>2. CASE SignalChild
    BY <2>2, StatusLauncherMoves DEF SignalChild, LauncherEnds
  <2>3. CASE MiniSbxSetError
    <3>1. ppc' = "none"
      BY <2>3 DEF MiniSbxSetError, CleanupInv
    <3>2. QED
      BY <2>3, <3>1 DEF MiniSbxSetError, LauncherEnds, StatusInv, PayloadStatus,
                        Pid1Status, LauncherStatus
  <2>4. CASE ReapPid1
    BY <2>4 DEF ReapPid1, StatusInv, PayloadStatus, Pid1Status, LauncherStatus
  <2>5. CASE Interrupted
    <3>1. invoker => getppid = initial_ppid
      BY <2>5 DEF Interrupted, CleanupInv, LauncherAlive, getppid
    <3>2. CASE lpc' = "waiting"
      BY <2>5, <3>2, StatusLauncherMoves DEF Interrupted
    <3>3. CASE ~invoker /\ lpc' = "reaped"
      BY <2>5, <3>3 DEF Interrupted, StatusInv, PayloadStatus, Pid1Status, LauncherStatus
    <3>4. QED
      BY <2>5, <3>1, <3>2, <3>3 DEF Interrupted
  <2>6. CASE CleanupAndReturn
    BY <2>6 DEF CleanupAndReturn, LauncherEnds, StatusInv, PayloadStatus, Pid1Status,
                LauncherStatus
  <2>7. ASSUME NEW x \in Signals, LauncherKilled(x) PROVE StatusInv'
    BY <2>7, StatusLauncherMoves DEF LauncherKilled, LauncherEnds
  <2>8. ASSUME NEW x \in Signals, OnTimeoutOrTerm(x) PROVE StatusInv'
    <3>1. CASE lpc' = lpc
      BY <2>8, <3>1, StatusUntouched DEF OnTimeoutOrTerm
    <3>2. CASE lpc' = "interrupted"
      BY <2>8, <3>2, StatusLauncherMoves DEF OnTimeoutOrTerm
    <3>3. QED
      BY <2>8, <3>1, <3>2 DEF OnTimeoutOrTerm
  <2>9. CASE Pid1WaitPipe \/ Pid1ArmParentDeath \/ Pid1Setup \/ InstallForward
    BY <2>9 DEF Pid1WaitPipe, Pid1ArmParentDeath, Pid1Setup, InstallForward,
                StatusInv, PayloadStatus, Pid1Status, LauncherStatus
  <2>10. CASE SpawnChild
    <3>1. proc'[Payload] = "forked" /\ cstatus' = NoStatus
      BY <2>0, <2>10 DEF SpawnChild, TypeOK, StatusInv, PayloadStatus
    <3>2. QED
      BY <2>10, <3>1 DEF SpawnChild, StatusInv, PayloadStatus, Pid1Status, LauncherStatus
  <2>11. CASE Pid1SignalPipe
    <3>1. CASE ppc' = "linked" /\ UNCHANGED pstatus
      BY <2>11, <3>1 DEF Pid1SignalPipe, StatusInv, PayloadStatus, Pid1Status, LauncherStatus
    <3>2. CASE Pid1Ends(Exited(EXIT_FAILURE))
      <4>1. PayloadStatus'
        BY <2>11 DEF Pid1SignalPipe, StatusInv, PayloadStatus
      <4>2. QED
        BY <2>0, <2>11, <3>2, <4>1, StatusPid1Ends DEF Pid1SignalPipe
    <3>3. QED
      BY <2>11, <3>1, <3>2 DEF Pid1SignalPipe
  <2>12. CASE Pid1Dies \/ Pid1Killed
    <3>1. PayloadStatus'
      BY <2>12 DEF Pid1Dies, Pid1Killed, StatusInv, PayloadStatus
    <3>2. CASE Pid1Dies
      BY <2>0, <3>1, <3>2, StatusPid1Ends DEF Pid1Dies
    <3>3. CASE Pid1Killed
      BY <2>0, <3>1, <3>3, StatusPid1Ends DEF Pid1Killed, Pid1Alive
    <3>4. QED
      BY <2>12, <3>2, <3>3
  <2>13. ASSUME NEW p \in Procs, WaitForChild(p) PROVE StatusInv'
    <3>1. CASE p # Payload
      <4>1. proc'[Payload] = proc[Payload]
        BY <2>13, <3>1 DEF WaitForChild, TypeOK
      <4>2. QED
        BY <2>13, <3>1, <4>1, StatusUntouched DEF WaitForChild
    <3>2. CASE p = Payload
      <4>1. proc'[Payload] = "gone" /\ proc[Payload] = "zombie"
        BY <2>13, <3>2 DEF WaitForChild, TypeOK
      <4>2. PayloadStatus'
        BY <2>13, <4>1 DEF WaitForChild, StatusInv, PayloadStatus
      <4>3. QED
        BY <2>0, <2>13, <3>2, <4>1, <4>2, StatusPid1Ends DEF WaitForChild
    <3>3. QED
      BY <3>1, <3>2
  <2>14. CASE ForwardSignal \/ KillPid1 \/ InvokerDies \/ AlarmExpires
    BY <2>14, StatusUntouched DEF ForwardSignal, KillPid1, InvokerDies, AlarmExpires
  <2>15. CASE NamespaceEmptied
    <3>1. /\ proc[Payload] \notin {"forked", "grouped", "running"}
          /\ proc'[Payload] = IF proc[Payload] = "zombie" THEN "gone" ELSE proc[Payload]
      BY <2>15 DEF NamespaceEmptied, LiveProc
    <3>2. QED
      BY <2>15, <3>1 DEF NamespaceEmptied, StatusInv, PayloadStatus, Pid1Status, LauncherStatus
  <2>16. CASE ChildSetpgid \/ ChildExec
    <3>1. /\ proc[Payload] \in {"forked", "grouped"}
          /\ proc'[Payload] \in {"grouped", "running"}
      BY <2>16 DEF ChildSetpgid, ChildExec, TypeOK
    <3>2. QED
      BY <2>16, <3>1 DEF ChildSetpgid, ChildExec, StatusInv, PayloadStatus, Pid1Status,
                         LauncherStatus
  <2>17. ASSUME NEW p \in Procs, NEW st, LiveProc(p), ProcEnds(p, st),
                st.kind \in {"exit", "signal"}
         PROVE  StatusInv'
    <3>1. CASE p # Payload
      <4>1. proc'[Payload] = proc[Payload] /\ cstatus' = cstatus
        BY <2>17, <3>1 DEF ProcEnds, TypeOK
      <4>2. QED
        BY <2>17, <4>1, StatusUntouched DEF ProcEnds
    <3>2. CASE p = Payload
      <4>1. /\ proc'[Payload] = "zombie" /\ cstatus' = st
            /\ proc[Payload] \notin {"none", "gone"}
        BY <2>17, <3>2 DEF ProcEnds, TypeOK, LiveProc
      <4>2. QED
        BY <2>17, <4>1 DEF ProcEnds, StatusInv, PayloadStatus, Pid1Status, LauncherStatus
    <3>3. QED
      BY <3>1, <3>2
  <2>18. ASSUME NEW p \in Procs, NEW d \in Desc, ProcForks(p, d) PROVE StatusInv'
    <3>1. proc'[Payload] = proc[Payload]
      BY <2>18 DEF ProcForks, TypeOK
    <3>2. QED
      BY <2>18, <3>1, StatusUntouched DEF ProcForks
  <2>19. ASSUME NEW p \in Procs, ProcSurvivesTerm(p) PROVE StatusInv'
    BY <2>19, StatusUntouched DEF ProcSurvivesTerm
  <2>20. ASSUME NEW x \in Signals, LauncherIgnores(x) \/ SignalLauncher(x) PROVE StatusInv'
    BY <2>20, StatusUntouched DEF LauncherIgnores, SignalLauncher
  <2>21. CASE UNCHANGED vars
    BY <2>21, StatusUntouched DEF vars
  <2>22. /\ \A n : Exited(n).kind \in {"exit", "signal"}
         /\ \A n : Signaled(n).kind \in {"exit", "signal"}
    BY DEF Exited, Signaled
  <2>23. CASE LauncherStep
    BY <2>1, <2>2, <2>3, <2>4, <2>5, <2>6, <2>23 DEF LauncherStep
  <2>24. CASE Pid1Step
    BY <2>9, <2>10, <2>11, <2>12, <2>13, <2>14, <2>24 DEF Pid1Step
  <2>25. CASE ChildStep
    BY <2>16, <2>17, <2>22, <2>25 DEF ChildStep, ChildDies, LiveProc
  <2>26. CASE PayloadStep
    BY <2>17, <2>18, <2>19, <2>22, <2>26 DEF PayloadStep, ProcExits, ProcKilled, LiveProc
  <2>27. CASE KernelStep
    BY <2>7, <2>8, <2>12, <2>14, <2>15, <2>17, <2>22, <2>27 DEF KernelStep, ProcKilled
  <2>28. CASE Environment
    BY <2>14, <2>20, <2>28 DEF Environment, Signals
  <2>29. QED
    BY <2>21, <2>23, <2>24, <2>25, <2>26, <2>27, <2>28 DEF Next, Finished
<1>3. StatusInv /\ TypeOK => ExitStatusFaithful
  <2> SUFFICES ASSUME StatusInv, TypeOK, lpc = "exited", invoker, ppc = "reaped"
               PROVE  lstatus.n = IF pstatus.kind = "signal" THEN 128 + SIGKILL
                                  ELSE CASE cstatus.kind = "signal" -> 128 + cstatus.n
                                         [] cstatus.kind = "exit"   -> cstatus.n
                                         [] OTHER                   -> EXIT_FAILURE
    BY DEF ExitStatusFaithful
  <2>1. lstatus.n = ExitCode(pstatus)
    BY DEF StatusInv, LauncherStatus, Exited
  <2>2. CASE pstatus = Signaled(SIGKILL)
    BY <2>1, <2>2 DEF Signaled, ExitCode
  <2>3. CASE pstatus = Exited(EXIT_FAILURE) /\ proc[Payload] = "none"
    <3>1. cstatus.kind = "none"
      BY <2>3 DEF StatusInv, PayloadStatus, NoStatus
    <3>2. QED
      BY <2>1, <2>3, <3>1 DEF Exited, ExitCode
  <2>4. CASE pstatus = Exited(ExitCode(cstatus)) /\ proc[Payload] = "gone"
    <3>1. cstatus.kind \in {"exit", "signal"}
      BY <2>4 DEF StatusInv, PayloadStatus
    <3>2. QED
      BY <2>1, <2>4, <3>1 DEF Exited, ExitCode
  <2>5. QED
    BY <2>2, <2>3, <2>4 DEF StatusInv, Pid1Status
<1>4. QED
  BY <1>1, <1>2, <1>3, TypeCorrect, CleanupInvariant, PTL DEF Spec

=============================================================================
