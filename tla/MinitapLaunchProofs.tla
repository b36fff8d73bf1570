------------------------- MODULE MinitapLaunchProofs --------------------------
(***************************************************************************)
(* Proofs about MinitapLaunch, for every set of faults.                    *)
(***************************************************************************)
EXTENDS MinitapLaunch, TLAPS

(***************************************************************************)
(* The inductive invariant.                                                *)
(***************************************************************************)

\* Who may have ended the wait in RunMinitap: minitap with its rules in place,
\* a stranger, or a minitap that could not be executed and is no more.
Released ==
  \/ rules
  \/ "stray" \in happened
  \/ minitap \in {"exiting", "exited"} /\ netns = "host"

\* A process has no child before it has forked it, and minitap runs through its
\* steps in order: prctl before it has the namespace, that before the rules,
\* and those before it signals.
MinitapOrder ==
  /\ caller = "fork" => helper = "none"
  /\ helper \in {"none", "unshare", "fork"} => inner = "none"
  /\ inner \in {"none", "start"} => minitap = "none"
  /\ minitap \in {"none", "exec", "prctl", "unshare", "exiting"} => netns = "host"
  /\ minitap \in {"unshare", "tun", "firewall", "signal", "serving"} => armed
  /\ minitap \in {"signal", "serving"} => rules
  /\ rules => armed /\ minitap \notin {"none", "exec", "prctl"}

\* A signal that is pending or was handled, and the test that saw it, stand
\* for a release.
WaitReleased ==
  /\ sigusr1 => Released
  /\ received => Released
  /\ inner = "join" => received

LaunchInv ==
  /\ TypeOK
  /\ MinitapOrder
  /\ WaitReleased
  /\ StartsBehindFirewall
  /\ NoMinitapLeft

(***************************************************************************)
(* The proofs.                                                             *)
(***************************************************************************)

\* The invariant holds when MiniSbxStart is called.
LEMMA LaunchInit == Init => LaunchInv
<1> SUFFICES ASSUME Init PROVE LaunchInv
  OBVIOUS
<1>1. status \in [inner: {0, EXIT_FAILURE}, helper: {0, EXIT_FAILURE}]
  BY DEF Init
<1>2. TypeOK
  BY <1>1, Zenon DEF Init, TypeOK, Setup, Ended
<1>3. MinitapOrder /\ WaitReleased /\ StartsBehindFirewall /\ NoMinitapLeft
  BY DEF Init, MinitapOrder, WaitReleased, StartsBehindFirewall, NoMinitapLeft, Ended
<1>4. QED
  BY <1>2, <1>3 DEF LaunchInv

\* Every step of the four processes, and every signal, preserves it.
LEMMA LaunchStep == LaunchInv /\ [Next]_vars => LaunchInv'
<1> SUFFICES ASSUME LaunchInv, [Next]_vars PROVE LaunchInv'
  OBVIOUS
<1> USE DEF LaunchInv, TypeOK, MinitapOrder, WaitReleased, Released,
            StartsBehindFirewall, NoMinitapLeft, MinitapAlive, Setup, Ended,
            Fault, minitapVars, EXIT_FAILURE
<1>1. CASE RunTCPIP
  BY <1>1 DEF RunTCPIP
<1>2. CASE CallerReturns
  BY <1>2 DEF CallerReturns
<1>3. CASE UnshareUser
  BY <1>3 DEF UnshareUser, HelperEnds
<1>4. CASE ForkInner
  <2>1. TypeOK'
    BY <1>4 DEF ForkInner, HelperEnds
  <2>2. MinitapOrder'
    BY <1>4 DEF ForkInner, HelperEnds
  <2>3. WaitReleased'
    BY <1>4 DEF ForkInner, HelperEnds
  <2>4. StartsBehindFirewall'
    BY <1>4 DEF ForkInner, HelperEnds
  <2>5. NoMinitapLeft'
    BY <1>4 DEF ForkInner, HelperEnds
  <2>6. QED
    BY <2>1, <2>2, <2>3, <2>4, <2>5
<1>5. CASE RelayInner
  BY <1>5 DEF RelayInner, HelperEnds
<1>6. CASE RunMinitap
  BY <1>6 DEF RunMinitap
<1>7. CASE TestReceived
  BY <1>7 DEF TestReceived
<1>8. CASE Pause
  BY <1>8 DEF Pause
<1>9. CASE handler
  <2>1. TypeOK'
    <3>1. sigusr1' \in BOOLEAN /\ received' \in BOOLEAN
      BY <1>9, Zenon DEF handler
    <3>2. QED
      BY <1>9, <3>1 DEF handler
  <2>2. MinitapOrder'
    BY <1>9 DEF handler
  <2>3. WaitReleased'
    BY <1>9 DEF handler
  <2>4. StartsBehindFirewall'
    BY <1>9 DEF handler
  <2>5. NoMinitapLeft'
    BY <1>9 DEF handler
  <2>6. QED
    BY <2>1, <2>2, <2>3, <2>4, <2>5
<1>10. CASE JoinNetNs
  BY <1>10 DEF JoinNetNs, InnerEnds
<1>11. CASE InitDone
  BY <1>11 DEF InitDone
<1>12. CASE LauncherEnds
  BY <1>12 DEF LauncherEnds, InnerEnds
<1>13. CASE ExecFails
  BY <1>13 DEF ExecFails, SignalParent
<1>14. CASE Exit
  BY <1>14 DEF Exit
<1>15. CASE main
  BY <1>15 DEF main
<1>16. CASE Prctl
  <2>1. TypeOK'
    BY <1>16 DEF Prctl, RunNetwork
  <2>2. MinitapOrder'
    BY <1>16 DEF Prctl, RunNetwork
  <2>3. WaitReleased'
    BY <1>16 DEF Prctl, RunNetwork
  <2>4. StartsBehindFirewall'
    BY <1>16 DEF Prctl, RunNetwork
  <2>5. NoMinitapLeft'
    BY <1>16 DEF Prctl, RunNetwork
  <2>6. QED
    BY <2>1, <2>2, <2>3, <2>4, <2>5
<1>17. CASE UnshareNet
  BY <1>17 DEF UnshareNet, RunNetwork
<1>18. CASE SetUpTun
  BY <1>18 DEF SetUpTun, RunNetwork
<1>19. CASE InitFirewall
  BY <1>19 DEF InitFirewall
<1>20. CASE SignalReady
  BY <1>20 DEF SignalReady, SignalParent
<1>21. CASE MinitapKilled
  <2>1. TypeOK'
    <3>1. sigkill' \in BOOLEAN
      BY <1>21, Zenon DEF MinitapKilled
    <3>2. QED
      BY <1>21, <3>1 DEF MinitapKilled
  <2>2. MinitapOrder'
    BY <1>21 DEF MinitapKilled
  <2>3. WaitReleased'
    BY <1>21 DEF MinitapKilled
  <2>4. StartsBehindFirewall'
    BY <1>21 DEF MinitapKilled
  <2>5. NoMinitapLeft'
    BY <1>21 DEF MinitapKilled
  <2>6. QED
    BY <2>1, <2>2, <2>3, <2>4, <2>5
<1>22. CASE KillMinitap
  <2>1. TypeOK'
    <3>1. sigkill' \in BOOLEAN
      BY <1>22, Zenon DEF KillMinitap
    <3>2. QED
      BY <1>22, <3>1 DEF KillMinitap
  <2>2. MinitapOrder'
    BY <1>22 DEF KillMinitap
  <2>3. WaitReleased'
    BY <1>22 DEF KillMinitap
  <2>4. StartsBehindFirewall'
    BY <1>22 DEF KillMinitap
  <2>5. NoMinitapLeft'
    BY <1>22 DEF KillMinitap
  <2>6. QED
    BY <2>1, <2>2, <2>3, <2>4, <2>5
<1>23. CASE KillCaller
  BY <1>23 DEF KillCaller
<1>24. CASE KillHelper
  BY <1>24 DEF KillHelper, HelperEnds
<1>25. CASE KillInner
  BY <1>25 DEF KillInner, InnerEnds
<1>26. CASE StraySignal
  BY <1>26 DEF StraySignal
<1>27. CASE UNCHANGED vars
  BY <1>27 DEF vars
<1>28. QED
  BY <1>1, <1>2, <1>3, <1>4, <1>5, <1>6, <1>7, <1>8, <1>9, <1>10, <1>11, <1>12, <1>13, <1>14, <1>15, <1>16, <1>17, <1>18, <1>19, <1>20, <1>21, <1>22, <1>23, <1>24, <1>25, <1>26, <1>27
  DEF Next, HelperSteps, InnerSteps, MinitapSteps, Finished

\* The invariant is inductive.
LEMMA LaunchInvariant == Spec => []LaunchInv
BY LaunchInit, LaunchStep, PTL DEF Spec

\* Every state of the launch is one the four processes can be in.
THEOREM LaunchTypeCorrect == Spec => []TypeOK
<1>1. LaunchInv => TypeOK
  BY DEF LaunchInv
<1>2. QED
  BY <1>1, LaunchInvariant, PTL

\* Whatever fails, RunMinitap lets the start go on only in minitap's network
\* namespace and behind its rules.
THEOREM FirewallSafety == Spec => []StartsBehindFirewall
<1>1. LaunchInv => StartsBehindFirewall
  BY DEF LaunchInv
<1>2. QED
  BY <1>1, LaunchInvariant, PTL

\* minitap, which asks for a parent death signal, does not outlive the process
\* that launched it.
THEOREM MinitapSafety == Spec => []NoMinitapLeft
<1>1. LaunchInv => NoMinitapLeft
  BY DEF LaunchInv
<1>2. QED
  BY <1>1, LaunchInvariant, PTL

=============================================================================
