--------------------------- MODULE LibraryStartProofs ---------------------------
(***************************************************************************)
(* Proofs about LibraryStart, for every set of applications, of exit codes *)
(* and of faults, and for every configuration of every application.        *)
(***************************************************************************)
EXTENDS LibraryStart, TLAPS

(***************************************************************************)
(* The inductive invariant, for each application.                          *)
(***************************************************************************)

\* A process has no child before it forks it, the caller stops waiting for C1
\* once C1 has ended or a signal has come, and cleans up when it is done.
ForkOrder(a) ==
  /\ ppc[a] \in {"idle", "creating", "tap", "launching", "hung", "fork"} => c1[a] = "none"
  /\ c1[a] \in {"none", "start"} => c2[a] = "none"
  /\ c1[a] \in {"none", "start", "signal"} => ~sent[a]
  /\ ppc[a] = "read" => c1[a] = "dead" /\ c1stat[a] # Killed
  /\ ppc[a] = "returned" => c1[a] = "none" \/ (c1[a] = "dead" /\ c1stat[a] # Killed)
  /\ ppc[a] \in {"exited", "killed"} =>
       c1[a] \in {"none", "dead"} \/ faults[a] \cap {"signal", "kill"} # {}
  /\ ppc[a] = "killed" => "kill" \in faults[a]
  /\ cleaned[a] => ppc[a] \in {"returned", "exited"} \/ "kill" \in faults[a]

\* The original process of a TAP build waits in RunTCPIP, and only there.
OuterOrder(a) ==
  /\ ~setup[a].tap => opc[a] = "none" /\ ppc[a] \notin {"tap", "launching", "hung"}
  /\ setup[a].tap /\ opc[a] = "none" =>
       \/ ppc[a] \in {"idle", "creating", "tap", "returned", "killed"}
       \/ ppc[a] = "exited" /\ "fork" \in faults[a]
  /\ opc[a] # "none" => ppc[a] \notin {"idle", "creating", "tap", "returned"}
  /\ opc[a] = "returned" => ppc[a] \in {"exited", "killed"} \/ "signal" \in faults[a]
  /\ opc[a] = "exited" =>
       ppc[a] \in {"exited", "killed"} \/ faults[a] \cap {"signal", "kill"} # {}
  /\ opc[a] = "killed" => "kill" \in faults[a]

\* C1 ends after C2, unless somebody kills it; and it is killed by SIGPIPE only
\* if there is no C2 that reads what it writes.
C1OutlivesC2(a) ==
  /\ c1[a] = "waitpid" => ~C2Alive(a)
  /\ c1[a] = "dead" => ~C2Alive(a) \/ (c1stat[a] = Killed /\ "kill" \in faults[a])
  /\ c1[a] = "signal" => c2[a] = "waitpipe" \/ faults[a] \cap {"unshare", "spawn"} # {}
  /\ c1[a] = "dead" /\ c1stat[a] = Killed => faults[a] \cap {"unshare", "spawn", "kill"} # {}

\* What the init file, and the copy that the caller has read of it, say of an
\* application that went on in the sandbox, and of one that did not.
FileTells(a) ==
  /\ ran[a] => c2[a] \in {"app", "dead"}
  /\ c2[a] = "app" => ran[a]
  /\ Alone(a) /\ "init" \notin faults[a] /\ (ran[a] \/ c2[a] = "caps") =>
       /\ file[InitFile(a)] \in {"1", "absent"}
       /\ ppc[a] = "read" => init[a] # "0"
  /\ Alone(a) /\ faults[a] \cap {"signal", "kill", "caps"} = {} /\ ~ran[a] =>
       /\ \/ ppc[a] \in {"tap", "launching", "hung", "fork", "waiting", "read"}
          \/ ppc[a] = "exited" /\ setup[a].tap /\ setup[a].mode # "private"
          => file[InitFile(a)] = "0" \/ c2[a] \in {"initdone", "caps"}
       /\ ppc[a] = "read" => init[a] = "0"

\* The properties, for one application.
Safe(a) ==
  /\ Alone(a) /\ ~Undecided(a) => ~(ran[a] /\ Continues(a))
  /\ Alone(a) /\ ~EndsTheProcess(a) /\ Ended(a) => ran[a]

AppInv(a) ==
  ForkOrder(a) /\ OuterOrder(a) /\ C1OutlivesC2(a) /\ FileTells(a) /\ Safe(a)

StartInv == TypeOK /\ \A a \in Apps : AppInv(a)

(***************************************************************************)
(* Lemmas about the operators the actions share.                           *)
(***************************************************************************)

\* One step of the processes of application a: what Next is made of.
AppStep(a) ==
  \/ CallerStep(a) \/ C1Step(a) \/ C2Step(a)
  \/ WaitPipeInterrupted(a) \/ C1WaitInterrupted(a) \/ WaitInterrupted(a)
  \/ OuterGivesUp(a) \/ LaunchHangs(a) \/ KillCaller(a) \/ KillC1(a)

\* The files that MiniSbxGetInitFile names: private ones are per application,
\* and one that is not shared is written by nobody else.
LEMMA FileNames ==
  ASSUME TypeOK, NEW a \in Apps
  PROVE  /\ setup[a] \in Setup
         /\ InitFile(a) \in Files /\ InnerInitFile(a) \in Files
         /\ setup[a].mode = "private" => InitFile(a) = a
         /\ Alone(a) => InnerInitFile(a) = InitFile(a)
         /\ \A b \in Apps : b # a /\ Alone(a) =>
              InitFile(b) # InitFile(a) /\ InnerInitFile(b) # InitFile(a)
<1>1. setup[a] \in Setup
  BY LibraryAssumption DEF TypeOK
<1>2. setup[a].mode \in Modes
  BY <1>1 DEF Setup
<1>3. InitFile(a) \in Files
  BY <1>2 DEF InitFile, Files, Modes
<1>4. setup[a].mode = "private" => InitFile(a) = a
  BY DEF InitFile
<1>5. QED
  BY <1>1, <1>3, <1>4 DEF InnerInitFile, Files, Alone

\* Configurations do not change, and so neither do the names of the files.
LEMMA NamesKept ==
  ASSUME NEW a \in Apps, setup' = setup
  PROVE  /\ InitFile(a)' = InitFile(a)
         /\ Alone(a)' <=> Alone(a)
<1>1. \A b \in Apps : InitFile(b)' = InitFile(b) /\ InnerInitFile(b)' = InnerInitFile(b)
  BY DEF InitFile, InnerInitFile
<1>2. QED
  BY <1>1 DEF Alone

\* The statuses the model builds are statuses, and Relay makes an exit code.
LEMMA StatusTypes ==
  /\ {NoStatus, Killed, EXIT_FAILURE, ExitMinusOne, 0} \cup Codes \subseteq Statuses
  /\ EXIT_FAILURE # Killed /\ ExitMinusOne # Killed
  /\ \A st \in Statuses : Relay(st) \in Statuses \ {Killed}
BY LibraryAssumption
   DEF Statuses, NoStatus, Killed, EXIT_FAILURE, ExitMinusOne, Relay

(***************************************************************************)
(* Type correctness.                                                       *)
(***************************************************************************)

\* No process runs when the application calls.
LEMMA StartTypeInit == Init => TypeOK
<1> SUFFICES ASSUME Init PROVE TypeOK
  OBVIOUS
<1>1. /\ sent \in [Apps -> BOOLEAN] /\ ran \in [Apps -> BOOLEAN]
      /\ cleaned \in [Apps -> BOOLEAN]
  BY Zenon DEF Init
<1>2. /\ ostat \in [Apps -> Statuses] /\ pstat \in [Apps -> Statuses]
      /\ \A a \in Apps : ostat[a] # Killed
      /\ c1stat \in [Apps -> Statuses] /\ c2stat \in [Apps -> Statuses]
  BY DEF Init, Statuses, NoStatus, Killed
<1>3. QED
  BY <1>1, <1>2 DEF Init, TypeOK

\* Every step keeps the types.
LEMMA StartTypeStep == TypeOK /\ [Next]_vars => TypeOK'
<1> SUFFICES ASSUME TypeOK, [Next]_vars PROVE TypeOK'
  OBVIOUS
<1>1. ASSUME NEW a \in Apps, AppStep(a) PROVE TypeOK'
  <2> USE StatusTypes DEF Hit, PEnds, C1Ends, C2Ends
  <2>0. InitFile(a) \in Files /\ InnerInitFile(a) \in Files /\ a \in Files
    BY FileNames DEF Files
  <2>1. CASE StartFails(a)
    BY <2>0, <2>1 DEF TypeOK, StartFails
  <2>2. CASE MiniSbxCreateInit(a)
    BY <2>0, <2>2 DEF TypeOK, MiniSbxCreateInit
  <2>3. CASE CloseInit(a)
    BY <2>0, <2>3 DEF TypeOK, CloseInit
  <2>4. CASE RunTCPIP(a)
    <3>1. /\ opc' \in [Apps -> {"none", "waiting", "returned", "exited", "killed"}]
          /\ ppc' \in [Apps -> {"idle", "creating", "tap", "launching", "hung", "fork",
                               "waiting", "read", "returned", "exited", "killed"}]
      BY <2>4 DEF TypeOK, RunTCPIP
    <3>2. /\ pstat' \in [Apps -> Statuses]
          /\ faults' \in [Apps -> SUBSET (Faults \cup {"kill"})]
      BY <2>4 DEF TypeOK, RunTCPIP
    <3>3. \A b \in Apps : opc'[b] = "exited" => ostat'[b] # Killed
      BY <2>4 DEF TypeOK, RunTCPIP
    <3>4. QED
      BY <2>4, <3>1, <3>2, <3>3 DEF TypeOK, RunTCPIP
  <2>5. CASE ForkC1(a)
    BY <2>0, <2>5 DEF TypeOK, ForkC1
  <2>6. CASE MiniSbxReadInit(a)
    BY <2>0, <2>6 DEF TypeOK, MiniSbxReadInit
  <2>7. CASE ReturnOrExit(a)
    BY <2>0, <2>7 DEF TypeOK, ReturnOrExit, Cleanup
  <2>8. CASE ChildAbnormal(a)
    BY <2>0, <2>8 DEF TypeOK, ChildAbnormal, Cleanup
  <2>9. CASE \E st \in Statuses : OuterReadInit(a, st)
    BY <2>0, <2>9 DEF TypeOK, OuterReadInit
  <2>10. CASE SpawnPid1(a)
    BY <2>0, <2>10 DEF TypeOK, SpawnPid1
  <2>11. CASE SignalPipe(a)
    <3>1. /\ sent' \in [Apps -> BOOLEAN] /\ ran' \in [Apps -> BOOLEAN]
          /\ cleaned' \in [Apps -> BOOLEAN]
      BY <2>11, Zenon DEF TypeOK, SignalPipe
    <3>2. /\ c1' \in [Apps -> {"none", "start", "signal", "waitpipe", "waitpid", "dead"}]
          /\ c1stat' \in [Apps -> Statuses]
      BY <2>11 DEF TypeOK, SignalPipe
    <3>3. QED
      BY <2>11, <3>1, <3>2 DEF TypeOK, SignalPipe
  <2>12. CASE WaitPipe(a)
    BY <2>0, <2>12 DEF TypeOK, WaitPipe
  <2>13. CASE C1Exits(a)
    BY <2>0, <2>13 DEF TypeOK, C1Exits
  <2>14. CASE Pid1NotPid1(a)
    BY <2>0, <2>14 DEF TypeOK, Pid1NotPid1
  <2>15. CASE Pid1WaitPipe(a)
    BY <2>0, <2>15 DEF TypeOK, Pid1WaitPipe
  <2>16. CASE Pid1Dies(a)
    BY <2>0, <2>16 DEF TypeOK, Pid1Dies
  <2>17. CASE InitDone(a)
    BY <2>0, <2>17 DEF TypeOK, InitDone
  <2>18. CASE WriteInit(a)
    BY <2>0, <2>18 DEF TypeOK, WriteInit
  <2>19. CASE \E st \in Codes \cup {Killed} : AppEnds(a, st)
    BY <2>19 DEF TypeOK, AppEnds
  <2>20. CASE WaitPipeInterrupted(a)
    BY <2>0, <2>20 DEF TypeOK, WaitPipeInterrupted
  <2>21. CASE WaitInterrupted(a)
    BY <2>0, <2>21 DEF TypeOK, WaitInterrupted, Cleanup
  <2>22. CASE KillCaller(a)
    BY <2>0, <2>22 DEF TypeOK, KillCaller
  <2>23. CASE KillC1(a)
    BY <2>0, <2>23 DEF TypeOK, KillC1
  <2>24. CASE Launch(a)
    BY <2>0, <2>24 DEF TypeOK, Launch
  <2>25. CASE DropCaps(a)
    <3>1. ran' \in [Apps -> BOOLEAN]
      <4>1. CASE UNCHANGED ran
        BY <4>1 DEF TypeOK
      <4>2. CASE ran' = [ran EXCEPT ![a] = TRUE]
        BY <4>2, Zenon DEF TypeOK
      <4>3. QED
        BY <2>25, <4>1, <4>2 DEF DropCaps
    <3>2. QED
      BY <2>0, <2>25, <3>1 DEF TypeOK, DropCaps
  <2>26. CASE C1WaitInterrupted(a)
    BY <2>0, <2>26 DEF TypeOK, C1WaitInterrupted
  <2>27. CASE OuterGivesUp(a)
    <3>1. /\ file' \in [Files -> {"absent", "empty", "0", "1"}]
          /\ faults' \in [Apps -> SUBSET (Faults \cup {"kill"})]
      BY <2>0, <2>27 DEF TypeOK, OuterGivesUp, Cleanup
    <3>2. cleaned' \in [Apps -> BOOLEAN]
      <4>1. CASE UNCHANGED cleaned
        BY <4>1 DEF TypeOK
      <4>2. CASE cleaned' = [cleaned EXCEPT ![a] = TRUE]
        BY <4>2, Zenon DEF TypeOK
      <4>3. QED
        BY <2>27, <4>1, <4>2 DEF OuterGivesUp, Cleanup
    <3>3. /\ opc' \in [Apps -> {"none", "waiting", "returned", "exited", "killed"}]
          /\ ostat' \in [Apps -> Statuses]
          /\ \A b \in Apps : opc'[b] = "exited" => ostat'[b] # Killed
      BY <2>27 DEF TypeOK, OuterGivesUp
    <3>4. QED
      BY <2>27, <3>1, <3>2, <3>3 DEF TypeOK, OuterGivesUp
  <2>28. CASE LaunchHangs(a)
    BY <2>0, <2>28 DEF TypeOK, LaunchHangs
  <2>29. QED
    BY <1>1, <2>1, <2>2, <2>3, <2>4, <2>5, <2>6, <2>7, <2>8, <2>9, <2>10,
       <2>11, <2>12, <2>13, <2>14, <2>15, <2>16, <2>17, <2>18, <2>19,
       <2>20, <2>21, <2>22, <2>23,
       <2>24, <2>25, <2>26, <2>27, <2>28
    DEF AppStep, CallerStep, C1Step, C2Step
<1>2. CASE UNCHANGED vars
  BY <1>2 DEF vars, TypeOK
<1>3. ASSUME NEW a \in Apps, NEW V \in SUBSET Apps, KillAndWaitAll(a, V) PROVE TypeOK'
  <2>1. /\ opc' \in [Apps -> {"none", "waiting", "returned", "exited", "killed"}]
        /\ ppc' \in [Apps -> {"idle", "creating", "tap", "launching", "hung", "fork",
                             "waiting", "read", "returned", "exited", "killed"}]
        /\ c1' \in [Apps -> {"none", "start", "signal", "waitpipe", "waitpid", "dead"}]
        /\ c2' \in [Apps -> {"none", "notpid1", "waitpipe", "setup", "initdone",
                            "caps", "app", "dead"}]
    BY <1>3 DEF TypeOK, KillAndWaitAll
  <2>2. /\ ostat' \in [Apps -> Statuses] /\ pstat' \in [Apps -> Statuses]
        /\ c1stat' \in [Apps -> Statuses] /\ c2stat' \in [Apps -> Statuses]
    BY <1>3, StatusTypes DEF TypeOK, KillAndWaitAll
  <2>3. \A b \in Apps : opc'[b] = "exited" => ostat'[b] # Killed
    BY <1>3 DEF TypeOK, KillAndWaitAll
  <2>4. faults' \in [Apps -> SUBSET (Faults \cup {"kill"})]
    BY <1>3 DEF TypeOK, KillAndWaitAll
  <2>5. QED
    BY <1>3, <2>1, <2>2, <2>3, <2>4 DEF TypeOK, KillAndWaitAll
<1>4. QED
  BY <1>1, <1>2, <1>3 DEF Next, AppStep, Finished

\* Every state of every run is well typed: what the call reports is a byte.
THEOREM StartTypeCorrect == Spec => []TypeOK
BY StartTypeInit, StartTypeStep, PTL DEF Spec

(***************************************************************************)
(* The invariant.                                                          *)
(***************************************************************************)

\* A step that leaves the processes of application b alone, and its init file
\* if that is b's own.
Untouched(b) ==
  /\ setup' = setup
  /\ opc'[b] = opc[b] /\ ppc'[b] = ppc[b] /\ c1'[b] = c1[b] /\ c2'[b] = c2[b]
  /\ sent'[b] = sent[b] /\ pstat'[b] = pstat[b] /\ ostat'[b] = ostat[b]
  /\ c1stat'[b] = c1stat[b] /\ c2stat'[b] = c2stat[b] /\ init'[b] = init[b]
  /\ ran'[b] = ran[b] /\ cleaned'[b] = cleaned[b] /\ faults'[b] = faults[b]
  /\ Alone(b) => file'[InitFile(b)] = file[InitFile(b)]

\* Cleanup removes a's own init file at most, and marks a alone.
LEMMA CleanupOthers ==
  ASSUME TypeOK, NEW a \in Apps, NEW b \in Apps, a # b, Cleanup(a)
  PROVE  /\ cleaned'[b] = cleaned[b]
         /\ Alone(b) => file'[InitFile(b)] = file[InitFile(b)]
<1>1. /\ InitFile(a) \in Files /\ InitFile(b) \in Files
      /\ Alone(b) => InitFile(a) # InitFile(b)
      /\ setup[a].mode = "private" => InitFile(a) = a
  BY FileNames DEF TypeOK
<1>2. cleaned'[b] = cleaned[b]
  BY DEF TypeOK, Cleanup
<1>3. CASE setup[a].mode = "private"
  BY <1>1, <1>2, <1>3 DEF TypeOK, Cleanup
<1>4. CASE setup[a].mode # "private"
  BY <1>2, <1>4 DEF Cleanup
<1>5. QED
  BY <1>3, <1>4

\* No step of one application touches another one: processes are separate, and
\* a file that is not shared is written by its own application only.
LEMMA OthersUntouched ==
  ASSUME TypeOK, NEW a \in Apps, NEW b \in Apps, a # b, AppStep(a)
  PROVE  Untouched(b)
<1> USE DEF TypeOK, Untouched, Hit, PEnds, C1Ends, C2Ends
<1>0. /\ InitFile(a) \in Files /\ InitFile(b) \in Files /\ InnerInitFile(a) \in Files
      /\ Alone(b) => InitFile(a) # InitFile(b) /\ InnerInitFile(a) # InitFile(b)
      /\ setup[a].mode = "private" => InitFile(a) = a
  BY FileNames
<1>1. CASE StartFails(a)
  BY <1>0, <1>1 DEF StartFails
<1>2. CASE MiniSbxCreateInit(a)
  BY <1>0, <1>2 DEF MiniSbxCreateInit
<1>3. CASE CloseInit(a)
  BY <1>0, <1>3 DEF CloseInit
<1>4. CASE RunTCPIP(a)
  BY <1>0, <1>4 DEF RunTCPIP
<1>5. CASE ForkC1(a)
  BY <1>0, <1>5 DEF ForkC1
<1>6. CASE MiniSbxReadInit(a)
  BY <1>0, <1>6 DEF MiniSbxReadInit
<1>7. CASE ReturnOrExit(a)
  <2>1. Cleanup(a)
    BY <1>7 DEF ReturnOrExit
  <2>2. /\ cleaned'[b] = cleaned[b]
        /\ Alone(b) => file'[InitFile(b)] = file[InitFile(b)]
    BY <2>1, CleanupOthers
  <2>3. QED
    BY <1>7, <2>2 DEF ReturnOrExit
<1>8. CASE ChildAbnormal(a)
  <2>1. Cleanup(a)
    BY <1>8 DEF ChildAbnormal
  <2>2. /\ cleaned'[b] = cleaned[b]
        /\ Alone(b) => file'[InitFile(b)] = file[InitFile(b)]
    BY <2>1, CleanupOthers
  <2>3. QED
    BY <1>8, <2>2 DEF ChildAbnormal
<1>9. CASE \E st \in Statuses : OuterReadInit(a, st)
  BY <1>0, <1>9 DEF OuterReadInit
<1>10. CASE SpawnPid1(a)
  BY <1>0, <1>10 DEF SpawnPid1
<1>11. CASE SignalPipe(a)
  BY <1>0, <1>11 DEF SignalPipe
<1>12. CASE WaitPipe(a)
  BY <1>0, <1>12 DEF WaitPipe
<1>13. CASE C1Exits(a)
  BY <1>0, <1>13 DEF C1Exits
<1>14. CASE Pid1NotPid1(a)
  BY <1>0, <1>14 DEF Pid1NotPid1
<1>15. CASE Pid1WaitPipe(a)
  BY <1>0, <1>15 DEF Pid1WaitPipe
<1>16. CASE Pid1Dies(a)
  BY <1>0, <1>16 DEF Pid1Dies
<1>17. CASE InitDone(a)
  BY <1>0, <1>17 DEF InitDone
<1>18. CASE WriteInit(a)
  BY <1>0, <1>18 DEF WriteInit
<1>19. CASE \E st \in Codes \cup {Killed} : AppEnds(a, st)
  BY <1>0, <1>19 DEF AppEnds
<1>20. CASE WaitPipeInterrupted(a)
  BY <1>0, <1>20 DEF WaitPipeInterrupted
<1>21. CASE WaitInterrupted(a)
  <2>1. Cleanup(a)
    BY <1>21 DEF WaitInterrupted
  <2>2. /\ cleaned'[b] = cleaned[b]
        /\ Alone(b) => file'[InitFile(b)] = file[InitFile(b)]
    BY <2>1, CleanupOthers
  <2>3. QED
    BY <1>21, <2>2 DEF WaitInterrupted
<1>22. CASE KillCaller(a)
  BY <1>0, <1>22 DEF KillCaller
<1>23. CASE KillC1(a)
  BY <1>0, <1>23 DEF KillC1
<1>24. CASE Launch(a)
  BY <1>0, <1>24 DEF Launch
<1>25. CASE DropCaps(a)
  BY <1>0, <1>25 DEF DropCaps
<1>26. CASE C1WaitInterrupted(a)
  BY <1>0, <1>26 DEF C1WaitInterrupted
<1>27. CASE OuterGivesUp(a)
  BY <1>0, <1>27 DEF OuterGivesUp, Cleanup
<1>28. CASE LaunchHangs(a)
  BY <1>0, <1>28 DEF LaunchHangs
<1>29. QED
  BY <1>1, <1>2, <1>3, <1>4, <1>5, <1>6, <1>7, <1>8, <1>9, <1>10, <1>11,
     <1>12, <1>13, <1>14, <1>15, <1>16, <1>17, <1>18, <1>19, <1>20, <1>21,
     <1>22, <1>23,
     <1>24, <1>25, <1>26, <1>27, <1>28
  DEF AppStep, CallerStep, C1Step, C2Step

\* What a step does not touch keeps its invariant.
LEMMA UntouchedKeeps ==
  ASSUME NEW b \in Apps, AppInv(b), Untouched(b)
  PROVE  AppInv(b)'
<1>1. InitFile(b)' = InitFile(b) /\ (Alone(b)' <=> Alone(b))
  BY NamesKept DEF Untouched
<1>2. (Undecided(b)' <=> Undecided(b)) /\ (EndsTheProcess(b)' <=> EndsTheProcess(b))
  BY DEF Untouched, Undecided, EndsTheProcess
<1>3. /\ Continues(b)' <=> Continues(b)
      /\ Ended(b)' <=> Ended(b)
      /\ C2Alive(b)' <=> C2Alive(b)
  BY DEF Untouched, Continues, Ended, C2Alive
<1>4. ForkOrder(b)' /\ OuterOrder(b)' /\ C1OutlivesC2(b)'
  BY <1>3 DEF AppInv, ForkOrder, OuterOrder, C1OutlivesC2, Untouched
<1>5. FileTells(b)'
  BY <1>1, <1>3 DEF AppInv, FileTells, Untouched
<1>6. Safe(b)'
  <2>1. ran'[b] = ran[b] /\ Safe(b)
    BY Zenon DEF AppInv, Untouched
  <2>2. QED
    BY <1>1, <1>2, <1>3, <2>1, Zenon DEF Safe
<1>7. QED
  BY <1>4, <1>5, <1>6 DEF AppInv

\* The steps of an application's own processes preserve its invariant.
LEMMA OwnStep ==
  ASSUME TypeOK, NEW a \in Apps, AppInv(a), AppStep(a)
  PROVE  AppInv(a)'
<1> USE StatusTypes DEF TypeOK, Hit, PEnds, C1Ends, C2Ends
<1>0. /\ InitFile(a) \in Files /\ InnerInitFile(a) \in Files
      /\ setup[a] \in Setup
      /\ setup[a].mode = "private" => InitFile(a) = a
      /\ Alone(a) => InnerInitFile(a) = InitFile(a)
      /\ setup' = setup => InitFile(a)' = InitFile(a) /\ (Alone(a)' <=> Alone(a))
  BY FileNames, NamesKept
<1> USE DEF AppInv, ForkOrder, OuterOrder, C1OutlivesC2, FileTells, Safe, C2Alive,
            Continues, Ended, Undecided, EndsTheProcess
<1>1. CASE StartFails(a)
  BY <1>0, <1>1 DEF StartFails
<1>2. CASE MiniSbxCreateInit(a)
  BY <1>0, <1>2 DEF MiniSbxCreateInit
<1>3. CASE CloseInit(a)
  BY <1>0, <1>3 DEF CloseInit
<1>4. CASE RunTCPIP(a)
  BY <1>0, <1>4 DEF RunTCPIP
<1>5. CASE ForkC1(a)
  <2>1. ForkOrder(a)'
    BY <1>0, <1>5 DEF ForkC1
  <2>2. OuterOrder(a)'
    BY <1>0, <1>5 DEF ForkC1
  <2>3. C1OutlivesC2(a)'
    BY <1>0, <1>5 DEF ForkC1
  <2>4. FileTells(a)'
    BY <1>0, <1>5 DEF ForkC1
  <2>5. Safe(a)'
    <3>1. /\ c1[a] = "none" /\ c2[a] = "none" /\ ~ran[a] /\ ran'[a] = ran[a]
          /\ setup' = setup
      BY <1>5 DEF ForkC1
    <3>2. CASE Hit(a, "fork")
      <4>1. EndsTheProcess(a)' /\ ~ran'[a]
        BY <1>5, <3>1, <3>2
      <4>2. QED
        BY <4>1 DEF Safe
    <3>3. CASE ~Hit(a, "fork")
      <4>1. ppc[a] = "fork" /\ ppc'[a] = "waiting" /\ opc' = opc /\ faults' = faults
        BY <1>5, <3>3 DEF ForkC1
      <4>2. QED
        BY <1>0, <3>1, <4>1
    <3>4. QED
      BY <3>2, <3>3
  <2>6. QED
    BY <2>1, <2>2, <2>3, <2>4, <2>5 DEF AppInv
<1>6. CASE MiniSbxReadInit(a)
  BY <1>0, <1>6 DEF MiniSbxReadInit
<1>7. CASE ReturnOrExit(a)
  BY <1>0, <1>7 DEF ReturnOrExit, Cleanup
<1>8. CASE ChildAbnormal(a)
  BY <1>0, <1>8 DEF ChildAbnormal, Cleanup
<1>9. CASE \E st \in Statuses : OuterReadInit(a, st)
  <2>1. ForkOrder(a)'
    BY <1>0, <1>9 DEF OuterReadInit
  <2>2. OuterOrder(a)'
    <3>1. /\ opc[a] = "waiting" /\ opc'[a] \in {"returned", "exited"}
          /\ ppc[a] \in {"exited", "killed"} \/ "signal" \in faults'[a]
          /\ ppc' = ppc /\ setup' = setup
      BY <1>9 DEF OuterReadInit
    <3>2. QED
      BY <3>1
  <2>3. C1OutlivesC2(a)'
    BY <1>0, <1>9 DEF OuterReadInit
  <2>4. FileTells(a)'
    BY <1>0, <1>9 DEF OuterReadInit
  <2>5. Safe(a)'
    <3>1. /\ opc[a] = "waiting" /\ opc'[a] \in {"returned", "exited"}
          /\ opc'[a] = "returned" <=> file[InitFile(a)] = "0"
          /\ ppc' = ppc /\ setup' = setup /\ ran' = ran
      BY <1>9 DEF OuterReadInit
    <3>2. CASE "signal" \in faults'[a]
      BY <1>0, <3>1, <3>2
    <3>3. CASE "signal" \notin faults'[a]
      <4>1. ppc[a] \in {"exited", "killed"} /\ faults' = faults
        BY <1>9, <3>3 DEF OuterReadInit
      <4>2. QED
        BY <1>0, <3>1, <4>1
    <3>4. QED
      BY <3>2, <3>3
  <2>6. QED
    BY <2>1, <2>2, <2>3, <2>4, <2>5 DEF AppInv
<1>10. CASE SpawnPid1(a)
  <2>1. ForkOrder(a)'
    BY <1>0, <1>10 DEF SpawnPid1
  <2>2. OuterOrder(a)'
    BY <1>0, <1>10 DEF SpawnPid1
  <2>3. C1OutlivesC2(a)'
    <3>1. c1'[a] = "signal" =>
            c2'[a] = "waitpipe" \/ faults'[a] \cap {"unshare", "spawn"} # {}
      <4>1. \/ c2'[a] = "waitpipe" \/ c1'[a] = "dead"
            \/ "unshare" \in faults'[a] \/ "spawn" \in faults'[a]
        BY <1>10 DEF SpawnPid1
      <4>2. QED
        BY <4>1
    <3>2. c1'[a] = "dead" => c2'[a] = "none" /\ c1stat'[a] # Killed
      BY <1>10 DEF SpawnPid1
    <3>3. c1'[a] \in {"signal", "dead"}
      BY <1>10 DEF SpawnPid1
    <3>4. QED
      BY <3>1, <3>2, <3>3, Zenon DEF C1OutlivesC2, C2Alive
  <2>4. FileTells(a)'
    BY <1>0, <1>10 DEF SpawnPid1
  <2>5. Safe(a)'
    BY <1>0, <1>10 DEF SpawnPid1
  <2>6. QED
    BY <2>1, <2>2, <2>3, <2>4, <2>5 DEF AppInv
<1>11. CASE SignalPipe(a)
  BY <1>0, <1>11 DEF SignalPipe
<1>12. CASE WaitPipe(a)
  BY <1>0, <1>12 DEF WaitPipe
<1>13. CASE C1Exits(a)
  BY <1>0, <1>13 DEF C1Exits
<1>14. CASE Pid1NotPid1(a)
  BY <1>0, <1>14 DEF Pid1NotPid1
<1>15. CASE Pid1WaitPipe(a)
  BY <1>0, <1>15 DEF Pid1WaitPipe
<1>16. CASE Pid1Dies(a)
  BY <1>0, <1>16 DEF Pid1Dies
<1>17. CASE InitDone(a)
  BY <1>0, <1>17 DEF InitDone
<1>18. CASE WriteInit(a)
  BY <1>0, <1>18 DEF WriteInit
<1>19. CASE \E st \in Codes \cup {Killed} : AppEnds(a, st)
  BY <1>0, <1>19 DEF AppEnds
<1>20. CASE WaitPipeInterrupted(a)
  <2>1. ForkOrder(a)'
    BY <1>0, <1>20 DEF WaitPipeInterrupted
  <2>2. OuterOrder(a)'
    BY <1>0, <1>20 DEF WaitPipeInterrupted
  <2>3. C1OutlivesC2(a)'
    BY <1>0, <1>20 DEF WaitPipeInterrupted
  <2>4. FileTells(a)'
    <3>1. /\ "signal" \in faults'[a]
          /\ "init" \in faults'[a] <=> "init" \in faults[a]
          /\ c2'[a] \in {c2[a], "dead"}
          /\ c1[a] = "waitpipe" /\ ppc' = ppc /\ ran' = ran /\ file' = file
          /\ init' = init /\ setup' = setup
      BY <1>20 DEF WaitPipeInterrupted
    <3>2. FileTells(a) /\ InitFile(a)' = InitFile(a) /\ (Alone(a)' <=> Alone(a))
      BY <1>0, <3>1
    <3>3. QED
      BY <3>1, <3>2
  <2>5. Safe(a)'
    BY <1>0, <1>20 DEF WaitPipeInterrupted
  <2>6. QED
    BY <2>1, <2>2, <2>3, <2>4, <2>5 DEF AppInv
<1>21. CASE WaitInterrupted(a)
  <2>1. ForkOrder(a)'
    BY <1>0, <1>21 DEF WaitInterrupted, Cleanup
  <2>2. OuterOrder(a)'
    BY <1>0, <1>21 DEF WaitInterrupted, Cleanup
  <2>3. C1OutlivesC2(a)'
    BY <1>0, <1>21 DEF WaitInterrupted, Cleanup
  <2>4. FileTells(a)'
    BY <1>0, <1>21 DEF WaitInterrupted, Cleanup
  <2>5. Safe(a)'
    BY <1>0, <1>21 DEF WaitInterrupted, Cleanup
  <2>6. QED
    BY <2>1, <2>2, <2>3, <2>4, <2>5 DEF AppInv
<1>22. CASE KillCaller(a)
  BY <1>0, <1>22 DEF KillCaller
<1>23. CASE KillC1(a)
  BY <1>0, <1>23 DEF KillC1
<1>24. CASE Launch(a)
  BY <1>0, <1>24 DEF Launch
<1>25. CASE DropCaps(a)
  <2>1. ForkOrder(a)'
    BY <1>0, <1>25 DEF DropCaps
  <2>2. OuterOrder(a)'
    BY <1>0, <1>25 DEF DropCaps
  <2>3. C1OutlivesC2(a)'
    BY <1>0, <1>25 DEF DropCaps
  <2>4. FileTells(a)'
    <3>1. /\ c2[a] = "caps" /\ c2'[a] \in {"app", "dead"} /\ (c2'[a] = "app" <=> ran'[a])
          /\ c2'[a] = "app" => faults' = faults
          /\ c2'[a] = "dead" => "caps" \in faults'[a]
          /\ file' = file /\ init' = init /\ ppc' = ppc /\ setup' = setup
          /\ ~ran[a]
      BY <1>25 DEF DropCaps
    <3>2. CASE c2'[a] = "app"
      BY <1>0, <3>1, <3>2
    <3>3. CASE c2'[a] = "dead"
      BY <1>0, <3>1, <3>3
    <3>4. QED
      BY <3>1, <3>2, <3>3
  <2>5. Safe(a)'
    BY <1>0, <1>25 DEF DropCaps
  <2>6. QED
    BY <2>1, <2>2, <2>3, <2>4, <2>5 DEF AppInv
<1>26. CASE C1WaitInterrupted(a)
  BY <1>0, <1>26 DEF C1WaitInterrupted
<1>27. CASE OuterGivesUp(a)
  <2>1. /\ opc[a] = "waiting" /\ opc'[a] = "exited"
        /\ \/ "signal" \in faults'[a] /\ cleaned' = cleaned /\ file' = file
           \/ "kill" \in faults'[a] /\ cleaned'[a] /\ file'[InitFile(a)] \in {file[InitFile(a)], "absent"}
        /\ faults[a] \subseteq faults'[a] /\ faults'[a] \subseteq faults[a] \cup {"signal", "kill"}
    BY <1>0, <1>27 DEF OuterGivesUp, Cleanup
  <2>2. /\ setup' = setup /\ ppc' = ppc /\ c1' = c1 /\ c2' = c2 /\ sent' = sent
        /\ c1stat' = c1stat /\ init' = init /\ ran' = ran
    BY <1>27 DEF OuterGivesUp
  <2>3. faults'[a] \cap {"signal", "kill"} # {}
    BY <2>1
  <2>4. ForkOrder(a)'
    BY <2>1, <2>2, <2>3
  <2>5. OuterOrder(a)'
    BY <2>1, <2>2, <2>3
  <2>6. C1OutlivesC2(a)'
    BY <2>1, <2>2
  <2>7. FileTells(a)'
    <3>1. FileTells(a) /\ InitFile(a)' = InitFile(a) /\ (Alone(a)' <=> Alone(a))
      BY <1>0, <2>2
    <3>2. "init" \in faults'[a] <=> "init" \in faults[a]
      BY <2>1
    <3>3. file'[InitFile(a)] \in {file[InitFile(a)], "absent"}
      BY <2>1
    <3>4. faults'[a] \cap {"signal", "kill", "caps"} # {}
      BY <2>3
    <3>5. QED
      BY <2>2, <3>1, <3>2, <3>3, <3>4
  <2>8. Safe(a)'
    <3>1. ~Continues(a)' /\ EndsTheProcess(a)'
      BY <2>1, <2>3
    <3>2. QED
      BY <3>1 DEF Safe
  <2>9. QED
    BY <2>4, <2>5, <2>6, <2>7, <2>8 DEF AppInv
<1>28. CASE LaunchHangs(a)
  BY <1>0, <1>28 DEF LaunchHangs
<1> HIDE DEF AppInv, TypeOK
<1>29. QED
  BY <1>1, <1>2, <1>3, <1>4, <1>5, <1>6, <1>7, <1>8, <1>9, <1>10, <1>11,
     <1>12, <1>13, <1>14, <1>15, <1>16, <1>17, <1>18, <1>19, <1>20, <1>21,
     <1>22, <1>23,
     <1>24, <1>25, <1>26, <1>27, <1>28
  DEF AppStep, CallerStep, C1Step, C2Step

\* So does kill(-1) after a failed fork, for the applications that it reaches.
LEMMA KillAllStep ==
  ASSUME TypeOK, NEW a \in Apps, NEW V \in SUBSET Apps, KillAndWaitAll(a, V),
         NEW b \in V, AppInv(b)
  PROVE  AppInv(b)'
<1>1. /\ opc'[b] \in {"none", "exited", "killed"} /\ (opc'[b] = "none" <=> opc[b] = "none")
      /\ opc'[b] = "exited" => opc[b] = "exited"
      /\ ppc'[b] \in {"exited", "killed"} /\ (ppc'[b] = "exited" => ppc[b] = "exited")
      /\ c1'[b] \in {"none", "dead"} /\ (c1'[b] = "none" => c1[b] = "none")
      /\ c2'[b] \in {"none", "dead"} /\ (c2'[b] = "none" <=> c2[b] = "none")
      /\ sent' = sent /\ ran' = ran /\ setup' = setup /\ file' = file
      /\ faults'[b] = faults[b] \cup {"kill"}
  BY DEF TypeOK, KillAndWaitAll
<1>2. b \in Apps /\ "kill" \in faults'[b]
  BY <1>1
<1>3. InitFile(b)' = InitFile(b) /\ (Alone(b)' <=> Alone(b))
  BY <1>1, <1>2, NamesKept
<1>4. ForkOrder(b)' /\ OuterOrder(b)' /\ C1OutlivesC2(b)'
  BY <1>1, <1>2 DEF AppInv, ForkOrder, OuterOrder, C1OutlivesC2, C2Alive
<1>5. FileTells(b)'
  BY <1>1, <1>2, <1>3 DEF AppInv, FileTells
<1>6. ~Continues(b)' /\ EndsTheProcess(b)'
  BY <1>1, <1>2 DEF Continues, EndsTheProcess
<1>7. QED
  BY <1>4, <1>5, <1>6 DEF AppInv, Safe

\* Those it does not reach are left alone.
LEMMA KillAllOthers ==
  ASSUME TypeOK, NEW a \in Apps, NEW V \in SUBSET Apps, KillAndWaitAll(a, V),
         NEW b \in Apps \ V
  PROVE  Untouched(b)
<1>1. opc'[b] = opc[b] /\ ppc'[b] = ppc[b] /\ c1'[b] = c1[b] /\ c2'[b] = c2[b]
  BY DEF KillAndWaitAll
<1>2. a # b
  BY DEF KillAndWaitAll
<1>3. QED
  BY <1>1, <1>2 DEF KillAndWaitAll, Untouched

\* The invariant is inductive.
LEMMA StartInvariant == Spec => []StartInv
<1>1. Init => StartInv
  <2> SUFFICES ASSUME Init PROVE \A a \in Apps : AppInv(a)
    BY StartTypeInit DEF StartInv
  <2> TAKE a \in Apps
  <2>1. ForkOrder(a) /\ OuterOrder(a) /\ C1OutlivesC2(a)
    BY DEF Init, ForkOrder, OuterOrder, C1OutlivesC2, C2Alive
  <2>2. FileTells(a) /\ Safe(a)
    BY DEF Init, FileTells, Safe, Ended
  <2>3. QED
    BY <2>1, <2>2 DEF AppInv
<1>2. StartInv /\ [Next]_vars => StartInv'
  <2> SUFFICES ASSUME StartInv, [Next]_vars PROVE StartInv'
    OBVIOUS
  <2>1. TypeOK /\ TypeOK'
    BY StartTypeStep DEF StartInv
  <2>2. ASSUME NEW b \in Apps PROVE AppInv(b)'
    <3>1. ASSUME NEW a \in Apps, AppStep(a), a = b PROVE AppInv(b)'
      BY <2>1, <3>1, OwnStep DEF StartInv
    <3>2. ASSUME NEW a \in Apps, AppStep(a), a # b PROVE AppInv(b)'
      BY <2>1, <3>2, OthersUntouched, UntouchedKeeps DEF StartInv
    <3>3. CASE UNCHANGED vars
      <4>1. Untouched(b)
        BY <3>3 DEF Untouched, vars
      <4>2. QED
        BY <4>1, UntouchedKeeps DEF StartInv
    <3>4. ASSUME NEW a \in Apps, NEW V \in SUBSET Apps, KillAndWaitAll(a, V)
          PROVE  AppInv(b)'
      <4>1. CASE b \in V
        BY <2>1, <3>4, <4>1, KillAllStep DEF StartInv
      <4>2. CASE b \notin V
        BY <2>1, <3>4, <4>2, KillAllOthers, UntouchedKeeps DEF StartInv
      <4>3. QED
        BY <4>1, <4>2
    <3>5. QED
      BY <3>1, <3>2, <3>3, <3>4 DEF Next, AppStep, Finished
  <2>3. QED
    BY <2>1, <2>2 DEF StartInv
<1>3. QED
  BY <1>1, <1>2, PTL DEF Spec

\* An application whose init file is its own goes on in one place only, inside
\* the sandbox or outside, whatever is killed or interrupted.
THEOREM RunsOnceSafety == Spec => []RunsOnce
<1>1. StartInv => RunsOnce
  BY DEF StartInv, AppInv, Safe, RunsOnce
<1>2. QED
  BY <1>1, StartInvariant, PTL

\* Unless a waiting process is killed or interrupted, Cleanup runs only when the
\* sandboxed process is gone.
THEOREM LibraryCleanupSafety == Spec => []CleanupAfterSandbox
<1>1. StartInv => CleanupAfterSandbox
  <2> SUFFICES ASSUME StartInv, NEW a \in Apps, cleaned[a],
                      faults[a] \cap {"signal", "kill"} = {}
               PROVE  ~C2Alive(a)
    BY DEF CleanupAfterSandbox
  <2>1. AppInv(a)
    BY DEF StartInv
  <2>2. c1[a] \in {"none", "dead"}
    BY <2>1 DEF AppInv, ForkOrder
  <2>3. QED
    BY <2>1, <2>2 DEF AppInv, ForkOrder, C1OutlivesC2, C2Alive
<1>2. QED
  BY <1>1, StartInvariant, PTL

\* A setup that fails in one of the ways the library handles does not end the
\* process of the caller.
THEOREM SetupFailureSafety == Spec => []SetupFailureReturns
<1>1. StartInv => SetupFailureReturns
  BY DEF StartInv, AppInv, Safe, SetupFailureReturns
<1>2. QED
  BY <1>1, StartInvariant, PTL

(***************************************************************************)
(* The processes and the init file implement StartContract, for            *)
(* applications with init files of their own, if no signal comes and no    *)
(* call fails that the code does not answer with an error.                 *)
(***************************************************************************)

\* The init file is the application's own, and survives the sandbox root.
OwnFile(a) == Alone(a) /\ ~(setup[a].tap /\ setup[a].mode = "private")

\* The status of the sandboxed application passes through C1, the caller and
\* the original process of a TAP build unchanged.
StatusKept(a) ==
  /\ c1[a] = "dead" /\ ran[a] => c1stat[a] = Relay(c2stat[a])
  /\ ppc[a] = "exited" /\ ran[a] => pstat[a] = c1stat[a]
  /\ opc[a] = "exited" => ostat[a] = Relay(pstat[a])

ContractInv ==
  /\ StartInv
  /\ \A a \in Apps : OwnFile(a) /\ faults[a] \subseteq {"pipe"} /\ StatusKept(a)

\* If fork does not fail there is a child to kill.
LEMMA NoKillAll ==
  ASSUME ContractInv, NEW a \in Apps, NEW V \in SUBSET Apps
  PROVE  ~KillAndWaitAll(a, V)
<1>1. AppInv(a) /\ faults[a] \subseteq {"pipe"}
  BY DEF ContractInv, StartInv
<1>2. QED
  BY <1>1 DEF AppInv, C1OutlivesC2, KillAndWaitAll

\* If nothing but pipe fails, the four processes of an application keep its
\* status.
LEMMA StatusStep ==
  ASSUME TypeOK, NEW a \in Apps, AppInv(a), StatusKept(a), OwnFile(a),
         Faults \subseteq {"pipe"}, faults[a] \subseteq {"pipe"}, AppStep(a)
  PROVE  StatusKept(a)' /\ (faults[a] \subseteq {"pipe"})'
<1> USE StatusTypes DEF TypeOK, StatusKept, Hit, PEnds, C1Ends, C2Ends
<1>1. /\ c1[a] = "dead" => ~C2Alive(a) /\ c1stat[a] # Killed
      /\ c1[a] = "signal" => C2Alive(a)
      /\ c1[a] \in {"none", "start"} => c2[a] = "none"
  BY DEF AppInv, C1OutlivesC2, ForkOrder, C2Alive
<1>2. /\ ppc[a] \in {"idle", "creating", "tap", "launching", "hung", "fork"} => c1[a] = "none"
      /\ ppc[a] \in {"exited", "read"} => c1[a] \in {"none", "dead"}
      /\ ppc[a] = "read" => c1[a] = "dead"
      /\ opc[a] = "exited" => ppc[a] \in {"exited", "killed"}
  BY DEF AppInv, ForkOrder, OuterOrder
<1>3. /\ ran[a] => c2[a] \in {"app", "dead"}
      /\ ppc[a] = "read" /\ ran[a] => init[a] # "0"
  BY DEF AppInv, FileTells, OwnFile
<1> USE DEF C2Alive
<1>4. CASE StartFails(a)
  BY <1>1, <1>2, <1>3, <1>4 DEF StartFails
<1>5. CASE MiniSbxCreateInit(a)
  BY <1>1, <1>2, <1>3, <1>5 DEF MiniSbxCreateInit
<1>6. CASE CloseInit(a)
  BY <1>1, <1>2, <1>3, <1>6 DEF CloseInit
<1>7. CASE RunTCPIP(a)
  BY <1>1, <1>2, <1>3, <1>7 DEF RunTCPIP
<1>8. CASE ForkC1(a)
  BY <1>1, <1>2, <1>3, <1>8 DEF ForkC1
<1>9. CASE MiniSbxReadInit(a)
  BY <1>1, <1>2, <1>3, <1>9 DEF MiniSbxReadInit
<1>10. CASE ReturnOrExit(a)
  BY <1>1, <1>2, <1>3, <1>10 DEF ReturnOrExit, Cleanup
<1>11. CASE ChildAbnormal(a)
  BY <1>1, <1>2, <1>3, <1>11 DEF ChildAbnormal, Cleanup
<1>12. CASE \E st \in Statuses : OuterReadInit(a, st)
  BY <1>1, <1>2, <1>3, <1>12 DEF OuterReadInit
<1>13. CASE SpawnPid1(a)
  BY <1>1, <1>2, <1>3, <1>13 DEF SpawnPid1
<1>14. CASE SignalPipe(a)
  BY <1>1, <1>2, <1>3, <1>14 DEF SignalPipe
<1>15. CASE WaitPipe(a)
  BY <1>1, <1>2, <1>3, <1>15 DEF WaitPipe
<1>16. CASE C1Exits(a)
  BY <1>1, <1>2, <1>3, <1>16 DEF C1Exits
<1>17. CASE Pid1NotPid1(a)
  BY <1>1, <1>2, <1>3, <1>17 DEF Pid1NotPid1
<1>18. CASE Pid1WaitPipe(a)
  BY <1>1, <1>2, <1>3, <1>18 DEF Pid1WaitPipe
<1>19. CASE Pid1Dies(a)
  BY <1>1, <1>2, <1>3, <1>19 DEF Pid1Dies
<1>20. CASE InitDone(a)
  BY <1>1, <1>2, <1>3, <1>20 DEF InitDone
<1>21. CASE WriteInit(a)
  BY <1>1, <1>2, <1>3, <1>21 DEF WriteInit
<1>22. CASE \E st \in Codes \cup {Killed} : AppEnds(a, st)
  BY <1>1, <1>2, <1>3, <1>22 DEF AppEnds
<1>23. CASE WaitPipeInterrupted(a)
  BY <1>1, <1>2, <1>3, <1>23 DEF WaitPipeInterrupted
<1>24. CASE WaitInterrupted(a)
  BY <1>1, <1>2, <1>3, <1>24 DEF WaitInterrupted, Cleanup
<1>25. CASE KillCaller(a)
  BY <1>1, <1>2, <1>3, <1>25 DEF KillCaller
<1>26. CASE KillC1(a)
  BY <1>1, <1>2, <1>3, <1>26 DEF KillC1
<1>27. CASE Launch(a)
  BY <1>1, <1>2, <1>3, <1>27 DEF Launch
<1>28. CASE DropCaps(a)
  BY <1>1, <1>2, <1>3, <1>28 DEF DropCaps
<1>29. CASE C1WaitInterrupted(a)
  BY <1>1, <1>2, <1>3, <1>29 DEF C1WaitInterrupted
<1>30. CASE OuterGivesUp(a)
  BY <1>1, <1>2, <1>3, <1>30 DEF OuterGivesUp, Cleanup
<1>31. CASE LaunchHangs(a)
  BY <1>1, <1>2, <1>3, <1>31 DEF LaunchHangs
<1>32. QED
  BY <1>4, <1>5, <1>6, <1>7, <1>8, <1>9, <1>10, <1>11, <1>12, <1>13, <1>14,
     <1>15, <1>16, <1>17, <1>18, <1>19, <1>20, <1>21, <1>22, <1>23, <1>24,
     <1>25, <1>26,
     <1>27, <1>28, <1>29, <1>30, <1>31
  DEF AppStep, CallerStep, C1Step, C2Step

\* The phase and the status of StartContract follow from four facts: whether
\* the caller goes on or has ended, whether the application ran in the sandbox,
\* and whether it still does.
MapsTo(a) ==
  /\ Continues(a) => ~ran[a] /\ ~Ended(a)
  /\ Ended(a) => ran[a] /\ ~C2Alive(a)
  /\ Phase(a) = IF Continues(a) THEN "failed"
                ELSE IF Ended(a) THEN "ended"
                ELSE IF ~ran[a] THEN "starting"
                ELSE IF C2Alive(a) THEN "sandboxed" ELSE "finished"
  /\ Reported(a) = IF ran[a] /\ ~C2Alive(a) THEN Relay(c2stat[a]) ELSE NoStatus

AllMap == \A a \in Apps : MapsTo(a)

\* The invariant makes the refinement mapping that simple.
LEMMA Mapping == ContractInv => AllMap
<1> SUFFICES ASSUME ContractInv, NEW a \in Apps PROVE MapsTo(a)
  BY DEF AllMap
<1> AppInv(a) /\ StatusKept(a) /\ OwnFile(a) /\ faults[a] \subseteq {"pipe"}
  BY DEF ContractInv, StartInv
<1>1. Continues(a) => ~ran[a] /\ ~Ended(a)
  BY DEF AppInv, Safe, OwnFile, Undecided, Continues, Ended
<1>2. Ended(a) => ran[a]
  BY DEF AppInv, Safe, OwnFile, EndsTheProcess
<1>3. Ended(a) => ppc[a] = "exited"
  BY DEF AppInv, ForkOrder, OuterOrder, Ended
<1>4. Ended(a) => c1[a] = "dead"
  BY <1>2, <1>3 DEF AppInv, ForkOrder, FileTells
<1>5. Ended(a) => ~C2Alive(a)
  BY <1>4 DEF AppInv, C1OutlivesC2
<1>6. Ended(a) => CallerStatus(a) = Relay(c2stat[a])
  <2> SUFFICES ASSUME Ended(a) PROVE CallerStatus(a) = Relay(c2stat[a])
    OBVIOUS
  <2>1. pstat[a] = Relay(c2stat[a])
    BY <1>2, <1>3, <1>4 DEF StatusKept
  <2>2. Relay(Relay(c2stat[a])) = Relay(c2stat[a])
    <3>1. EXIT_FAILURE # Killed
      BY DEF EXIT_FAILURE, Killed
    <3>2. QED
      BY <3>1, Zenon DEF Relay
  <2>3. QED
    BY <2>1, <2>2 DEF Ended, CallerStatus, StatusKept, AppInv, OuterOrder
<1>7. QED
  BY <1>1, <1>2, <1>5, <1>6 DEF Phase, Reported, MapsTo

\* What one step of an application's processes does to those facts.
LEMMA FactsStep ==
  ASSUME TypeOK, NEW a \in Apps, AppInv(a), faults[a] \subseteq {"pipe"},
         Faults \subseteq {"pipe"}, AppStep(a)
  PROVE  /\ ran[a] => ran'[a]
         /\ Continues(a) => Continues(a)'
         /\ Ended(a) => Ended(a)'
         /\ ran'[a] # ran[a] => C2Alive(a)'
         /\ ran[a] /\ ~C2Alive(a) => ~C2Alive(a)' /\ c2stat'[a] = c2stat[a]
         /\ ran[a] /\ C2Alive(a) /\ ~C2Alive(a)' => Relay(c2stat'[a]) \in 0..255
         /\ \/ ran'[a] = ran[a] /\ (ran[a] => (C2Alive(a)' <=> C2Alive(a)))
            \/ (Continues(a)' <=> Continues(a)) /\ (Ended(a)' <=> Ended(a))
<1> USE DEF TypeOK, Hit, PEnds, C1Ends, C2Ends, Continues, Ended, C2Alive
<1>1. /\ opc[a] = "none" \/ ppc[a] \notin {"idle", "creating", "tap", "returned"}
      /\ opc[a] \in {"returned", "exited"} => ppc[a] \in {"exited", "killed"}
      /\ opc[a] = "none" \/ setup[a].tap
      /\ ppc[a] \in {"returned", "exited"} => c1[a] \in {"none", "dead"}
      /\ c1[a] = "dead" => c2[a] \in {"none", "dead"}
      /\ c1[a] \in {"none", "start"} => c2[a] = "none"
      /\ ran[a] => c2[a] \in {"app", "dead"}
  BY DEF AppInv, ForkOrder, OuterOrder, C1OutlivesC2, FileTells
<1>2. \A st \in Codes \cup {Killed, EXIT_FAILURE} : Relay(st) \in 0..255
  BY LibraryAssumption DEF Relay, EXIT_FAILURE, Killed
<1>3. CASE StartFails(a)
  BY <1>1, <1>2, <1>3 DEF StartFails
<1>4. CASE MiniSbxCreateInit(a)
  BY <1>1, <1>2, <1>4 DEF MiniSbxCreateInit
<1>5. CASE CloseInit(a)
  BY <1>1, <1>2, <1>5 DEF CloseInit
<1>6. CASE RunTCPIP(a)
  BY <1>1, <1>2, <1>6 DEF RunTCPIP
<1>7. CASE ForkC1(a)
  BY <1>1, <1>2, <1>7 DEF ForkC1
<1>8. CASE MiniSbxReadInit(a)
  BY <1>1, <1>2, <1>8 DEF MiniSbxReadInit
<1>9. CASE ReturnOrExit(a)
  BY <1>1, <1>2, <1>9 DEF ReturnOrExit, Cleanup
<1>10. CASE ChildAbnormal(a)
  BY <1>1, <1>2, <1>10 DEF ChildAbnormal, Cleanup
<1>11. CASE \E st \in Statuses : OuterReadInit(a, st)
  BY <1>1, <1>2, <1>11 DEF OuterReadInit
<1>12. CASE SpawnPid1(a)
  BY <1>1, <1>2, <1>12 DEF SpawnPid1
<1>13. CASE SignalPipe(a)
  BY <1>1, <1>2, <1>13 DEF SignalPipe
<1>14. CASE WaitPipe(a)
  BY <1>1, <1>2, <1>14 DEF WaitPipe
<1>15. CASE C1Exits(a)
  BY <1>1, <1>2, <1>15 DEF C1Exits
<1>16. CASE Pid1NotPid1(a)
  BY <1>1, <1>2, <1>16 DEF Pid1NotPid1
<1>17. CASE Pid1WaitPipe(a)
  BY <1>1, <1>2, <1>17 DEF Pid1WaitPipe
<1>18. CASE Pid1Dies(a)
  BY <1>1, <1>2, <1>18 DEF Pid1Dies
<1>19. CASE InitDone(a)
  BY <1>1, <1>2, <1>19 DEF InitDone
<1>20. CASE WriteInit(a)
  BY <1>1, <1>2, <1>20 DEF WriteInit
<1>21. CASE \E st \in Codes \cup {Killed} : AppEnds(a, st)
  BY <1>1, <1>2, <1>21 DEF AppEnds
<1>22. CASE WaitPipeInterrupted(a)
  BY <1>1, <1>2, <1>22 DEF WaitPipeInterrupted
<1>23. CASE WaitInterrupted(a)
  BY <1>1, <1>2, <1>23 DEF WaitInterrupted, Cleanup
<1>24. CASE KillCaller(a)
  BY <1>1, <1>2, <1>24 DEF KillCaller
<1>25. CASE KillC1(a)
  BY <1>1, <1>2, <1>25 DEF KillC1
<1>26. CASE Launch(a)
  BY <1>1, <1>2, <1>26 DEF Launch
<1>27. CASE DropCaps(a)
  BY <1>1, <1>2, <1>27 DEF DropCaps
<1>28. CASE C1WaitInterrupted(a)
  BY <1>1, <1>2, <1>28 DEF C1WaitInterrupted
<1>29. CASE OuterGivesUp(a)
  BY <1>1, <1>2, <1>29 DEF OuterGivesUp, Cleanup
<1>30. CASE LaunchHangs(a)
  BY <1>1, <1>2, <1>30 DEF LaunchHangs
<1>31. QED
  BY <1>3, <1>4, <1>5, <1>6, <1>7, <1>8, <1>9, <1>10, <1>11, <1>12, <1>13,
     <1>14, <1>15, <1>16, <1>17, <1>18, <1>19, <1>20, <1>21, <1>22, <1>23,
     <1>24, <1>25,
     <1>26, <1>27, <1>28, <1>29, <1>30
  DEF AppStep, CallerStep, C1Step, C2Step

\* No step changes a configuration.
LEMMA StepKeepsSetup == ASSUME NEW a \in Apps, AppStep(a) PROVE setup' = setup
BY DEF AppStep, CallerStep, C1Step, C2Step, StartFails, MiniSbxCreateInit,
       CloseInit, RunTCPIP, Launch, LaunchHangs, ForkC1, MiniSbxReadInit, ReturnOrExit,
       ChildAbnormal, OuterGivesUp, DropCaps, C1WaitInterrupted,
       OuterReadInit, SpawnPid1, SignalPipe, WaitPipe, C1Exits, Pid1NotPid1,
       Pid1WaitPipe, Pid1Dies, InitDone, WriteInit, AppEnds, WaitPipeInterrupted,
       WaitInterrupted, KillCaller, KillC1

\* What a step does not touch looks the same to the contract.
LEMMA UntouchedMaps ==
  ASSUME NEW b \in Apps, Untouched(b)
  PROVE  Phase(b)' = Phase(b) /\ Reported(b)' = Reported(b)
<1>1. /\ Continues(b)' <=> Continues(b)
      /\ Ended(b)' <=> Ended(b)
      /\ C2Alive(b)' <=> C2Alive(b)
      /\ CallerStatus(b)' = CallerStatus(b)
  BY DEF Untouched, Continues, Ended, C2Alive, CallerStatus
<1>2. ran'[b] = ran[b] /\ c2stat'[b] = c2stat[b]
  BY DEF Untouched
<1>3. QED
  BY <1>1, <1>2 DEF Phase, Reported, Relay

\* A step of the processes of one application is a step of its contract, or
\* changes nothing that the contract mentions.
LEMMA ContractStep ==
  ASSUME ContractInv, ContractInv', Faults \subseteq {"pipe"},
         NEW a \in Apps, AppStep(a)
  PROVE  \/ Phase(a)' = Phase(a) /\ Reported(a)' = Reported(a)
         \/ /\ Phase(a) = "starting" /\ Phase(a)' \in {"failed", "sandboxed"}
            /\ Reported(a)' = Reported(a)
         \/ /\ Phase(a) = "sandboxed" /\ Phase(a)' = "finished"
            /\ Reported(a)' \in 0..255
         \/ /\ Phase(a) = "finished" /\ Phase(a)' = "ended"
            /\ Reported(a)' = Reported(a)
<1>1. TypeOK /\ AppInv(a) /\ faults[a] \subseteq {"pipe"} /\ TypeOK'
  BY DEF ContractInv, StartInv
<1>2. MapsTo(a)
  BY Mapping DEF AllMap
<1>3. MapsTo(a)'
  <2>1. AllMap'
    BY Mapping, PTL
  <2>2. QED
    BY <2>1 DEF AllMap
<1>4. /\ ran[a] => ran'[a]
      /\ Continues(a) => Continues(a)'
      /\ Ended(a) => Ended(a)'
      /\ ran'[a] # ran[a] => C2Alive(a)'
      /\ ran[a] /\ ~C2Alive(a) => ~C2Alive(a)' /\ c2stat'[a] = c2stat[a]
      /\ ran[a] /\ C2Alive(a) /\ ~C2Alive(a)' => Relay(c2stat'[a]) \in 0..255
      /\ \/ ran'[a] = ran[a] /\ (ran[a] => (C2Alive(a)' <=> C2Alive(a)))
         \/ (Continues(a)' <=> Continues(a)) /\ (Ended(a)' <=> Ended(a))
  BY <1>1, FactsStep
<1>5. ran[a] \in BOOLEAN /\ ran'[a] \in BOOLEAN
  BY <1>1 DEF TypeOK
<1>6. QED
  BY <1>2, <1>3, <1>4, <1>5 DEF MapsTo

\* mini_sandbox_start keeps its promise: for applications that have their init
\* files to themselves, every behaviour of the processes is one of the
\* contract, in which an application enters the sandbox at most once, does not
\* go on outside if it did, and ends its caller with its own status.
THEOREM ContractRefinement ==
  Faults \subseteq {"pipe"} => (Spec /\ (\A a \in Apps : OwnFile(a)) => KeepsContract)
<1> SUFFICES ASSUME Faults \subseteq {"pipe"}
             PROVE  Spec /\ (\A a \in Apps : OwnFile(a)) => KeepsContract
  OBVIOUS
<1> DEFINE phases == [a \in Apps |-> Phase(a)]
           reports == [a \in Apps |-> Reported(a)]
<1>1. Init => Contract!Init
  <2> SUFFICES ASSUME Init, NEW a \in Apps
               PROVE  Phase(a) = "starting" /\ Reported(a) = Contract!NoStatus
    BY DEF Contract!Init
  <2>1. ~Continues(a) /\ ~Ended(a) /\ ~ran[a]
    BY DEF Init, Continues, Ended
  <2>2. QED
    BY <2>1 DEF Phase, Reported, NoStatus, Contract!NoStatus
<1>2. Init /\ (\A a \in Apps : OwnFile(a)) /\ StartInv => ContractInv
  BY DEF Init, ContractInv, StatusKept
<1>3. ContractInv /\ StartInv' /\ [Next]_vars => ContractInv'
  <2> SUFFICES ASSUME ContractInv, StartInv', [Next]_vars, NEW b \in Apps
               PROVE  OwnFile(b)' /\ (faults[b] \subseteq {"pipe"})' /\ StatusKept(b)'
    BY DEF ContractInv
  <2>0. /\ TypeOK /\ AppInv(b) /\ OwnFile(b) /\ StatusKept(b)
        /\ faults[b] \subseteq {"pipe"}
    BY DEF ContractInv, StartInv
  <2>1. setup' = setup => OwnFile(b)'
    BY <2>0, NamesKept DEF OwnFile
  <2>2. ASSUME NEW a \in Apps, NEW V \in SUBSET Apps PROVE ~KillAndWaitAll(a, V)
    BY NoKillAll
  <2>3. Untouched(b) => OwnFile(b)' /\ StatusKept(b)' /\ (faults[b] \subseteq {"pipe"})'
    BY <2>0, <2>1 DEF Untouched, StatusKept, Relay
  <2>4. ASSUME NEW a \in Apps, AppStep(a), a = b
        PROVE  OwnFile(b)' /\ StatusKept(b)' /\ (faults[b] \subseteq {"pipe"})'
    <3>1. StatusKept(b)' /\ (faults[b] \subseteq {"pipe"})'
      BY <2>0, <2>4, StatusStep
    <3>2. setup' = setup
      BY <2>4, StepKeepsSetup
    <3>3. QED
      BY <2>1, <3>1, <3>2
  <2>5. ASSUME NEW a \in Apps, AppStep(a), a # b PROVE Untouched(b)
    BY <2>0, <2>5, OthersUntouched
  <2>6. UNCHANGED vars => Untouched(b)
    BY DEF vars, Untouched
  <2>7. QED
    BY <2>2, <2>3, <2>4, <2>5, <2>6 DEF Next, AppStep, Finished
<1>4. ContractInv /\ ContractInv' /\ [Next]_vars => [Contract!Next]_<<phases, reports>>
  <2> SUFFICES ASSUME ContractInv, ContractInv', [Next]_vars,
                      ~UNCHANGED <<phases, reports>>
               PROVE  Contract!Next
    OBVIOUS
  <2>1. CASE UNCHANGED vars
    <3>1. ASSUME NEW b \in Apps PROVE Phase(b)' = Phase(b) /\ Reported(b)' = Reported(b)
      BY <2>1, UntouchedMaps DEF vars, Untouched
    <3>2. QED
      BY <3>1
  <2>2. ASSUME NEW a \in Apps, AppStep(a) PROVE Contract!Next
    <3>1. ASSUME NEW b \in Apps, b # a
          PROVE  Phase(b)' = Phase(b) /\ Reported(b)' = Reported(b)
      BY <2>2, <3>1, OthersUntouched, UntouchedMaps DEF ContractInv, StartInv
    <3>2. \/ Phase(a)' = Phase(a) /\ Reported(a)' = Reported(a)
          \/ /\ Phase(a) = "starting" /\ Phase(a)' \in {"failed", "sandboxed"}
             /\ Reported(a)' = Reported(a)
          \/ /\ Phase(a) = "sandboxed" /\ Phase(a)' = "finished"
             /\ Reported(a)' \in 0..255
          \/ /\ Phase(a) = "finished" /\ Phase(a)' = "ended"
             /\ Reported(a)' = Reported(a)
      BY <2>2, ContractStep
    <3>3. /\ phases' = [phases EXCEPT ![a] = Phase(a)']
          /\ reports' = [reports EXCEPT ![a] = Reported(a)']
      BY <3>1
    <3>4. phases[a] = Phase(a) /\ reports[a] = Reported(a)
      OBVIOUS
    <3>5. Reported(a)' = Reported(a) => reports' = reports
      BY <3>1
    <3>6. Phase(a)' = Phase(a) => phases' = phases
      BY <3>1
    <3>7. CASE Phase(a) = "starting" /\ Phase(a)' = "failed" /\ Reported(a)' = Reported(a)
      BY <3>3, <3>4, <3>5, <3>7 DEF Contract!Next, Contract!Fail
    <3>8. CASE Phase(a) = "starting" /\ Phase(a)' = "sandboxed" /\ Reported(a)' = Reported(a)
      BY <3>3, <3>4, <3>5, <3>8 DEF Contract!Next, Contract!Enter
    <3>9. CASE Phase(a) = "sandboxed" /\ Phase(a)' = "finished" /\ Reported(a)' \in 0..255
      BY <3>3, <3>4, <3>9 DEF Contract!Next, Contract!Finish
    <3>10. CASE Phase(a) = "finished" /\ Phase(a)' = "ended" /\ Reported(a)' = Reported(a)
      BY <3>3, <3>4, <3>5, <3>10 DEF Contract!Next, Contract!End
    <3> HIDE DEF phases, reports
    <3>11. QED
      BY <3>2, <3>5, <3>6, <3>7, <3>8, <3>9, <3>10
  <2>3. ASSUME NEW a \in Apps, NEW V \in SUBSET Apps PROVE ~KillAndWaitAll(a, V)
    BY NoKillAll
  <2>4. QED
    BY <2>1, <2>2, <2>3 DEF Next, AppStep, Finished
<1>5. QED
  BY <1>1, <1>2, <1>3, <1>4, StartInvariant, PTL DEF Spec, KeepsContract, Contract!Spec

=============================================================================
