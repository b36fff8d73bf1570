------------------------------ MODULE LibraryStart ------------------------------
(***************************************************************************)
(* MiniSbxStart in the library builds (LIBMINISANDBOX): the application's  *)
(* process forks C1, which enters fresh namespaces and forks C2.  C2 sets  *)
(* the sandbox up and returns 0 into the application, which goes on there; *)
(* C1 and the original process only wait.  When they learn that C2 ended,  *)
(* a one-byte file, the init file, is all that tells a failed setup (the   *)
(* call returns -1) from the end of the sandboxed application (the caller  *)
(* exits too).                                                             *)
(*                                                                         *)
(* In the TAP builds RunTCPIP forks once more: the original process waits  *)
(* for its grandchild, which goes on as described above.                   *)
(***************************************************************************)
EXTENDS Integers, FiniteSets

CONSTANTS
  Apps,     \* applications, each calling mini_sandbox_start once
  Setups,   \* how the applications may be configured
  Codes,    \* exit codes of applications
  Faults    \* what may go wrong around them

Modes == {"default", "readonly", "private"}
FaultKinds == {"fork", "pipe", "unshare", "spawn", "init", "caps", "hang", "signal",
               "kill"}

\* mode: which of MiniSbxGetInitFile's three paths is used (private: custom and
\* hermetic mode, below a sandbox root of its own).  elsewhere: /tmp in the
\* sandbox is the host's (the root cannot be listed, or -w /tmp).  sigpipe: the
\* application ignores SIGPIPE.
Setup == [mode: Modes, elsewhere: BOOLEAN, tap: BOOLEAN, sigpipe: BOOLEAN]

ASSUME LibraryAssumption ==
  /\ Setups \subseteq [Apps -> Setup]
  /\ Codes \subseteq 0..255
  /\ Faults \subseteq FaultKinds
  /\ Apps \cap {"host", "default"} = {}

VARIABLES
  setup,   \* the configuration of each application
  file,    \* the init files
  opc,     \* TAP: the original process, in RunTCPIP
  ppc,     \* the process that runs MiniSbxStart to its end
  c1,      \* its child
  c2,      \* the sandboxed process
  sent,    \* C1 has written to pipe_to_child
  ostat,   \* exit status of each of the four
  pstat,
  c1stat,
  c2stat,
  init,    \* init_status
  ran,     \* history: MiniSbxStart has returned 0 in C2
  cleaned, \* history: Cleanup has run
  faults   \* history: the faults that hit each application

vars == <<setup, file, opc, ppc, c1, c2, sent, ostat, pstat, c1stat, c2stat,
          init, ran, cleaned, faults>>

NoStatus == -1
Killed == -2
EXIT_FAILURE == 1
\* exit(-1).
ExitMinusOne == 255

Statuses == 0..255 \cup {NoStatus, Killed}

Files == {"host", "default"} \cup Apps

\* MiniSbxGetInitFile.
InitFile(a) == CASE setup[a].mode = "default"  -> "default"
                 [] setup[a].mode = "private"  -> a
                 [] setup[a].mode = "readonly" -> "host"

\* The file that MINISBX_TMP_INIT names in the sandbox.
InnerInitFile(a) == IF setup[a].elsewhere THEN "host" ELSE InitFile(a)

Init ==
  /\ setup \in Setups
  /\ file = [f \in Files |-> "absent"]
  /\ opc = [a \in Apps |-> "none"]
  /\ ppc = [a \in Apps |-> "idle"]
  /\ c1 = [a \in Apps |-> "none"]
  /\ c2 = [a \in Apps |-> "none"]
  /\ sent = [a \in Apps |-> FALSE]
  /\ ostat = [a \in Apps |-> NoStatus]
  /\ pstat = [a \in Apps |-> NoStatus]
  /\ c1stat = [a \in Apps |-> NoStatus]
  /\ c2stat = [a \in Apps |-> NoStatus]
  /\ init = [a \in Apps |-> "absent"]
  /\ ran = [a \in Apps |-> FALSE]
  /\ cleaned = [a \in Apps |-> FALSE]
  /\ faults = [a \in Apps |-> {}]

\* A fault of kind k hits the application.
Hit(a, k) == k \in Faults /\ faults' = [faults EXCEPT ![a] = @ \cup {k}]

PEnds(a, pc, st) == /\ ppc' = [ppc EXCEPT ![a] = pc]
                    /\ pstat' = [pstat EXCEPT ![a] = st]
C1Ends(a, st) == /\ c1' = [c1 EXCEPT ![a] = "dead"]
                 /\ c1stat' = [c1stat EXCEPT ![a] = st]
C2Ends(a, st) == /\ c2' = [c2 EXCEPT ![a] = "dead"]
                 /\ c2stat' = [c2stat EXCEPT ![a] = st]

C2Alive(a) == c2[a] \notin {"none", "dead"}

\* Mutant: a status that is not an exit code is passed on as it is.
RelayRaw(st) == st

\* exit in the manner of a waited-for child.
Relay(st) == IF st = Killed THEN EXIT_FAILURE ELSE st

-----------------------------------------------------------------------------
(* The caller, up to its wait. *)

\* StartLogging, getcwd, a nested sandbox, ValidateOptions or CreateInit itself
\* ends the call with an error.
StartFails(a) ==
  /\ ppc[a] = "idle"
  /\ ppc' = [ppc EXCEPT ![a] = "returned"]
  /\ UNCHANGED <<setup, file, opc, c1, c2, sent, ostat, pstat, c1stat, c2stat,
                 init, ran, cleaned, faults>>

\* MiniSbxCreateInit truncates the file ...
MiniSbxCreateInit(a) ==
  /\ ppc[a] = "idle"
  /\ ppc' = [ppc EXCEPT ![a] = "creating"]
  /\ file' = [file EXCEPT ![InitFile(a)] = "empty"]
  /\ UNCHANGED <<setup, opc, c1, c2, sent, ostat, pstat, c1stat, c2stat, init,
                 ran, cleaned, faults>>

\* Mutant: the 0 is still in the stream's buffer.
CloseInitUnflushed(a) ==
  /\ ppc[a] = "creating"
  /\ ppc' = [ppc EXCEPT ![a] = IF setup[a].tap THEN "tap" ELSE "fork"]
  /\ UNCHANGED <<setup, file, opc, c1, c2, sent, ostat, pstat, c1stat, c2stat,
                 init, ran, cleaned, faults>>

\* ... and closing it writes the 0.
CloseInit(a) ==
  /\ ppc[a] = "creating"
  /\ ppc' = [ppc EXCEPT ![a] = IF setup[a].tap THEN "tap" ELSE "fork"]
  /\ file' = [file EXCEPT ![InitFile(a)] = "0"]
  /\ UNCHANGED <<setup, opc, c1, c2, sent, ostat, pstat, c1stat, c2stat, init,
                 ran, cleaned, faults>>

\* RunTCPIP forks, and the original process waits.  A failed fork is not
\* looked at: waitpid(-1) finds no child.
RunTCPIP(a) ==
  /\ ppc[a] = "tap"
  /\ \/ /\ opc' = [opc EXCEPT ![a] = "waiting"]
        /\ ppc' = [ppc EXCEPT ![a] = "launching"]
        /\ UNCHANGED <<pstat, faults>>
     \/ /\ Hit(a, "fork")
        /\ PEnds(a, "exited", EXIT_FAILURE)
        /\ UNCHANGED opc
  /\ UNCHANGED <<setup, file, c1, c2, sent, ostat, c1stat, c2stat, init, ran,
                 cleaned>>

\* The launch, which MinitapLaunch has step by step.  The process that joined
\* minitap's network namespace goes on; if the launch failed, its end or its
\* parent's is all the original process learns.
Launch(a) ==
  /\ ppc[a] = "launching"
  /\ \/ /\ ppc' = [ppc EXCEPT ![a] = "fork"]
        /\ UNCHANGED pstat
     \/ \E st \in {0, EXIT_FAILURE} : PEnds(a, "exited", st)
  /\ UNCHANGED <<setup, file, opc, c1, c2, sent, ostat, c1stat, c2stat, init, ran,
                 cleaned, faults>>

\* RunMinitap waits in pause() for a signal that was lost or is never sent.
LaunchHangs(a) ==
  /\ ppc[a] = "launching"
  /\ Hit(a, "hang")
  /\ ppc' = [ppc EXCEPT ![a] = "hung"]
  /\ UNCHANGED <<setup, file, opc, c1, c2, sent, ostat, pstat, c1stat, c2stat,
                 init, ran, cleaned>>

\* The fork in MiniSbxStart.
ForkC1(a) ==
  /\ ppc[a] = "fork"
  /\ \/ /\ ppc' = [ppc EXCEPT ![a] = "waiting"]
        /\ c1' = [c1 EXCEPT ![a] = "start"]
        /\ UNCHANGED <<pstat, faults>>
     \/ /\ Hit(a, "fork")
        /\ PEnds(a, "exited", ExitMinusOne)
        /\ UNCHANGED c1
  /\ UNCHANGED <<setup, file, opc, c2, sent, ostat, c1stat, c2stat, init, ran,
                 cleaned>>

-----------------------------------------------------------------------------
(* C1: SpawnPid1 and the wait for C2. *)

\* pipe, unshare, fork.  A failure of unshare or fork is recorded, and the
\* function goes on.
SpawnPid1(a) ==
  /\ c1[a] = "start"
  /\ \/ /\ c1' = [c1 EXCEPT ![a] = "signal"]
        /\ c2' = [c2 EXCEPT ![a] = "waitpipe"]
        /\ UNCHANGED <<c1stat, faults>>
     \/ /\ Hit(a, "pipe")
        /\ C1Ends(a, ExitMinusOne)
        /\ UNCHANGED c2
     \/ /\ Hit(a, "unshare")
        /\ c1' = [c1 EXCEPT ![a] = "signal"]
        /\ c2' = [c2 EXCEPT ![a] = "notpid1"]
        /\ UNCHANGED c1stat
     \/ /\ Hit(a, "spawn")
        /\ c1' = [c1 EXCEPT ![a] = "signal"]
        /\ UNCHANGED <<c1stat, c2>>
  /\ UNCHANGED <<setup, file, opc, ppc, sent, ostat, pstat, c2stat, init, ran,
                 cleaned>>

\* SignalPipe(pipe_to_child).  Without a reader the write raises SIGPIPE; if
\* the application ignores it, KillAndWait(child_pid) and an exit follow.
SignalPipe(a) ==
  /\ c1[a] = "signal"
  /\ \/ /\ C2Alive(a)
        /\ c1' = [c1 EXCEPT ![a] = "waitpipe"]
        /\ sent' = [sent EXCEPT ![a] = TRUE]
        /\ UNCHANGED c1stat
     \/ /\ ~C2Alive(a)
        /\ setup[a].sigpipe => c2[a] # "none"
        /\ C1Ends(a, IF setup[a].sigpipe THEN ExitMinusOne ELSE Killed)
        /\ UNCHANGED sent
  /\ UNCHANGED <<setup, file, opc, ppc, c2, ostat, pstat, c2stat, init, ran,
                 cleaned, faults>>

\* The same after a failed fork: child_pid is -1, and kill(-1, SIGKILL) reaches
\* every process of the same user but the one that calls it: V are the
\* applications of that user.
KillAndWaitAll(a, V) ==
  /\ c1[a] = "signal" /\ c2[a] = "none" /\ setup[a].sigpipe
  /\ a \in V
  /\ opc' = [b \in Apps |-> IF b \in V /\ opc[b] \in {"waiting", "returned"}
                            THEN "killed" ELSE opc[b]]
  /\ ppc' = [b \in Apps |-> IF b \in V /\ ppc[b] # "exited" THEN "killed" ELSE ppc[b]]
  /\ c1' = [b \in Apps |-> IF b \in V /\ c1[b] # "none" THEN "dead" ELSE c1[b]]
  /\ c2' = [b \in Apps |-> IF b \in V /\ c2[b] # "none" THEN "dead" ELSE c2[b]]
  /\ ostat' = [b \in Apps |-> IF opc'[b] # opc[b] THEN Killed ELSE ostat[b]]
  /\ pstat' = [b \in Apps |-> IF ppc'[b] # ppc[b] THEN Killed ELSE pstat[b]]
  /\ c1stat' = [b \in Apps |-> IF b = a THEN ExitMinusOne
                               ELSE IF c1'[b] # c1[b] THEN Killed ELSE c1stat[b]]
  /\ c2stat' = [b \in Apps |-> IF c2'[b] # c2[b] THEN Killed ELSE c2stat[b]]
  /\ faults' = [b \in Apps |-> IF b \in V THEN faults[b] \cup {"kill"} ELSE faults[b]]
  /\ UNCHANGED <<setup, file, sent, init, ran, cleaned>>


\* WaitPipe(pipe_from_child).  In the library builds nobody writes to it: read
\* returns when the last write end is closed, which is C2's.
WaitPipe(a) ==
  /\ c1[a] = "waitpipe"
  /\ ~C2Alive(a)
  /\ c1' = [c1 EXCEPT ![a] = "waitpid"]
  /\ UNCHANGED <<setup, file, opc, ppc, c2, sent, ostat, pstat, c1stat, c2stat,
                 init, ran, cleaned, faults>>

\* A signal the application handles interrupts the read: KillAndWait.
WaitPipeInterrupted(a) ==
  /\ c1[a] = "waitpipe"
  /\ Hit(a, "signal")
  /\ IF C2Alive(a) THEN C2Ends(a, Killed) ELSE UNCHANGED <<c2, c2stat>>
  /\ C1Ends(a, ExitMinusOne)
  /\ UNCHANGED <<setup, file, opc, ppc, sent, ostat, pstat, init, ran, cleaned>>

\* Mutant: a child that was killed counts as one that exited with 0.
C1ExitsZeroIfKilled(a) ==
  /\ c1[a] = "waitpid"
  /\ C1Ends(a, IF c2stat[a] = Killed THEN 0 ELSE c2stat[a])
  /\ UNCHANGED <<setup, file, opc, ppc, c2, sent, ostat, pstat, c2stat, init,
                 ran, cleaned, faults>>

\* waitpid(child_pid) and exit with its code.
C1Exits(a) ==
  /\ c1[a] = "waitpid"
  /\ C1Ends(a, Relay(c2stat[a]))
  /\ UNCHANGED <<setup, file, opc, ppc, c2, sent, ostat, pstat, c2stat, init,
                 ran, cleaned, faults>>

\* A signal the application handles interrupts that waitpid.
C1WaitInterrupted(a) ==
  /\ c1[a] = "waitpid"
  /\ Hit(a, "signal")
  /\ C1Ends(a, EXIT_FAILURE)
  /\ UNCHANGED <<setup, file, opc, ppc, c2, sent, ostat, pstat, c2stat, init,
                 ran, cleaned>>

-----------------------------------------------------------------------------
(* C2: Pid1Main, and then the application. *)

\* Not process 1 of its namespace: DIE.
Pid1NotPid1(a) ==
  /\ c2[a] = "notpid1"
  /\ C2Ends(a, EXIT_FAILURE)
  /\ UNCHANGED <<setup, file, opc, ppc, c1, sent, ostat, pstat, c1stat, init,
                 ran, cleaned, faults>>

\* WaitPipe(pipe_from_parent): a byte, or the end of file if C1 is gone.
Pid1WaitPipe(a) ==
  /\ c2[a] = "waitpipe"
  /\ sent[a] \/ c1[a] = "dead"
  /\ c2' = [c2 EXCEPT ![a] = "setup"]
  /\ UNCHANGED <<setup, file, opc, ppc, c1, sent, ostat, pstat, c1stat, c2stat,
                 init, ran, cleaned, faults>>

\* A namespace, a mount or the network cannot be set up: DIE.
Pid1Dies(a) ==
  /\ c2[a] = "setup"
  /\ C2Ends(a, EXIT_FAILURE)
  /\ UNCHANGED <<setup, file, opc, ppc, c1, sent, ostat, pstat, c1stat, init,
                 ran, cleaned, faults>>

\* Mutant: the application goes on before the init file says so.
InitDoneLate(a) ==
  /\ c2[a] = "setup"
  /\ c2' = [c2 EXCEPT ![a] = "caps"]
  /\ UNCHANGED <<setup, file, opc, ppc, c1, sent, ostat, pstat, c1stat, c2stat,
                 init, ran, cleaned, faults>>

\* The setup is done.  InitDone truncates the init file; an error of InitDone
\* is ignored by Pid1Main.
InitDone(a) ==
  /\ c2[a] = "setup"
  /\ \/ /\ c2' = [c2 EXCEPT ![a] = "initdone"]
        /\ file' = [file EXCEPT ![InnerInitFile(a)] = "empty"]
        /\ UNCHANGED faults
     \/ /\ Hit(a, "init")
        /\ c2' = [c2 EXCEPT ![a] = "caps"]
        /\ UNCHANGED file
  /\ UNCHANGED <<setup, opc, ppc, c1, sent, ostat, pstat, c1stat, c2stat, init,
                 ran, cleaned>>

\* InitDone writes the 1, unless the disk is full, say.
WriteInit(a) ==
  /\ c2[a] = "initdone"
  /\ c2' = [c2 EXCEPT ![a] = "caps"]
  /\ \/ file' = [file EXCEPT ![InnerInitFile(a)] = "1"] /\ UNCHANGED faults
     \/ Hit(a, "init") /\ UNCHANGED file
  /\ UNCHANGED <<setup, opc, ppc, c1, sent, ostat, pstat, c1stat, c2stat, init,
                 ran, cleaned>>

\* drop_caps_ep_except(0); then MiniSbxStart returns 0, or it was a DIE.
DropCaps(a) ==
  /\ c2[a] = "caps"
  /\ \/ /\ c2' = [c2 EXCEPT ![a] = "app"]
        /\ ran' = [ran EXCEPT ![a] = TRUE]
        /\ UNCHANGED <<c2stat, faults>>
     \/ /\ Hit(a, "caps")
        /\ C2Ends(a, EXIT_FAILURE)
        /\ UNCHANGED ran
  /\ UNCHANGED <<setup, file, opc, ppc, c1, sent, ostat, pstat, c1stat, init,
                 cleaned>>

\* The sandboxed application exits or is killed by a signal.
AppEnds(a, st) ==
  /\ c2[a] = "app"
  /\ C2Ends(a, st)
  /\ UNCHANGED <<setup, file, opc, ppc, c1, sent, ostat, pstat, c1stat, init,
                 ran, cleaned, faults>>

-----------------------------------------------------------------------------
(* The caller, after its wait. *)

\* Cleanup removes the sandbox root; a private init file is below it.
Cleanup(a) ==
  /\ cleaned' = [cleaned EXCEPT ![a] = TRUE]
  /\ file' = IF setup[a].mode = "private" THEN [file EXCEPT ![a] = "absent"]
                                          ELSE file

\* Mutant: the caller does not wait for C1.
MiniSbxReadInitEarly(a) ==
  /\ ppc[a] = "waiting"
  /\ init' = [init EXCEPT ![a] = file[InitFile(a)]]
  /\ ppc' = [ppc EXCEPT ![a] = "read"]
  /\ UNCHANGED <<setup, file, opc, c1, c2, sent, ostat, pstat, c1stat, c2stat,
                 ran, cleaned, faults>>

\* waitpid(pid) finds C1 exited: MiniSbxReadInit.
MiniSbxReadInit(a) ==
  /\ ppc[a] = "waiting"
  /\ c1[a] = "dead" /\ c1stat[a] # Killed
  /\ init' = [init EXCEPT ![a] = file[InitFile(a)]]
  /\ ppc' = [ppc EXCEPT ![a] = "read"]
  /\ UNCHANGED <<setup, file, opc, c1, c2, sent, ostat, pstat, c1stat, c2stat,
                 ran, cleaned, faults>>

\* Cleanup, then return -1 if the setup had not been completed (in a TAP build
\* exit with 0 and leave it to the original process), and exit with C1's code
\* otherwise.
ReturnOrExit(a) ==
  /\ ppc[a] = "read"
  /\ Cleanup(a)
  /\ \/ /\ init[a] = "0" /\ ~setup[a].tap
        /\ ppc' = [ppc EXCEPT ![a] = "returned"]
        /\ UNCHANGED pstat
     \/ init[a] = "0" /\ setup[a].tap /\ PEnds(a, "exited", 0)
     \/ init[a] # "0" /\ PEnds(a, "exited", c1stat[a])
  /\ UNCHANGED <<setup, opc, c1, c2, sent, ostat, c1stat, c2stat, init, ran,
                 faults>>

\* waitpid(pid) finds that C1 did not exit normally.
ChildAbnormal(a) ==
  /\ ppc[a] = "waiting"
  /\ c1[a] = "dead" /\ c1stat[a] = Killed
  /\ Cleanup(a)
  /\ PEnds(a, "exited", EXIT_FAILURE)
  /\ UNCHANGED <<setup, opc, c1, c2, sent, ostat, c1stat, c2stat, init, ran,
                 faults>>

\* A signal the application handles interrupts the waitpid.
WaitInterrupted(a) ==
  /\ ppc[a] = "waiting"
  /\ Hit(a, "signal")
  /\ Cleanup(a)
  /\ PEnds(a, "exited", EXIT_FAILURE)
  /\ UNCHANGED <<setup, opc, c1, c2, sent, ostat, c1stat, c2stat, init, ran>>

\* RunTCPIP, the original process: its child relays the status of the process
\* that ran MiniSbxStart to its end, or EXIT_FAILURE if a signal that the
\* application handles interrupts it; read the init file and return or exit.
OuterReadInit(a, st) ==
  /\ opc[a] = "waiting"
  /\ \/ /\ ppc[a] \in {"exited", "killed"} /\ st = Relay(pstat[a])
        /\ UNCHANGED faults
     \/ Hit(a, "signal") /\ st = EXIT_FAILURE
  /\ \/ /\ file[InitFile(a)] = "0"
        /\ opc' = [opc EXCEPT ![a] = "returned"]
        /\ UNCHANGED ostat
     \/ /\ file[InitFile(a)] # "0"
        /\ opc' = [opc EXCEPT ![a] = "exited"]
        /\ ostat' = [ostat EXCEPT ![a] = st]
  /\ UNCHANGED <<setup, file, ppc, c1, c2, sent, pstat, c1stat, c2stat, init,
                 ran, cleaned>>

\* The signal interrupts the original process itself, or its child is killed:
\* only the latter cleans up.
OuterGivesUp(a) ==
  /\ opc[a] = "waiting"
  /\ \/ Hit(a, "signal") /\ UNCHANGED <<cleaned, file>>
     \/ Hit(a, "kill") /\ Cleanup(a)
  /\ opc' = [opc EXCEPT ![a] = "exited"]
  /\ ostat' = [ostat EXCEPT ![a] = EXIT_FAILURE]
  /\ UNCHANGED <<setup, ppc, c1, c2, sent, pstat, c1stat, c2stat, init, ran>>

-----------------------------------------------------------------------------
(* The rest of the system. *)

\* Someone kills a waiting process.
KillCaller(a) ==
  /\ ppc[a] \in {"launching", "hung", "waiting"}
  /\ Hit(a, "kill")
  /\ PEnds(a, "killed", Killed)
  /\ UNCHANGED <<setup, file, opc, c1, c2, sent, ostat, c1stat, c2stat, init,
                 ran, cleaned>>

KillC1(a) ==
  /\ c1[a] \in {"start", "signal", "waitpipe", "waitpid"}
  /\ Hit(a, "kill")
  /\ C1Ends(a, Killed)
  /\ UNCHANGED <<setup, file, opc, ppc, c2, sent, ostat, pstat, c2stat, init,
                 ran, cleaned>>

\* What became of the process that called mini_sandbox_start.
Continues(a) == opc[a] = "returned" \/ (opc[a] = "none" /\ ppc[a] = "returned")
Ended(a) == opc[a] \in {"exited", "killed"} \/ (opc[a] = "none" /\ ppc[a] \in {"exited", "killed"})
CallerStatus(a) == IF opc[a] = "none" THEN pstat[a] ELSE ostat[a]

\* Still waiting in RunMinitap.
Hangs(a) == opc[a] = "waiting" /\ ppc[a] = "hung"

Finished == (\A a \in Apps : Continues(a) \/ Ended(a) \/ Hangs(a)) /\ UNCHANGED vars

CallerStep(a) == \/ StartFails(a) \/ MiniSbxCreateInit(a) \/ CloseInit(a)
                 \/ RunTCPIP(a) \/ Launch(a) \/ ForkC1(a) \/ MiniSbxReadInit(a)
                 \/ ReturnOrExit(a) \/ ChildAbnormal(a)
                 \/ \E st \in Statuses : OuterReadInit(a, st)
C1Step(a) == SpawnPid1(a) \/ SignalPipe(a) \/ WaitPipe(a) \/ C1Exits(a)
C2Step(a) == \/ Pid1NotPid1(a) \/ Pid1WaitPipe(a) \/ Pid1Dies(a) \/ InitDone(a)
             \/ WriteInit(a) \/ DropCaps(a)
             \/ \E st \in Codes \cup {Killed} : AppEnds(a, st)

Next == \/ \E a \in Apps : \/ CallerStep(a) \/ C1Step(a) \/ C2Step(a)
                           \/ WaitPipeInterrupted(a) \/ C1WaitInterrupted(a)
                           \/ WaitInterrupted(a) \/ OuterGivesUp(a) \/ LaunchHangs(a)
                           \/ KillCaller(a) \/ KillC1(a)
                           \/ \E V \in SUBSET Apps : KillAndWaitAll(a, V)
        \/ Finished

Spec == Init /\ [][Next]_vars

\* Processes are scheduled, and sandboxed applications end.
Fairness == \A a \in Apps :
              /\ WF_vars(CallerStep(a)) /\ WF_vars(C2Step(a))
              /\ WF_vars(C1Step(a) \/ \E V \in SUBSET Apps : KillAndWaitAll(a, V))

FairSpec == Spec /\ Fairness

-----------------------------------------------------------------------------
(* Properties. *)

\* The state is well typed: exit codes are bytes, control stays in the code.
TypeOK ==
  /\ setup \in Setups
  /\ file \in [Files -> {"absent", "empty", "0", "1"}]
  /\ opc \in [Apps -> {"none", "waiting", "returned", "exited", "killed"}]
  /\ ppc \in [Apps -> {"idle", "creating", "tap", "launching", "hung", "fork",
                       "waiting", "read", "returned", "exited", "killed"}]
  /\ c1 \in [Apps -> {"none", "start", "signal", "waitpipe", "waitpid", "dead"}]
  /\ c2 \in [Apps -> {"none", "notpid1", "waitpipe", "setup", "initdone", "caps",
                      "app", "dead"}]
  /\ sent \in [Apps -> BOOLEAN]
  /\ ostat \in [Apps -> Statuses]
  /\ \A a \in Apps : opc[a] = "exited" => ostat[a] # Killed
  /\ pstat \in [Apps -> Statuses]
  /\ c1stat \in [Apps -> Statuses]
  /\ c2stat \in [Apps -> Statuses]
  /\ init \in [Apps -> {"absent", "empty", "0", "1"}]
  /\ ran \in [Apps -> BOOLEAN]
  /\ cleaned \in [Apps -> BOOLEAN]
  /\ faults \in [Apps -> SUBSET (Faults \cup {"kill"})]

\* Nobody else writes the init file of this application, and its own sandbox
\* does.
Alone(a) == /\ InnerInitFile(a) = InitFile(a)
            /\ \A b \in Apps \ {a} : InitFile(a) \notin {InitFile(b), InnerInitFile(b)}

\* InitDone ignored an error, or a TAP caller's waiting process was interrupted
\* while the setup was under way.
Undecided(a) == \/ "init" \in faults[a]
                \/ setup[a].tap /\ faults[a] \cap {"signal", "kill"} # {}

\* An application whose init file is its own goes on in one place: if it ran in
\* the sandbox the call does not also return an error outside, whichever of
\* its processes are killed or interrupted (InitDone, MiniSbxReadInit).
RunsOnce ==
  \A a \in Apps : Alone(a) /\ ~Undecided(a) => ~(ran[a] /\ Continues(a))

\* Cleanup removes the sandbox's directories only after the sandboxed process
\* is gone, unless a waiting process is killed or interrupted by a signal.
CleanupAfterSandbox ==
  \A a \in Apps : cleaned[a] /\ faults[a] \cap {"signal", "kill"} = {} => ~C2Alive(a)


\* What StartContract's variables are here.
Phase(a) == CASE Continues(a) -> "failed"
              [] Ended(a) -> "ended"
              [] ~Continues(a) /\ ~Ended(a) /\ ran[a] ->
                   IF C2Alive(a) THEN "sandboxed" ELSE "finished"
              [] OTHER -> "starting"
Reported(a) == CASE Ended(a) -> CallerStatus(a)
                 [] ~Ended(a) /\ ran[a] /\ ~C2Alive(a) -> Relay(c2stat[a])
                 [] OTHER -> NoStatus

Contract == INSTANCE StartContract
              WITH phase <- [a \in Apps |-> Phase(a)],
                   status <- [a \in Apps |-> Reported(a)]

\* The processes and the init file together keep mini_sandbox_start's promise.
KeepsContract == Contract!Spec

\* check_exit_from_user.cc: "mini-sandbox should understand that the exit
\* signal comes from a subprocess and not pid1 init".  An application that ran
\* in the sandbox does not go on outside of it.
NeverReturnsTwice == \A a \in Apps : ~(ran[a] /\ Continues(a))

\* The failures that do end the process: fork, a failed unshare or fork in
\* SpawnPid1 that is recorded and not returned (another application's too, by
\* kill(-1)), capabilities that cannot be dropped once the init file says 1, an
\* interruption, and a TAP build's inner process that removes the init file
\* with the sandbox root.
EndsTheProcess(a) ==
  \/ faults[a] \cap {"fork", "unshare", "spawn", "caps", "signal", "kill"} # {}
  \/ setup[a].tap /\ setup[a].mode = "private"

\* MiniSbxStart: "If we had a mini-sandbox internal's problem we want to return
\* -1 in the library and don't DIE the whole process."  With these exceptions
\* the process ends in the call only after the application ran in the sandbox.
SetupFailureReturns ==
  \A a \in Apps : Alone(a) /\ ~EndsTheProcess(a) /\ Ended(a) => ran[a]

=============================================================================
