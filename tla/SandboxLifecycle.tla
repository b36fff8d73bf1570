--------------------------- MODULE SandboxLifecycle ---------------------------
(***************************************************************************)
(* One run of the linux-sandbox command line tool as a tree of processes:  *)
(*                                                                         *)
(*   invoker -> launcher (main, MiniSbxStart) -> pid1 (Pid1Main)           *)
(*           -> payload (the command) -> descendants of the payload        *)
(*                                                                         *)
(* pid1 is the init of a fresh PID namespace that holds the payload and    *)
(* its descendants.  The launcher and pid1 meet over two pipes, each asks  *)
(* the kernel for SIGKILL when its parent dies (PR_SET_PDEATHSIG), SIGTERM *)
(* and the timeout are escalated by the launcher's OnTimeoutOrTerm, and    *)
(* exit statuses travel back up.  A process with a pending signal may      *)
(* still take steps: signals are delivered asynchronously.                 *)
(*                                                                         *)
(* This is the path of MiniSbxStart that creates a sandbox; the paths for  *)
(* a nested call and an unprivileged container fork the command directly.  *)
(***************************************************************************)
EXTENDS Integers

CONSTANTS
  Payload,  \* the process that execs the command
  Desc,     \* identities for the descendants the payload may fork
  Codes,    \* exit codes the payload may choose
  Options   \* the option records a run may be started with

Procs == {Payload} \cup Desc

SIGINT  == 2
SIGKILL == 9
SIGPIPE == 13
SIGALRM == 14
SIGTERM == 15
Signals == {SIGINT, SIGKILL, SIGPIPE, SIGALRM, SIGTERM}

EXIT_FAILURE == 1

\* timeout: -T given; kill_delay: -t greater than 0; sigint: -i given;
\* debug: -D given.
OptionRecord == [timeout: BOOLEAN, kill_delay: BOOLEAN, sigint: BOOLEAN,
                 debug: BOOLEAN]

ASSUME ConstantsAssumption ==
  /\ Payload \notin Desc
  /\ {"launcher", "pid1"} \cap Procs = {}
  /\ Codes \subseteq 0..255
  /\ Options \subseteq OptionRecord

VARIABLES
  opt,           \* the parsed options, constant during a run
  invoker,       \* TRUE while the process that started linux-sandbox lives
  lpc,           \* control of the launcher
  lstatus,       \* how the launcher ended
  child_status,  \* what WaitForPid1 returns, EXIT_FAILURE until then
  initial_ppid,  \* what getppid() answered when the launcher recorded it
  pdeath,        \* processes that have PR_SET_PDEATHSIG set
  handlers,      \* signals the launcher routes to OnTimeoutOrTerm
  alarm,         \* the launcher's alarm(2) timer
  polite,        \* global_need_polite_sigterm
  toChild,       \* a byte was written to pipe_to_child
  fromChild,     \* a byte was written to pipe_from_child
  ppc,           \* control of pid1
  pstatus,       \* how pid1 ended
  forward,       \* pid1 handles SIGTERM with ForwardSignal
  proc,          \* state of the payload and its descendants
  cstatus,       \* how the payload ended
  parent,        \* parent of each descendant
  pending,       \* signals sent and not yet delivered
  dirs,          \* the temporary directories of the run exist
  asked,         \* history: OnTimeoutOrTerm sent SIGTERM to pid1
  forced         \* history: OnTimeoutOrTerm sent SIGKILL to pid1

launcherVars == <<lpc, lstatus, child_status, initial_ppid, handlers, alarm,
                  polite, dirs>>
pid1Vars     == <<ppc, pstatus, forward>>
procVars     == <<proc, cstatus, parent>>
history      == <<asked, forced>>
vars == <<opt, invoker, launcherVars, pdeath, toChild, fromChild, pid1Vars,
          procVars, pending, history>>

-----------------------------------------------------------------------------
(* Exit statuses, as wait(2) reports them. *)

NoStatus    == [kind |-> "none", n |-> 0]
Exited(n)   == [kind |-> "exit", n |-> n]
Signaled(s) == [kind |-> "signal", n |-> s]
Statuses    == [kind: {"none", "exit"}, n: 0..255]
               \cup [kind: {"signal"}, n: Signals]

\* Mutant: the raw status word is returned, WEXITSTATUS and 128 + forgotten.
ExitCodeRaw(status) == IF status.kind = "signal" THEN status.n
                                                 ELSE 256 * status.n

\* WaitForChild and WaitForPid1 turn a status into the code they return.
ExitCode(status) == IF status.kind = "signal" THEN 128 + status.n
                                              ELSE status.n

-----------------------------------------------------------------------------
(* Who is alive. *)

LauncherAlive == lpc \notin {"exited", "killed"}
Pid1Alive     == ppc \notin {"none", "dying", "zombie", "reaped"}
LiveProc(p)   == proc[p] \in {"forked", "grouped", "running"}
SandboxEmpty  == /\ ppc \in {"none", "zombie", "reaped"}
                 /\ \A p \in Procs : ~LiveProc(p)

\* getppid() of the launcher: its invoker, or the process that adopted it.
getppid == IF invoker THEN "invoker" ELSE "reaper"

\* The kernel's part in the death of the launcher: whoever asked for a parent
\* death signal is sent SIGKILL, and a timer dies with its process.
LauncherEnds(pc, status) ==
  /\ lpc' = pc
  /\ lstatus' = status
  /\ alarm' = "off"
  /\ pending' = [pending EXCEPT
                   !["launcher"] = {},
                   !["pid1"] = IF "pid1" \in pdeath /\ Pid1Alive
                               THEN @ \cup {SIGKILL} ELSE @]

\* The kernel's part in the death of a namespace's init: every process of the
\* namespace is sent SIGKILL.
Pid1Ends(status) ==
  /\ ppc' = "dying"
  /\ pstatus' = status
  /\ pending' = [x \in DOMAIN pending |->
                   IF x = "pid1" THEN {}
                   ELSE IF x \in Procs /\ LiveProc(x)
                        THEN pending[x] \cup {SIGKILL}
                        ELSE pending[x]]

\* SIGTERM sent to pid1 from outside its namespace is dropped by the kernel
\* while pid1, an init process, has no handler for it.
Pid1Accepts(s) == Pid1Alive /\ (s = SIGKILL \/ forward)

-----------------------------------------------------------------------------
(* The launcher starts in main with its options parsed and the temporary   *)
(* directories of the run created by ParseOptions.                         *)

Init ==
  /\ opt \in Options
  /\ invoker = TRUE
  /\ lpc = "options" /\ lstatus = NoStatus /\ child_status = EXIT_FAILURE
  /\ initial_ppid = "unset"
  /\ pdeath = {} /\ handlers = {} /\ alarm = "off" /\ polite = FALSE
  /\ toChild = FALSE /\ fromChild = FALSE
  /\ ppc = "none" /\ pstatus = NoStatus /\ forward = FALSE
  /\ proc = [p \in Procs |-> "none"] /\ cstatus = NoStatus
  /\ parent = [d \in Desc |-> "pid1"]
  /\ pending = [x \in Procs \cup {"launcher", "pid1"} |-> {}]
  /\ dirs = TRUE
  /\ asked = FALSE /\ forced = FALSE

-----------------------------------------------------------------------------
(* MiniSbxStart in the launcher. *)

\* Mutant: prctl(PR_SET_PDEATHSIG) is missing.
ArmParentDeathMissing ==
  /\ lpc = "options"
  /\ lpc' = "armed"
  /\ UNCHANGED <<opt, invoker, lstatus, child_status, initial_ppid, handlers,
                 alarm, polite, dirs, pdeath, toChild, fromChild, pid1Vars,
                 procVars, pending, history>>

\* prctl(PR_SET_PDEATHSIG): it covers deaths of the invoker from now on only.
ArmParentDeath ==
  /\ lpc = "options"
  /\ lpc' = "armed"
  /\ pdeath' = pdeath \cup {"launcher"}
  /\ UNCHANGED <<opt, invoker, lstatus, child_status, initial_ppid, handlers,
                 alarm, polite, dirs, toChild, fromChild, pid1Vars, procVars,
                 pending, history>>

\* ValidateOptions and MiniSbxCreateInit succeed; ClearSignalMask; getppid().
Prepare ==
  /\ lpc = "armed"
  /\ lpc' = "masked"
  /\ initial_ppid' = getppid
  /\ UNCHANGED <<opt, invoker, lstatus, child_status, handlers, alarm, polite,
                 dirs, pdeath, toChild, fromChild, pid1Vars, procVars, pending,
                 history>>

\* An error before pid1 exists (validation, init file, pipe, clone): in the
\* command line tool MiniSbxSetError cleans up and exits.
MiniSbxSetError ==
  /\ lpc \in {"armed", "masked"}
  /\ LauncherEnds("exited", Exited(EXIT_FAILURE))
  /\ dirs' = (dirs /\ opt.debug)
  /\ UNCHANGED <<opt, invoker, child_status, initial_ppid, handlers, polite,
                 pdeath, toChild, fromChild, pid1Vars, procVars, history>>

\* SpawnPid1: pipe, pipe, clone.
Clone ==
  /\ lpc = "masked"
  /\ lpc' = "cloned"
  /\ ppc' = "born"
  /\ UNCHANGED <<opt, invoker, lstatus, child_status, initial_ppid, handlers,
                 alarm, polite, dirs, pdeath, toChild, fromChild, pstatus,
                 forward, procVars, pending, history>>

\* SpawnPid1: SignalPipe(pipe_to_child).  Writing to a pipe whose reader is
\* gone raises SIGPIPE, which ClearSignalMask has set to its default action.
SignalChild ==
  /\ lpc = "cloned"
  /\ \/ /\ Pid1Alive
        /\ lpc' = "signalled"
        /\ toChild' = TRUE
        /\ UNCHANGED <<lstatus, alarm, pending>>
     \/ /\ ~Pid1Alive
        /\ LauncherEnds("killed", Signaled(SIGPIPE))
        /\ UNCHANGED toChild
  /\ UNCHANGED <<opt, invoker, child_status, initial_ppid, handlers, polite,
                 dirs, pdeath, fromChild, pid1Vars, procVars, history>>

\* SpawnPid1: WaitPipe(pipe_from_child).  End of file counts as a signal.
AwaitChild ==
  /\ lpc = "signalled"
  /\ fromChild \/ ~Pid1Alive
  /\ lpc' = "spawned"
  /\ UNCHANGED <<opt, invoker, lstatus, child_status, initial_ppid, handlers,
                 alarm, polite, dirs, pdeath, toChild, fromChild, pid1Vars,
                 procVars, pending, history>>

\* The globals of OnTimeoutOrTerm, its SIGALRM registration, the timeout.
ArmTimeout ==
  /\ lpc = "spawned"
  /\ lpc' = "alarmset"
  /\ polite' = opt.kill_delay
  /\ handlers' = handlers \cup {SIGALRM}
  /\ alarm' = IF opt.timeout THEN "timeout" ELSE alarm
  /\ UNCHANGED <<opt, invoker, lstatus, child_status, initial_ppid, dirs,
                 pdeath, toChild, fromChild, pid1Vars, procVars, pending,
                 history>>

\* Mutant: the timeout is armed after SIGTERM is handled.
HandleIntThenArm ==
  /\ lpc = "termset"
  /\ lpc' = "waiting"
  /\ handlers' = IF opt.sigint THEN handlers \cup {SIGINT} ELSE handlers
  /\ alarm' = IF opt.timeout THEN "timeout" ELSE alarm
  /\ UNCHANGED <<opt, invoker, lstatus, child_status, initial_ppid, polite,
                 dirs, pdeath, toChild, fromChild, pid1Vars, procVars, pending,
                 history>>

HandleTerm ==
  /\ lpc = "alarmset"
  /\ lpc' = "termset"
  /\ handlers' = handlers \cup {SIGTERM}
  /\ UNCHANGED <<opt, invoker, lstatus, child_status, initial_ppid, alarm,
                 polite, dirs, pdeath, toChild, fromChild, pid1Vars, procVars,
                 pending, history>>

HandleInt ==
  /\ lpc = "termset"
  /\ lpc' = "waiting"
  /\ handlers' = IF opt.sigint THEN handlers \cup {SIGINT} ELSE handlers
  /\ UNCHANGED <<opt, invoker, lstatus, child_status, initial_ppid, alarm,
                 polite, dirs, pdeath, toChild, fromChild, pid1Vars, procVars,
                 pending, history>>

\* Mutant: the polite flag is read and not cleared.
OnTimeoutOrTermAlwaysPolite(s) ==
  LET signal == IF polite THEN SIGTERM ELSE SIGKILL IN
  /\ LauncherAlive
  /\ s \in handlers \cap pending["launcher"]
  /\ alarm' = IF polite THEN "grace" ELSE alarm
  /\ pending' = [pending EXCEPT
                   !["launcher"] = @ \ {s},
                   !["pid1"] = IF Pid1Accepts(signal) THEN @ \cup {signal}
                                                      ELSE @]
  /\ asked' = (asked \/ polite)
  /\ forced' = (forced \/ ~polite)
  /\ lpc' = IF lpc = "waiting" /\ ppc # "zombie" THEN "interrupted" ELSE lpc
  /\ UNCHANGED <<opt, invoker, lstatus, child_status, initial_ppid, handlers,
                 polite, dirs, pdeath, toChild, fromChild, pid1Vars, procVars>>

\* The signal handler.  It runs with all signals blocked, interrupts a wait4
\* that has no zombie to return, and alarm(2) replaces whatever timer was set.
OnTimeoutOrTerm(s) ==
  LET signal == IF polite THEN SIGTERM ELSE SIGKILL IN
  /\ LauncherAlive
  /\ s \in handlers \cap pending["launcher"]
  /\ polite' = FALSE
  /\ alarm' = IF polite THEN "grace" ELSE alarm
  /\ pending' = [pending EXCEPT
                   !["launcher"] = @ \ {s},
                   !["pid1"] = IF Pid1Accepts(signal) THEN @ \cup {signal}
                                                      ELSE @]
  /\ asked' = (asked \/ polite)
  /\ forced' = (forced \/ ~polite)
  /\ lpc' = IF lpc = "waiting" /\ ppc # "zombie" THEN "interrupted" ELSE lpc
  /\ UNCHANGED <<opt, invoker, lstatus, child_status, initial_ppid, handlers,
                 dirs, pdeath, toChild, fromChild, pid1Vars, procVars>>

\* WaitForPid1: wait4 returns the status of pid1, a zombie only after its
\* whole namespace has gone.
ReapPid1 ==
  /\ lpc = "waiting"
  /\ ppc = "zombie"
  /\ lpc' = "reaped"
  /\ ppc' = "reaped"
  /\ child_status' = ExitCode(pstatus)
  /\ UNCHANGED <<opt, invoker, lstatus, initial_ppid, handlers, alarm, polite,
                 dirs, pdeath, toChild, fromChild, pstatus, forward, procVars,
                 pending, history>>

\* Mutant: EINTR ends the wait loop instead of restarting it.
InterruptedGivesUp ==
  /\ lpc = "interrupted"
  /\ lpc' = "reaped"
  /\ child_status' \in Codes
  /\ UNCHANGED <<opt, invoker, lstatus, initial_ppid, handlers, alarm, polite,
                 dirs, pdeath, toChild, fromChild, pid1Vars, procVars, pending,
                 history>>

\* WaitForPid1: wait4 failed with EINTR.  With a new parent the loop ends and
\* child_status is read uninitialised.
Interrupted ==
  /\ lpc = "interrupted"
  /\ \/ /\ getppid # initial_ppid
        /\ lpc' = "reaped"
        /\ child_status' \in Codes
     \/ /\ getppid = initial_ppid
        /\ lpc' = "waiting"
        /\ UNCHANGED child_status
  /\ UNCHANGED <<opt, invoker, lstatus, initial_ppid, handlers, alarm, polite,
                 dirs, pdeath, toChild, fromChild, pid1Vars, procVars, pending,
                 history>>

\* Cleanup, and main returns what WaitForPid1 returned.
CleanupAndReturn ==
  /\ lpc = "reaped"
  /\ LauncherEnds("exited", Exited(child_status))
  /\ dirs' = (dirs /\ opt.debug)
  /\ UNCHANGED <<opt, invoker, child_status, initial_ppid, handlers, polite,
                 pdeath, toChild, fromChild, pid1Vars, procVars, history>>

\* The default action of a signal the launcher does not handle.
LauncherKilled(s) ==
  /\ LauncherAlive
  /\ s \in pending["launcher"] \ (handlers \ {SIGKILL})
  /\ LauncherEnds("killed", Signaled(s))
  /\ UNCHANGED <<opt, invoker, child_status, initial_ppid, handlers, polite,
                 dirs, pdeath, toChild, fromChild, pid1Vars, procVars, history>>

\* Before ClearSignalMask a signal the invoker ignored is ignored here too.
LauncherIgnores(s) ==
  /\ lpc \in {"options", "armed"}
  /\ s \in pending["launcher"] \ {SIGKILL}
  /\ pending' = [pending EXCEPT !["launcher"] = @ \ {s}]
  /\ UNCHANGED <<opt, invoker, launcherVars, pdeath, toChild, fromChild,
                 pid1Vars, procVars, history>>

-----------------------------------------------------------------------------
(* Pid1Main in the namespace's init process. *)

\* WaitPipe(pipe_from_parent): a byte, or end of file once the launcher died.
Pid1WaitPipe ==
  /\ ppc = "born"
  /\ toChild \/ ~LauncherAlive
  /\ ppc' = "resumed"
  /\ UNCHANGED <<opt, invoker, launcherVars, pdeath, toChild, fromChild,
                 pstatus, forward, procVars, pending, history>>

\* Mutant: prctl(PR_SET_PDEATHSIG) is missing.
Pid1ArmMissing ==
  /\ ppc = "resumed"
  /\ ppc' = "armed"
  /\ UNCHANGED <<opt, invoker, launcherVars, pdeath, toChild, fromChild,
                 pstatus, forward, procVars, pending, history>>

\* ClearSignalMask; SetupSelfDestruction up to its SignalPipe.
Pid1ArmParentDeath ==
  /\ ppc = "resumed"
  /\ ppc' = "armed"
  /\ pdeath' = pdeath \cup {"pid1"}
  /\ UNCHANGED <<opt, invoker, launcherVars, toChild, fromChild, pstatus,
                 forward, procVars, pending, history>>

\* Mutant: a failed write to the launcher is not an error.
Pid1SignalPipeNoError ==
  /\ ppc = "armed"
  /\ ppc' = "linked"
  /\ fromChild' = TRUE
  /\ UNCHANGED <<opt, invoker, launcherVars, pdeath, toChild, pstatus, forward,
                 procVars, pending, history>>

\* SetupSelfDestruction: SignalPipe(pipe_to_parent) "verifies that the parent
\* still lives".  An init ignores SIGPIPE, so write fails and DIE exits.
Pid1SignalPipe ==
  /\ ppc = "armed"
  /\ \/ /\ LauncherAlive
        /\ ppc' = "linked"
        /\ fromChild' = TRUE
        /\ UNCHANGED <<pstatus, pending>>
     \/ /\ ~LauncherAlive
        /\ Pid1Ends(Exited(EXIT_FAILURE))
        /\ UNCHANGED fromChild
  /\ UNCHANGED <<opt, invoker, launcherVars, pdeath, toChild, forward,
                 procVars, history>>

\* Namespaces, mounts, network, working directory, InitDone.
Pid1Setup ==
  /\ ppc = "linked"
  /\ ppc' = "ready"
  /\ UNCHANGED <<opt, invoker, launcherVars, pdeath, toChild, fromChild,
                 pstatus, forward, procVars, pending, history>>

\* DIE anywhere in Pid1Main before the payload exists.
Pid1Dies ==
  /\ ppc \in {"born", "resumed", "armed", "linked", "ready"}
  /\ Pid1Ends(Exited(EXIT_FAILURE))
  /\ UNCHANGED <<opt, invoker, launcherVars, pdeath, toChild, fromChild,
                 forward, procVars, history>>

\* SpawnChild, the parent's side.
SpawnChild ==
  /\ ppc = "ready"
  /\ ppc' = "forked"
  /\ proc' = [proc EXCEPT ![Payload] = "forked"]
  /\ UNCHANGED <<opt, invoker, launcherVars, pdeath, toChild, fromChild,
                 pstatus, forward, cstatus, parent, pending, history>>

\* InstallSignalHandler(SIGTERM, ForwardSignal).
InstallForward ==
  /\ ppc = "forked"
  /\ ppc' = "reaping"
  /\ forward' = TRUE
  /\ UNCHANGED <<opt, invoker, launcherVars, pdeath, toChild, fromChild,
                 pstatus, procVars, pending, history>>

\* kill(-global_child_pid, SIGTERM).  Until the payload has called setpgid its
\* group does not exist and the call fails; a descendant may have left it.
ForwardSignal ==
  /\ ppc = "reaping"
  /\ SIGTERM \in pending["pid1"]
  /\ \E left \in SUBSET Desc :
       LET group == IF proc[Payload] \in {"grouped", "running"}
                    THEN {p \in Procs \ left : LiveProc(p)}
                    ELSE {}
       IN  pending' = [x \in DOMAIN pending |->
                         IF x = "pid1" THEN pending[x] \ {SIGTERM}
                         ELSE IF x \in group THEN pending[x] \cup {SIGTERM}
                                            ELSE pending[x]]
  /\ UNCHANGED <<opt, invoker, launcherVars, pdeath, toChild, fromChild,
                 pid1Vars, procVars, history>>

\* Mutant: the first zombie of any kind ends pid1.
WaitForAnyChild(p) ==
  /\ ppc = "reaping"
  /\ proc[p] = "zombie"
  /\ p \in Desc => parent[p] = "pid1"
  /\ proc' = [proc EXCEPT ![p] = "gone"]
  /\ Pid1Ends(Exited(IF p = Payload THEN ExitCode(cstatus) ELSE 0))
  /\ UNCHANGED <<opt, invoker, launcherVars, pdeath, toChild, fromChild,
                 forward, cstatus, parent, history>>

\* WaitForChild: wait returns some zombie child; any but the payload is an
\* adopted orphan and only reaped, the payload's status becomes pid1's.
WaitForChild(p) ==
  /\ ppc = "reaping"
  /\ proc[p] = "zombie"
  /\ p \in Desc => parent[p] = "pid1"
  /\ proc' = [proc EXCEPT ![p] = "gone"]
  /\ \/ /\ p # Payload
        /\ UNCHANGED <<ppc, pstatus, pending>>
     \/ /\ p = Payload
        /\ Pid1Ends(Exited(ExitCode(cstatus)))
  /\ UNCHANGED <<opt, invoker, launcherVars, pdeath, toChild, fromChild,
                 forward, cstatus, parent, history>>

Pid1Killed ==
  /\ Pid1Alive
  /\ SIGKILL \in pending["pid1"]
  /\ Pid1Ends(Signaled(SIGKILL))
  /\ UNCHANGED <<opt, invoker, launcherVars, pdeath, toChild, fromChild,
                 forward, procVars, history>>

\* The kernel lets init become a zombie once its namespace is empty.
NamespaceEmptied ==
  /\ ppc = "dying"
  /\ \A p \in Procs : ~LiveProc(p)
  /\ ppc' = "zombie"
  /\ proc' = [p \in Procs |-> IF proc[p] = "zombie" THEN "gone" ELSE proc[p]]
  /\ UNCHANGED <<opt, invoker, launcherVars, pdeath, toChild, fromChild,
                 pstatus, forward, cstatus, parent, pending, history>>

-----------------------------------------------------------------------------
(* The payload and its descendants. *)

\* SpawnChild, the child's side: setpgid and tcsetpgrp, then ClearSignalMask
\* and execvp.
ChildSetpgid ==
  /\ proc[Payload] = "forked"
  /\ proc' = [proc EXCEPT ![Payload] = "grouped"]
  /\ UNCHANGED <<opt, invoker, launcherVars, pdeath, toChild, fromChild,
                 pid1Vars, cstatus, parent, pending, history>>

ChildExec ==
  /\ proc[Payload] = "grouped"
  /\ proc' = [proc EXCEPT ![Payload] = "running"]
  /\ UNCHANGED <<opt, invoker, launcherVars, pdeath, toChild, fromChild,
                 pid1Vars, cstatus, parent, pending, history>>

\* A process ends: its children are adopted by the namespace's init.
ProcEnds(p, status) ==
  /\ proc' = [proc EXCEPT ![p] = "zombie"]
  /\ cstatus' = IF p = Payload THEN status ELSE cstatus
  /\ parent' = [d \in Desc |-> IF parent[d] = p THEN "pid1" ELSE parent[d]]
  /\ pending' = [pending EXCEPT ![p] = {}]
  /\ UNCHANGED <<opt, invoker, launcherVars, pdeath, toChild, fromChild,
                 pid1Vars, history>>

\* setpgid, tcsetpgrp or execvp fails: DIE.
ChildDies == /\ proc[Payload] \in {"forked", "grouped"}
             /\ ProcEnds(Payload, Exited(EXIT_FAILURE))

ProcExits(p, code) == /\ proc[p] = "running"
                      /\ ProcEnds(p, Exited(code))

ProcKilled(p, s) == /\ LiveProc(p)
                    /\ s \in pending[p]
                    /\ ProcEnds(p, Signaled(s))

\* A program may catch or ignore SIGTERM.
ProcSurvivesTerm(p) ==
  /\ proc[p] = "running"
  /\ SIGTERM \in pending[p]
  /\ pending' = [pending EXCEPT ![p] = @ \ {SIGTERM}]
  /\ UNCHANGED <<opt, invoker, launcherVars, pdeath, toChild, fromChild,
                 pid1Vars, procVars, history>>

\* A dying init's namespace accepts no new process.
ProcForks(p, d) ==
  /\ Pid1Alive
  /\ proc[p] = "running" /\ proc[d] = "none"
  /\ proc' = [proc EXCEPT ![d] = "running"]
  /\ parent' = [parent EXCEPT ![d] = p]
  /\ UNCHANGED <<opt, invoker, launcherVars, pdeath, toChild, fromChild,
                 pid1Vars, cstatus, pending, history>>

-----------------------------------------------------------------------------
(* The world around the run. *)

SignalLauncher(s) ==
  /\ LauncherAlive
  /\ s \notin pending["launcher"]
  /\ pending' = [pending EXCEPT !["launcher"] = @ \cup {s}]
  /\ UNCHANGED <<opt, invoker, launcherVars, pdeath, toChild, fromChild,
                 pid1Vars, procVars, history>>

\* SIGKILL to pid1 from outside: a user, or the OOM killer.
KillPid1 ==
  /\ Pid1Alive
  /\ SIGKILL \notin pending["pid1"]
  /\ pending' = [pending EXCEPT !["pid1"] = @ \cup {SIGKILL}]
  /\ UNCHANGED <<opt, invoker, launcherVars, pdeath, toChild, fromChild,
                 pid1Vars, procVars, history>>

InvokerDies ==
  /\ invoker
  /\ invoker' = FALSE
  /\ pending' = [pending EXCEPT
                   !["launcher"] = IF "launcher" \in pdeath /\ LauncherAlive
                                   THEN @ \cup {SIGKILL} ELSE @]
  /\ UNCHANGED <<opt, launcherVars, pdeath, toChild, fromChild, pid1Vars,
                 procVars, history>>

AlarmExpires ==
  /\ alarm # "off"
  /\ alarm' = "off"
  /\ pending' = [pending EXCEPT !["launcher"] = @ \cup {SIGALRM}]
  /\ UNCHANGED <<opt, invoker, lpc, lstatus, child_status, initial_ppid,
                 handlers, polite, dirs, pdeath, toChild, fromChild, pid1Vars,
                 procVars, history>>

\* Everything has ended.
Finished == ~LauncherAlive /\ SandboxEmpty /\ ~invoker /\ UNCHANGED vars

-----------------------------------------------------------------------------

LauncherStep ==
  \/ ArmParentDeath \/ Prepare \/ MiniSbxSetError \/ Clone \/ SignalChild
  \/ AwaitChild \/ ArmTimeout \/ HandleTerm \/ HandleInt \/ ReapPid1
  \/ Interrupted \/ CleanupAndReturn

Pid1Step ==
  \/ Pid1WaitPipe \/ Pid1ArmParentDeath \/ Pid1SignalPipe \/ Pid1Setup
  \/ Pid1Dies \/ SpawnChild \/ InstallForward \/ ForwardSignal
  \/ \E p \in Procs : WaitForChild(p)

ChildStep == ChildSetpgid \/ ChildExec \/ ChildDies

PayloadStep ==
  \/ \E p \in Procs, code \in Codes : ProcExits(p, code)
  \/ \E p \in Procs : ProcSurvivesTerm(p) \/ ProcKilled(p, SIGTERM)
  \/ \E p \in Procs, d \in Desc : ProcForks(p, d)

KernelStep ==
  \/ \E s \in Signals : LauncherKilled(s) \/ OnTimeoutOrTerm(s)
  \/ Pid1Killed \/ NamespaceEmptied \/ AlarmExpires
  \/ \E p \in Procs : ProcKilled(p, SIGKILL)

Environment ==
  \/ \E s \in {SIGINT, SIGTERM, SIGKILL} : SignalLauncher(s)
  \/ \E s \in Signals : LauncherIgnores(s)
  \/ KillPid1 \/ InvokerDies

Next == LauncherStep \/ Pid1Step \/ ChildStep \/ PayloadStep \/ KernelStep
        \/ Environment \/ Finished

Spec == Init /\ [][Next]_vars

\* The scheduler runs the launcher, pid1 and the forked child; the kernel
\* delivers signals, fires timers and empties a dying namespace.  The payload
\* owes nothing: it may run forever and survive every SIGTERM.
Fairness ==
  /\ WF_vars(LauncherStep)
  /\ WF_vars(Pid1Step)
  /\ WF_vars(ChildStep)
  /\ \A s \in Signals : WF_vars(LauncherKilled(s)) /\ WF_vars(OnTimeoutOrTerm(s))
  /\ WF_vars(Pid1Killed)
  /\ WF_vars(NamespaceEmptied)
  /\ WF_vars(AlarmExpires)
  /\ \A p \in Procs : WF_vars(ProcKilled(p, SIGKILL))

FairSpec == Spec /\ Fairness

-----------------------------------------------------------------------------
(* Properties. *)

LauncherControl == {"options", "armed", "masked", "cloned", "signalled",
                    "spawned", "alarmset", "termset", "waiting", "interrupted",
                    "reaped", "exited", "killed"}
Pid1Control == {"none", "born", "resumed", "armed", "linked", "ready",
                "forked", "reaping", "dying", "zombie", "reaped"}
ProcState == {"none", "forked", "grouped", "running", "zombie", "gone"}

\* Every variable keeps its type; in particular what WaitForPid1 returns is a
\* code main can return unchanged, a byte.
TypeOK ==
  /\ opt \in Options
  /\ invoker \in BOOLEAN
  /\ lpc \in LauncherControl
  /\ lstatus \in Statuses
  /\ child_status \in 0..255
  /\ initial_ppid \in {"unset", "invoker", "reaper"}
  /\ pdeath \subseteq {"launcher", "pid1"}
  /\ handlers \subseteq {SIGALRM, SIGTERM, SIGINT}
  /\ alarm \in {"off", "timeout", "grace"}
  /\ polite \in BOOLEAN
  /\ toChild \in BOOLEAN /\ fromChild \in BOOLEAN
  /\ ppc \in Pid1Control
  /\ pstatus \in Statuses
  /\ forward \in BOOLEAN
  /\ proc \in [Procs -> ProcState]
  /\ cstatus \in Statuses
  /\ parent \in [Desc -> Procs \cup {"pid1"}]
  /\ pending \in [Procs \cup {"launcher", "pid1"} -> SUBSET Signals]
  /\ dirs \in BOOLEAN
  /\ asked \in BOOLEAN /\ forced \in BOOLEAN

\* SetupSelfDestruction leaves no window: a pid1 that got past its SignalPipe
\* and outlives the launcher has SIGKILL on its way, whenever the launcher
\* died relative to the clone, the pipes and the prctl.
NoOrphanedPid1 ==
  ppc \in {"linked", "ready", "forked", "reaping"} /\ ~LauncherAlive
    => SIGKILL \in pending["pid1"]

\* The launcher removes the temporary directories, which are the sandbox's
\* root and overlay, only when no process of the sandbox is left (unless the
\* launcher itself is being killed because its invoker died).
CleanupOnlyWhenEmpty == ~dirs /\ invoker => SandboxEmpty

\* The launcher exits as the command did: with the payload's code, with 128
\* plus the signal that ended the payload, with 137 if pid1 was killed, and
\* with EXIT_FAILURE if pid1 gave up before there was a payload.  An adopted
\* orphan's status never gets in.
ExitStatusFaithful ==
  lpc = "exited" /\ invoker /\ ppc = "reaped" =>
    lstatus.n = IF pstatus.kind = "signal" THEN 128 + SIGKILL
                ELSE CASE cstatus.kind = "signal" -> 128 + cstatus.n
                       [] cstatus.kind = "exit"   -> cstatus.n
                       [] OTHER                   -> EXIT_FAILURE

\* Once the launcher has asked politely, the timer of the grace period is the
\* one that runs (or has expired) until SIGKILL is sent: no order of SIGTERM,
\* SIGINT, the timeout and the installation of the handlers loses it.
EscalationArmed ==
  asked /\ ~forced /\ LauncherAlive
    => alarm = "grace" \/ SIGALRM \in pending["launcher"]

\* "If linux-sandbox itself gets killed, the process and all of its children
\* will be killed."
LauncherDeathKillsSandbox == ~LauncherAlive ~> SandboxEmpty

\* A timeout, or a handled SIGTERM or SIGINT, ends the run whatever the
\* payload does with SIGTERM.
TimeoutEndsRun ==
  /\ (lpc = "waiting" /\ opt.timeout) ~> (SandboxEmpty /\ ~LauncherAlive)
  /\ (asked \/ forced) ~> (SandboxEmpty /\ ~LauncherAlive)

\* The invoker's death ends the run if the launcher had armed its parent
\* death signal and recorded the invoker as its parent by then.
ArmedInvokerDeathEndsRun ==
  (~invoker /\ initial_ppid = "invoker") ~> (SandboxEmpty /\ ~LauncherAlive)

=============================================================================
