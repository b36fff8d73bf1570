---------------------------- MODULE MinitapLaunch -----------------------------
(***************************************************************************)
(* RunTCPIP in the TAP builds: the caller forks a helper with a user       *)
(* namespace of its own, the helper forks the process that goes on with    *)
(* the start, and that one forks minitap, waits for its SIGUSR1 and joins  *)
(* its network namespace.                                                  *)
(***************************************************************************)
EXTENDS Naturals

CONSTANT Faults  \* what may go wrong

FaultKinds == {"fork", "unshare", "exec", "net", "setns", "kill", "stray"}

ASSUME FaultsAssumption == Faults \subseteq FaultKinds

VARIABLES
  caller,    \* the process that called MiniSbxStart
  helper,    \* extern_pid
  inner,     \* minitap_pid: it goes on as the sandbox's launcher
  minitap,   \* p
  sigusr1,   \* a SIGUSR1 is pending for inner
  received,  \* signal_received
  sigkill,   \* minitap's parent death signal is pending
  armed,     \* minitap has called prctl
  netns,     \* of minitap
  joined,    \* the network namespace inner is in
  rules,     \* InitFirewall has run
  init,      \* what the init file says
  status,    \* the exit statuses of inner and of helper
  happened   \* history: the faults so far

vars == <<caller, helper, inner, minitap, sigusr1, received, sigkill, armed,
          netns, joined, rules, init, status, happened>>

EXIT_FAILURE == 1
Ended == {"exited", "killed"}
Setup == {"exec", "prctl", "unshare", "tun", "firewall", "signal"}
MinitapAlive == minitap \in Setup \cup {"serving"}

Init ==
  /\ caller = "fork" /\ helper = "none" /\ inner = "none" /\ minitap = "none"
  /\ sigusr1 = FALSE /\ received = FALSE /\ sigkill = FALSE /\ armed = FALSE
  /\ netns = "host" /\ joined = "host" /\ rules = FALSE
  /\ init = "0"
  /\ status = [inner |-> 0, helper |-> 0]
  /\ happened = {}

Fault(f) == f \in Faults /\ happened' = happened \cup {f}

(***************************************************************************)
(* The kernel: a process that ends leaves its status, and its children     *)
(* with a parent death signal get it.                                      *)
(***************************************************************************)

HelperEnds(how, code) ==
  /\ helper' = how
  /\ status' = [status EXCEPT !.helper = code]

InnerEnds(how, code) ==
  /\ inner' = how
  /\ status' = [status EXCEPT !.inner = code]
  /\ sigkill' = (sigkill \/ (armed /\ MinitapAlive))

minitapVars == <<minitap, sigkill, armed, netns, rules>>

-----------------------------------------------------------------------------
(* RunTCPIP: the caller and the helper. *)

\* An application without children of its own gets ECHILD for a failed fork.
RunTCPIP ==
  /\ caller = "fork"
  /\ \/ /\ caller' = "waiting" /\ helper' = "unshare"
        /\ UNCHANGED happened
     \/ /\ Fault("fork")
        /\ caller' = "exited"
        /\ UNCHANGED helper
  /\ UNCHANGED <<inner, sigusr1, received, minitapVars, joined, init, status>>

\* And the maps of the user namespace, for which the helper dies.
UnshareUser ==
  /\ helper = "unshare"
  /\ \/ /\ helper' = "fork"
        /\ UNCHANGED <<status, happened>>
     \/ /\ Fault("unshare")
        /\ \E code \in {0, EXIT_FAILURE} : HelperEnds("exited", code)
  /\ UNCHANGED <<caller, inner, sigusr1, received, minitapVars, joined, init>>

ForkInner ==
  /\ helper = "fork"
  /\ \/ /\ helper' = "waiting" /\ inner' = "start"
        /\ UNCHANGED <<status, happened>>
     \/ /\ Fault("fork")
        /\ HelperEnds("exited", EXIT_FAILURE)
        /\ UNCHANGED inner
  /\ UNCHANGED <<caller, sigusr1, received, minitapVars, joined, init>>

\* The helper relays an exit status, and anything else as a failure.
RelayInner ==
  /\ helper = "waiting" /\ inner \in Ended
  /\ HelperEnds("exited", IF inner = "exited" THEN status.inner ELSE EXIT_FAILURE)
  /\ UNCHANGED <<caller, inner, sigusr1, received, minitapVars, joined, init, happened>>

\* -1 for the application if nothing was started, else the process ends with
\* the status of the sandboxed application.
CallerReturns ==
  /\ caller = "waiting" /\ helper \in Ended
  /\ caller' = IF helper = "exited" /\ init = "0" THEN "returned" ELSE "exited"
  /\ UNCHANGED <<helper, inner, sigusr1, received, minitapVars, joined, init,
                 status, happened>>

-----------------------------------------------------------------------------
(* RunMinitap and JoinNetNs. *)

\* signal(SIGUSR1, handler), then fork: its result -1 is not looked at.
RunMinitap ==
  /\ inner = "start"
  /\ inner' = "test"
  /\ \/ /\ minitap' = "exec"
        /\ UNCHANGED happened
     \/ /\ Fault("fork")
        /\ UNCHANGED minitap
  /\ UNCHANGED <<caller, helper, sigusr1, received, sigkill, armed, netns,
                 joined, rules, init, status>>

\* while (signal_received == 0)
TestReceived ==
  /\ inner = "test"
  /\ inner' = IF received THEN "join" ELSE "pause"
  /\ UNCHANGED <<caller, helper, sigusr1, received, minitapVars, joined, init,
                 status, happened>>

Pause ==
  /\ inner = "pause"
  /\ inner' = "paused"
  /\ UNCHANGED <<caller, helper, sigusr1, received, minitapVars, joined, init,
                 status, happened>>

\* The signal's handler; pause returns only for a signal that comes later.
handler ==
  /\ sigusr1 /\ inner \in {"test", "pause", "paused", "join", "running"}
  /\ sigusr1' = FALSE
  /\ received' = TRUE
  /\ inner' = IF inner = "paused" THEN "test" ELSE inner
  /\ UNCHANGED <<caller, helper, minitapVars, joined, init, status, happened>>

\* Mutant: the failure is not looked at.
JoinNetNsAnyhow ==
  /\ inner = "join"
  /\ inner' = "running"
  /\ joined' = IF MinitapAlive THEN netns ELSE joined
  /\ UNCHANGED <<caller, helper, sigusr1, received, minitapVars, init, status, happened>>

\* A process that has ended has no namespace to open, and the one of the host
\* cannot be joined from another user namespace.
JoinNetNs ==
  /\ inner = "join"
  /\ \/ /\ MinitapAlive /\ netns = "tap"
        /\ joined' = "tap"
        /\ inner' = "running"
        /\ UNCHANGED <<status, sigkill, happened>>
     \/ /\ ~MinitapAlive \/ netns = "host"
        /\ InnerEnds("exited", 0)
        /\ UNCHANGED <<joined, happened>>
     \/ /\ Fault("setns")
        /\ InnerEnds("exited", 0)
        /\ UNCHANGED joined
  /\ UNCHANGED <<caller, helper, sigusr1, received, minitap, armed, netns, rules, init>>

\* The rest of MiniSbxStart, see LibraryStart: the setup succeeds, or not, and
\* the process ends with a status.
InitDone ==
  /\ inner = "running" /\ init = "0"
  /\ init' = "1"
  /\ UNCHANGED <<caller, helper, inner, sigusr1, received, minitapVars, joined,
                 status, happened>>

LauncherEnds ==
  /\ inner = "running"
  /\ \E code \in {0, EXIT_FAILURE} : InnerEnds("exited", code)
  /\ UNCHANGED <<caller, helper, sigusr1, received, minitap, armed, netns,
                 joined, rules, init, happened>>

-----------------------------------------------------------------------------
(* minitap. *)

\* kill(getppid(), SIGUSR1): lost if the parent has ended.
SignalParent == sigusr1' = (sigusr1 \/ inner \notin Ended)

\* Mutant: nobody is told.
ExecFailsQuietly ==
  /\ minitap = "exec"
  /\ Fault("exec")
  /\ minitap' = "exited"
  /\ UNCHANGED <<caller, helper, inner, sigusr1, received, sigkill, armed,
                 netns, joined, rules, init, status>>

\* execvp has failed; the parent is released and finds no namespace.  Between
\* kill and exit the process still has the one of the host.
ExecFails ==
  /\ minitap = "exec"
  /\ Fault("exec")
  /\ minitap' = "exiting"
  /\ SignalParent
  /\ UNCHANGED <<caller, helper, inner, received, sigkill, armed, netns,
                 joined, rules, init, status>>

Exit ==
  /\ minitap = "exiting"
  /\ minitap' = "exited"
  /\ UNCHANGED <<caller, helper, inner, sigusr1, received, sigkill, armed,
                 netns, joined, rules, init, status, happened>>

\* One step of RunNetwork: to next, or out with an error, which main only logs.
RunNetwork(at, next) ==
  /\ minitap = at
  /\ \/ /\ minitap' = next
        /\ UNCHANGED happened
     \/ /\ Fault("net")
        /\ minitap' = "exited"
  /\ UNCHANGED <<caller, helper, inner, received, sigkill, joined, init, status>>

main ==
  /\ minitap = "exec"
  /\ minitap' = "prctl"
  /\ UNCHANGED <<caller, helper, inner, sigusr1, received, sigkill, armed,
                 netns, joined, rules, init, status, happened>>

\* Mutant: the death of the parent goes unnoticed.
PrctlMissing ==
  /\ RunNetwork("prctl", "unshare")
  /\ UNCHANGED <<armed, sigusr1, netns, rules>>

Prctl ==
  /\ RunNetwork("prctl", "unshare")
  /\ armed' = (minitap' = "unshare")
  /\ UNCHANGED <<sigusr1, netns, rules>>

\* Mutant: minitap stays where it is.
UnshareNetMissing ==
  /\ RunNetwork("unshare", "tun")
  /\ UNCHANGED <<sigusr1, armed, netns, rules>>

UnshareNet ==
  /\ RunNetwork("unshare", "tun")
  /\ netns' = IF minitap' = "tun" THEN "tap" ELSE netns
  /\ UNCHANGED <<sigusr1, armed, rules>>

\* The tun device, its routes, the network stack and its forwarders.
SetUpTun ==
  /\ RunNetwork("tun", "firewall")
  /\ UNCHANGED <<sigusr1, armed, netns, rules>>

InitFirewall ==
  /\ minitap = "firewall"
  /\ minitap' = "signal"
  /\ rules' = TRUE
  /\ UNCHANGED <<caller, helper, inner, sigusr1, received, sigkill, armed,
                 netns, joined, init, status, happened>>

SignalReady ==
  /\ minitap = "signal"
  /\ minitap' = "serving"
  /\ SignalParent
  /\ UNCHANGED <<caller, helper, inner, received, sigkill, armed, netns,
                 joined, rules, init, status, happened>>

-----------------------------------------------------------------------------
(* Signals. *)

MinitapKilled ==
  /\ sigkill /\ MinitapAlive
  /\ minitap' = "killed" /\ sigkill' = FALSE
  /\ UNCHANGED <<caller, helper, inner, sigusr1, received, armed, netns,
                 joined, rules, init, status, happened>>

\* SIGINT or SIGTERM for minitap, or SIGKILL.
KillMinitap ==
  /\ MinitapAlive
  /\ Fault("kill")
  /\ minitap' = "killed" /\ sigkill' = FALSE
  /\ UNCHANGED <<caller, helper, inner, sigusr1, received, armed, netns,
                 joined, rules, init, status>>

\* Also the caller's own parent death signal.  What it has forked does not
\* inherit that signal, and goes on.
KillCaller ==
  /\ caller \in {"fork", "waiting"}
  /\ Fault("kill")
  /\ caller' = "killed"
  /\ UNCHANGED <<helper, inner, sigusr1, received, minitapVars, joined, init, status>>

KillHelper ==
  /\ helper \notin Ended \cup {"none"}
  /\ Fault("kill")
  /\ HelperEnds("killed", 0)
  /\ UNCHANGED <<caller, inner, sigusr1, received, minitapVars, joined, init>>

KillInner ==
  /\ inner \notin Ended \cup {"none"}
  /\ Fault("kill")
  /\ InnerEnds("killed", 0)
  /\ UNCHANGED <<caller, helper, sigusr1, received, minitap, armed, netns,
                 joined, rules, init>>

\* A SIGUSR1 that somebody else sends.
StraySignal ==
  /\ inner \in {"test", "pause", "paused"}
  /\ "stray" \notin happened /\ Fault("stray")
  /\ sigusr1' = TRUE
  /\ UNCHANGED <<caller, helper, inner, received, minitapVars, joined, init, status>>

Decided == caller \in {"returned", "exited", "killed"}

\* Everything has ended, or the launch hangs.
Finished ==
  /\ Decided \/ inner = "paused"
  /\ UNCHANGED vars

HelperSteps == UnshareUser \/ ForkInner \/ RelayInner
InnerSteps == RunMinitap \/ TestReceived \/ Pause \/ JoinNetNs \/ LauncherEnds
MinitapSteps ==
  \/ ExecFails \/ Exit \/ main \/ Prctl \/ UnshareNet \/ SetUpTun
  \/ InitFirewall \/ SignalReady \/ MinitapKilled

Next ==
  \/ RunTCPIP \/ CallerReturns \/ HelperSteps \/ InnerSteps \/ handler \/ InitDone
  \/ MinitapSteps \/ KillMinitap \/ KillCaller \/ KillHelper \/ KillInner
  \/ StraySignal \/ Finished

Spec == Init /\ [][Next]_vars

\* Processes are scheduled and signals delivered; the application ends.
FairSpec ==
  /\ Spec
  /\ WF_vars(RunTCPIP \/ CallerReturns) /\ WF_vars(HelperSteps)
  /\ WF_vars(InnerSteps) /\ WF_vars(handler) /\ WF_vars(MinitapSteps)

-----------------------------------------------------------------------------
(* Properties. *)

\* The state is one the processes can be in: from the tun device on, minitap has
\* a network namespace of its own.
TypeOK ==
  /\ caller \in {"fork", "waiting", "returned", "exited", "killed"}
  /\ helper \in {"none", "unshare", "fork", "waiting"} \cup Ended
  /\ inner \in {"none", "start", "test", "pause", "paused", "join", "running"} \cup Ended
  /\ minitap \in {"none", "serving", "exiting"} \cup Setup \cup Ended
  /\ sigusr1 \in BOOLEAN /\ received \in BOOLEAN /\ sigkill \in BOOLEAN
  /\ armed \in BOOLEAN /\ rules \in BOOLEAN
  /\ netns \in {"host", "tap"} /\ joined \in {"host", "tap"}
  /\ init \in {"0", "1"}
  /\ status \in [inner: {0, EXIT_FAILURE}, helper: {0, EXIT_FAILURE}]
  /\ happened \subseteq Faults
  /\ minitap \in {"tun", "firewall", "signal", "serving"} => netns = "tap"

\* Whatever fails in minitap, the start only goes on in minitap's network
\* namespace, and once the firewall has its rules: nobody but minitap itself
\* ends the wait after that (a stray SIGUSR1 may end it earlier).
StartsBehindFirewall ==
  inner = "running" \/ init = "1" =>
    /\ joined = "tap"
    /\ rules \/ "stray" \in happened

\* minitap does not outlive the process that launched it, unless that one
\* ended before minitap could set its parent death signal, which takes a kill
\* or a stray SIGUSR1: the handshake comes after prctl.
NoMinitapLeft ==
  inner \in Ended /\ MinitapAlive => sigkill \/ happened \cap {"kill", "stray"} # {}

\* What can keep inner in pause for ever.
Hung ==
  /\ inner = "paused" /\ ~sigusr1
  /\ \/ received                                 \* the signal came before pause
     \/ minitap \in {"none", "exited", "killed"}  \* nobody is left to send it
        /\ happened \cap {"fork", "net", "kill"} # {}

\* The launch comes to a decision or hangs in one of the ways of Hung; a
\* minitap that cannot be executed is not one of them.
LaunchDecides == <>[](Decided \/ Hung)

\* MiniSbxStart: "If we had a mini-sandbox internal's problem we want to return
\* -1 in the library and don't DIE the whole process."
LaunchEnds == <>Decided

=============================================================================
