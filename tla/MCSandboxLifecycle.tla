-------------------------- MODULE MCSandboxLifecycle --------------------------
(* Instances of SandboxLifecycle for TLC. *)
EXTENDS SandboxLifecycle

\* Every combination of a timeout, a grace period and -i.
AllOptions == [timeout: BOOLEAN, kill_delay: BOOLEAN, sigint: BOOLEAN,
               debug: {FALSE}]

\* A timeout and a grace period, and neither.
TimedOrNot == {[timeout |-> b, kill_delay |-> b, sigint |-> FALSE,
                debug |-> FALSE] : b \in BOOLEAN}

=============================================================================
