----------------------------- MODULE StartContract -----------------------------
(***************************************************************************)
(* What mini_sandbox_start promises each application that calls it: either *)
(* the call fails and the application goes on outside the sandbox, or the  *)
(* application goes on inside the sandbox, once, and the process that made *)
(* the call ends with the status of the sandboxed one.                     *)
(***************************************************************************)
EXTENDS Integers

CONSTANT Apps

VARIABLES
  phase,   \* how far the start of each application got
  status   \* the exit status of the sandboxed program, then of the caller

Phases == {"starting", "failed", "sandboxed", "finished", "ended"}
NoStatus == -1

TypeOK == /\ phase \in [Apps -> Phases]
          /\ status \in [Apps -> 0..255 \cup {NoStatus}]

Init == /\ phase = [a \in Apps |-> "starting"]
        /\ status = [a \in Apps |-> NoStatus]

\* The call returns an error.
Fail(a) ==
  /\ phase[a] = "starting"
  /\ phase' = [phase EXCEPT ![a] = "failed"]
  /\ UNCHANGED status

\* The call returns 0, in the sandbox.
Enter(a) ==
  /\ phase[a] = "starting"
  /\ phase' = [phase EXCEPT ![a] = "sandboxed"]
  /\ UNCHANGED status

\* The sandboxed program ends.
Finish(a, code) ==
  /\ phase[a] = "sandboxed"
  /\ phase' = [phase EXCEPT ![a] = "finished"]
  /\ status' = [status EXCEPT ![a] = code]

\* The caller's process ends in the same manner.
End(a) ==
  /\ phase[a] = "finished"
  /\ phase' = [phase EXCEPT ![a] = "ended"]
  /\ UNCHANGED status

Next == \E a \in Apps :
          \/ Fail(a) \/ Enter(a) \/ End(a)
          \/ \E code \in 0..255 : Finish(a, code)

Spec == Init /\ [][Next]_<<phase, status>>

=============================================================================
