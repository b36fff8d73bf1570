----------------------------- MODULE MCLibraryStart -----------------------------
(* Instances of LibraryStart for TLC. *)
EXTENDS LibraryStart

Plain(mode, tap) == [mode |-> mode, elsewhere |-> FALSE, tap |-> tap,
                     sigpipe |-> FALSE]

\* Everything an application may choose.
AnySetup == [Apps -> Setup]

\* Every application looks for its init file where its sandbox writes it, and
\* where no other one does: private files, and one each of the shared ones.
\* (sigpipe matters only if something fails.)
Sound(s) == ~s.elsewhere /\ ~s.sigpipe /\ ~(s.tap /\ s.mode = "private")
SoundSetups == {f \in [Apps -> Setup] :
                  /\ \A a \in Apps : Sound(f[a])
                  /\ \A a, b \in Apps :
                       a # b /\ f[a].mode = f[b].mode => f[a].mode = "private"}

\* Everybody uses the default.
DefaultSetups == [Apps -> {Plain("default", FALSE)}]

=============================================================================
