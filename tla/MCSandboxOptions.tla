--------------------------- MODULE MCSandboxOptions ---------------------------
(* Instances of SandboxOptions for TLC. *)
EXTENDS SandboxOptions, TLC

CONSTANTS tmp, sbxtmp, etc, var, rng, home, proj,  \* what exists
          link, dots, none, rel, fresh             \* other names

MCReal == {tmp, sbxtmp, etc, var, rng, home, proj}
MCDirs == MCReal \ {rng}

\* link is a symbolic link to home, and dots another name of it; proj, the
\* working directory, is in home, and files in home link to /tmp and to the
\* project.
MCCanon == [a \in Alias |-> home]
MCCut == [a \in Alias |-> none]
MCInside == {<<d, d>> : d \in MCDirs}
            \cup {<<tmp, sbxtmp>>, <<home, proj>>, <<home, rng>>}
MCLinks == [p \in Names |-> IF p \in {home, link, dots} THEN <<tmp, proj>> ELSE <<>>]
MCDefaults == <<var>>

=============================================================================
