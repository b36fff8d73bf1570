----------------------------- MODULE MCMountPlan -----------------------------
(* Instances of MountPlan for TLC. *)
EXTENDS MountPlan

u == <<"home", "u">>
MCDirs ==
  {<<>>, TMP, MINI_SBX_TMP, <<"tmp", "root">>, <<"tmp", "overlay">>, DEV, PROC, SYS,
   <<"tmp", "x">>, MINI_SBX_TMP \o <<"x">>, MINI_SBX_TMP \o <<"z">>, <<"tmp", "y">>,
   <<"var">>, <<"opt">>, <<"opt", "tmp">>, <<"devel">>,
   <<"home">>, u, u \o <<"p">>, u \o <<"p", "s">>, <<"home", "v">>, <<"home", "v", "w">>,
   <<"data">>, <<"data", "disk">>, <<"data", "x">>, <<"data", "x", "y">>, <<"prj">>}
MCFiles == {NULL, u \o <<".rnd">>, <<"data", "x", "f">>, <<"data", "disk", "g">>, <<"vmlinuz">>,
            <<"var", "sock">>, <<"tmp", "z">>}
MCSpecial == {NULL, <<"var", "sock">>}
MCNameStarts == {<<"dev", "devel">>}
MCRoot == <<"tmp", "root">>
MCOverlay == <<"tmp", "overlay">>

Local(p, d) == [at |-> p, dev |-> d, ro |-> FALSE, net |-> FALSE, locked |-> FALSE]
Base == <<Local(<<>>, 1), Local(PROC, 2), Local(SYS, 3), Local(DEV, 4)>>

\* One file system; separate ones for home and data, a part of it mounted below
\* itself; mounts inside the others; read-only, remote and locked ones and a file.
Parts == Base \o <<Local(<<"home">>, 5), Local(<<"data">>, 6), Local(<<"data", "x">>, 6)>>
Inside == Base \o <<Local(<<"data", "disk">>, 5), Local(u \o <<"p", "s">>, 6),
                     Local(<<"devel">>, 7)>>
Mixed == Base \o <<[Local(<<"opt">>, 5) EXCEPT !.ro = TRUE],
                    [Local(<<"prj">>, 6) EXCEPT !.net = TRUE], Local(<<"opt", "tmp">>, 7),
                    Local(u, 8), Local(<<"vmlinuz">>, 9),
                    [Local(<<"data", "x">>, 10) EXCEPT !.locked = TRUE]>>

\* Links in ~/p: to a file next to it and one of /data, or to a top-level directory.
Links == <<[from |-> u \o <<"p">>, to |-> u], [from |-> u \o <<"p">>, to |-> <<"data">>]>>
TopLinks == <<[from |-> u, to |-> <<>>], [from |-> u \o <<"p">>, to |-> <<>>]>>

Host(l) == [mounts |-> l, links |-> <<>>, noOverlay |-> {}, xfs |-> FALSE, iterable |-> TRUE,
            privileged |-> FALSE]

MCMachines ==
  {Host(l) : l \in {Base, Parts, Inside, Mixed}}
  \cup {[Host(Base) EXCEPT !.links = TopLinks], [Host(Base) EXCEPT !.privileged = TRUE]}
  \cup {[Host(l) EXCEPT !.xfs = TRUE, !.links = Links] : l \in {Base, Mixed}}
  \cup {[Host(l) EXCEPT !.noOverlay = {<<"data">>, <<"data", "x">>, <<"data", "x", "y">>}] :
          l \in {Parts, Inside}}
  \cup {[Host(l) EXCEPT !.iterable = FALSE, !.links = TopLinks] : l \in {Parts, Inside, Mixed}}

\* What MiniSbxSetupDefault has added; ~/.rnd may be missing.
Defaulted(o, rnd) ==
  [o EXCEPT !.sources = <<MINI_SBX_TMP, PROC, <<"var">>, <<"opt">>>> \o @,
            !.targets = <<TMP, PROC, <<"var">>, <<"opt">>>> \o @,
            !.writable_files = (IF rnd THEN <<u \o <<".rnd">>>> ELSE <<>>) \o @]

Plain(mode, dir) ==
  [mode |-> mode, working_dir |-> dir, sources |-> <<>>, targets |-> <<>>,
   writable_files |-> <<>>, tmpfs_dirs |-> <<>>, overlayfsmount |-> <<>>,
   parents_writable |-> FALSE, netns |-> TRUE]

Cwds == {u \o <<"p">>, u \o <<"p", "s">>, u, <<"home", "v", "w">>, <<"data", "x", "y">>,
         <<"devel">>, <<"tmp", "y">>}

Parents(o) == [o EXCEPT !.parents_writable = TRUE, !.netns = FALSE]
Bound(o, p) == [o EXCEPT !.sources = @ \o <<p>>, !.targets = @ \o <<p>>]
Writable(o, p) == [o EXCEPT !.writable_files = @ \o <<p>>]
Tmpfs(o, p) == [o EXCEPT !.tmpfs_dirs = <<p>>]

Extras(o) ==
  {o, Parents(o), Tmpfs(o, <<"var">>), Tmpfs(o, <<"data", "x">>),
   Tmpfs(Writable(o, <<"data">>), u \o <<"p">>)}
  \cup {Bound(o, p) : p \in {<<"data">>, <<"opt", "tmp">>, <<"data", "x">>, <<"home", "v">>}}
  \cup {Writable(o, p) :
          p \in {<<"data", "x">>, <<"data", "disk", "g">>, <<"home">>, <<"tmp", "x">>}}

\* Overlays above, at and below what else is asked for.
Overlays(o) ==
  {[p EXCEPT !.overlayfsmount = ds] :
     p \in {o, Bound(o, <<"data">>), Writable(o, <<"data", "x">>), Tmpfs(o, <<"data", "x">>),
            Tmpfs(Writable(o, <<"data">>), <<"data", "x">>)},
     ds \in {<<<<"data">>>>, <<<<"opt">>, <<"data", "x">>>>}}

\* Devices and sockets, a path that is not of one type in the two /tmp.
Types(o) ==
  {Writable(o, <<"tmp", "z">>)}
  \cup {[o EXCEPT !.sources = @ \o bs, !.targets = @ \o bs] :
          bs \in {<<NULL>>, <<<<"var">>, <<"var", "sock">>>>, <<<<"var", "sock">>, <<"var">>>>}}

\* A file as an overlay; the root directory as one, or bound after overlays.
Tops(o) ==
  {[o EXCEPT !.overlayfsmount = <<<<"vmlinuz">>>>],
   [o EXCEPT !.overlayfsmount = <<<<>>>>],
   [o EXCEPT !.overlayfsmount = <<<<"data", "x">>, o.working_dir>>,
             !.tmpfs_dirs = <<<<"data", "x">>>>, !.sources = <<<<>>>>, !.targets = <<<<>>>>]}

MCOptions ==
  LET all == {Plain(m, d) : m \in {"custom", "hermetic", "readonly"}, d \in Cwds}
             \cup {Defaulted(Plain("default", d), TRUE) : d \in Cwds}
  IN UNION {Extras(o) \cup Types(o) : o \in all}
     \cup UNION {Overlays(o) : o \in {a \in all : a.mode \in {"default", "custom"}}}
     \cup {Defaulted(Plain("default", d), FALSE) : d \in Cwds}
     \cup UNION {Tops(Plain("custom", d)) : d \in Cwds}

\* For the violated run: a disk mounted below /data, and nothing asked for.
OneMachine == {Host(Base \o <<Local(<<"data", "disk">>, 5)>>)}
PlainOptions == {Defaulted(Plain("default", d), TRUE) : d \in Cwds}

=============================================================================
