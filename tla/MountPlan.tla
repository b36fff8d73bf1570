------------------------------ MODULE MountPlan ------------------------------
(***************************************************************************)
(* The mounts pid1 makes before it runs anything: the root of the sandbox, *)
(* what is bound, overlaid or hidden in it, and what stays writable.  A    *)
(* path is a sequence of names, the root directory the empty one.          *)
(***************************************************************************)
EXTENDS Naturals, FiniteSets, SequencesExt

CONSTANTS
  Dirs,         \* directories of the host
  Files,        \* other files of the host
  Special,      \* those that are no regular files: devices, sockets, FIFOs
  NameStarts,   \* pairs of different names of which one starts with the other
  home_dir,
  sandbox_root,
  tmp_overlayfs,
  Machines,     \* mounts and file systems of the host
  Options       \* what MiniSbxStart has accepted, see SandboxOptions

TMP == <<"tmp">>
DEV == <<"dev">>
PROC == <<"proc">>
SYS == <<"sys">>
NULL == <<"dev", "null">>
MINI_SBX_TMP == <<"tmp", "mini-sandbox-tmp">>
MINISBX_TMP_INIT == <<"tmp", "mini-sandbox-init">>
EMPTY_FILE == <<"tmp", "empty_file">>

Paths == Seq(STRING)
isSubpath(base, sub) == IsPrefix(base, sub)

\* As character strings: /devel starts with /dev.
starts_with(p, prefix) ==
  /\ Len(prefix) <= Len(p)
  /\ isSubpath(Front(prefix), p)
  /\ LET a == Last(prefix) b == p[Len(prefix)] IN a = b \/ <<a, b>> \in NameStarts

ends_with(p, name) == p # <<>> /\ Last(p) = name

\* The name alone keeps a mount writable.
LooselyNamed(p) == ends_with(p, "tmp") \/ ends_with(p, "proc") \/ starts_with(p, DEV)

\* A mount is locked if the kernel refuses to change its flags.  links are the
\* symbolic links directly in directory from that lead into directory to, as
\* directory_iterator comes to them.
Machine == [mounts : Seq([at : Paths, dev : Nat, ro : BOOLEAN, net : BOOLEAN, locked : BOOLEAN]),
            links : Seq([from : Paths, to : Paths]),
            noOverlay : SUBSET Paths,
            xfs : BOOLEAN, iterable : BOOLEAN, privileged : BOOLEAN]

Option == [mode : {"default", "custom", "hermetic", "readonly"},
           working_dir : Paths,
           sources : Seq(Paths), targets : Seq(Paths), writable_files : Seq(Paths),
           tmpfs_dirs : Seq(Paths), overlayfsmount : Seq(Paths),
           parents_writable : BOOLEAN, netns : BOOLEAN]

\* The sandbox root is a new directory, temp_<number>, so that nothing else is in
\* it, the overlay directory neither; it is not below /dev, /proc or /sys, where
\* none can be made.  No directory is below a file or where the init file or the
\* empty file will be.  Of the links those in the home directory count.  Sources
\* and writable paths are disjoint, the overlay directory is in nothing writable,
\* and a path is bound to itself, but for the default mode's /tmp; a tmpfs over
\* the directory of the sandbox root is left out.
ASSUME MountAssumption ==
  /\ Dirs \subseteq Paths /\ Files \cup {MINISBX_TMP_INIT} \subseteq Paths
  /\ {<<>>, TMP, DEV, PROC, SYS, MINI_SBX_TMP, sandbox_root, tmp_overlayfs, home_dir} \subseteq Dirs
  /\ NULL \in Special /\ Special \subseteq Files /\ EMPTY_FILE \notin Dirs
  /\ \A f \in Files \cup {MINISBX_TMP_INIT}, d \in Dirs : ~isSubpath(f, d)
  /\ sandbox_root # <<>> /\ sandbox_root # MINI_SBX_TMP /\ ~LooselyNamed(sandbox_root)
  /\ \A p \in {home_dir, tmp_overlayfs} : ~isSubpath(sandbox_root, p)
  /\ \A p \in {PROC, SYS} : ~isSubpath(p, sandbox_root)
  /\ Machines \subseteq Machine
  /\ \A m \in Machines :
       /\ m.mounts # <<>> /\ m.mounts[1].at = <<>>
       /\ \A i \in DOMAIN m.mounts : ~isSubpath(sandbox_root, m.mounts[i].at)
       /\ \A i \in DOMAIN m.links :
            /\ isSubpath(home_dir, m.links[i].from)
            /\ m.links[i].to \in Dirs /\ ~isSubpath(sandbox_root, m.links[i].to)
  /\ Options \subseteq Option
  /\ \A o \in Options :
       /\ o.working_dir \in Dirs
       /\ \A p \in {o.working_dir} \cup ToSet(o.writable_files) \cup ToSet(o.tmpfs_dirs) :
            ~isSubpath(sandbox_root, p)
       /\ Len(o.sources) = Len(o.targets)
       /\ \A i \in DOMAIN o.sources :
            \/ o.targets[i] = o.sources[i]
            \/ o.mode = "default" /\ o.sources[i] = MINI_SBX_TMP /\ o.targets[i] = TMP
       /\ ToSet(o.sources) \cap ToSet(o.writable_files) = {}
       /\ \A w \in ToSet(o.writable_files) \cup {o.working_dir} :
            o.mode # "readonly" => ~isSubpath(w, tmp_overlayfs)
       /\ \A t \in ToSet(o.tmpfs_dirs) : t \in Dirs /\ ~isSubpath(t, sandbox_root)

VARIABLES
  machine,
  asked,          \* the options as MiniSbxStart has accepted them
  opt,            \* with what pid1 adds
  pc,
  mnt,            \* /proc/self/mounts: the mounts in the order they were made
  made,           \* files pid1 has created
  ReadOnlyPaths,
  mounts,         \* how many mounts there were before the policy's
  next,           \* the item of its list that the current loop comes to next
  todo,           \* directories the current loop has still to mount
  fault           \* history: a system call has failed

vars == <<machine, asked, opt, pc, mnt, made, ReadOnlyPaths, mounts, next, todo, fault>>

-----------------------------------------------------------------------------
(* The kernel's mount table.  A path is looked up in the last mount at or  *)
(* above it.  A mount shows directory dir of file system fs, as a copy on  *)
(* write if it is an overlay.                                              *)

MountRecord ==
  [at : Paths, fs : {"host", "tmpfs", "proc", "sysfs"}, dir : Paths, cow : BOOLEAN,
   ro : BOOLEAN, net : BOOLEAN, locked : BOOLEAN, carried : BOOLEAN]

Mount(at, fs, dir) ==
  [at |-> at, fs |-> fs, dir |-> dir, cow |-> FALSE, ro |-> FALSE, net |-> FALSE,
   locked |-> FALSE, carried |-> FALSE]

HostMount(h) ==
  [Mount(h.at, "host", h.at) EXCEPT !.ro = h.ro, !.net = h.net, !.locked = h.locked]

Join(p, q) == p \o q
Rest(p, q) == SubSeq(q, Len(p) + 1, Len(q))

MountOf(m, p) == SelectLastInSeq(m, LAMBDA x : IsPrefix(x.at, p))

\* What path p names.
Locate(m, p) ==
  LET x == m[MountOf(m, p)] IN
  [fs |-> x.fs, cow |-> x.cow, path |-> Join(x.dir, Rest(x.at, p))]

\* A file below a mount of the host cannot be seen through one above it.
OnHost(m, p) ==
  LET x == m[MountOf(m, p)]
      l == Locate(m, p)
  IN /\ l.fs = "host" /\ l.path \in Dirs \cup Files
     /\ ~\E i \in DOMAIN machine.mounts :
           /\ IsStrictPrefix(x.dir, machine.mounts[i].at)
           /\ IsStrictPrefix(machine.mounts[i].at, l.path)

\* A write to p changes a file of the host.
WritesHost(m, p) ==
  /\ OnHost(m, p)
  /\ ~m[MountOf(m, p)].cow /\ ~m[MountOf(m, p)].ro

Bind(m, src, dst) ==
  LET x == m[MountOf(m, src)] IN
  Append(m, [x EXCEPT !.at = dst, !.dir = Locate(m, src).path, !.carried = FALSE])

\* The mounts whose numbers are in I, in their order.
Kept(m, I) ==
  LET kept[n \in 0..Len(m)] == IF n = 0 THEN <<>>
                               ELSE IF n \in I THEN Append(kept[n - 1], m[n]) ELSE kept[n - 1]
  IN kept[Len(m)]

\* With MS_REC the mounts below the source are copied too.
BindRec(m, src, dst) ==
  LET below == Kept(m, {i \in DOMAIN m : i > MountOf(m, src) /\ IsStrictPrefix(src, m[i].at)})
  IN Bind(m, src, dst) \o
     [i \in DOMAIN below |->
        [below[i] EXCEPT !.at = Join(dst, Rest(src, @)), !.carried = TRUE]]

\* It concerns the mount at p, if there is one, and not those below.
Remount(m, p, ro) ==
  LET i == MountOf(m, p) IN
  IF m[i].at = p /\ ~m[i].locked THEN [m EXCEPT ![i].ro = @ \/ ro] ELSE m

-----------------------------------------------------------------------------
(* A step works on s: the mounts, the files created, and whether pid1 has  *)
(* not died.                                                               *)

Now == [mnt |-> mnt, made |-> made, ok |-> TRUE]
Dies(s) == [s EXCEPT !.ok = FALSE]
DieUnless(cond, s) == IF cond THEN s ELSE Dies(s)

Exists(s, p) ==
  \/ s.mnt[MountOf(s.mnt, p)].at = p
  \/ OnHost(s.mnt, p)
  \/ Locate(s.mnt, p) \in s.made

FileAt(s, p) == OnHost(s.mnt, p) /\ Locate(s.mnt, p).path \in Files

\* What is at p is not what CreateTarget would create there: a directory, or a
\* regular file.
WrongType(s, p, is_directory) ==
  /\ OnHost(s.mnt, p)
  /\ Locate(s.mnt, p).path \in (IF is_directory THEN Files ELSE Dirs \cup Special)

Missing(s, p) == {i \in 1..Len(p) : ~Exists(s, SubSeq(p, 1, i))}

\* What there is on the way to a path that is missing.
Parent(s, p) ==
  LET missing == Missing(s, p)
  IN SubSeq(p, 1, (CHOOSE i \in missing : \A j \in missing : i <= j) - 1)

\* A file can be created in directory d.
CanHold(s, d) ==
  LET x == s.mnt[MountOf(s.mnt, d)] IN
  ~x.ro /\ x.fs \in {"host", "tmpfs"} /\ ~FileAt(s, d)

CanCreate(s, p) == Missing(s, p) # {} => CanHold(s, Parent(s, p))

Created(s, p) ==
  [s EXCEPT !.made = @ \cup {Locate(s.mnt, SubSeq(p, 1, i)) : i \in Missing(s, p)}]

\* Mutant: the parents are not created.
CreateTargetAlone(s, p, is_directory) ==
  DieUnless(CanCreate(s, p) /\ ~WrongType(s, p, is_directory) /\ Cardinality(Missing(s, p)) <= 1,
            Created(s, p))

\* pid1 dies if the path, which it needs, is of the wrong type or cannot be created.
CreateTarget(s, p, is_directory) ==
  DieUnless(CanCreate(s, p) /\ ~WrongType(s, p, is_directory), Created(s, p))

\* The result is not looked at; a parent that cannot be created is deadly, a
\* file in its place is not.
TryCreateTarget(s, p) ==
  IF CanCreate(s, p) THEN Created(s, p)
  ELSE DieUnless(Cardinality(Missing(s, p)) = 1 \/ FileAt(s, Parent(s, p)), s)

Become(state, after) ==
  \E s \in {state} :
    /\ mnt' = s.mnt
    /\ made' = s.made
    /\ pc' = IF s.ok THEN after ELSE "died"
    /\ UNCHANGED <<machine, asked, fault>>

\* One turn of a loop over n items: s is what becomes of the next one.
ForEach(n, s, after) ==
  IF next <= n THEN Become(s, pc) /\ next' = next + 1
               ELSE Become(Now, after) /\ next' = 1

policy == <<opt, ReadOnlyPaths, mounts>>
fixed == <<policy, next, todo>>

\* Mutant: the working directory is forgotten.
ShouldBeWritableNoCwd(p) ==
  \/ LooselyNamed(p)
  \/ p \in ToSet(opt.writable_files) \cup ToSet(opt.tmpfs_dirs)

ShouldBeWritable(p) ==
  \/ p = opt.working_dir
  \/ LooselyNamed(p)
  \/ p \in ToSet(opt.writable_files) \cup ToSet(opt.tmpfs_dirs)

-----------------------------------------------------------------------------
(* Pid1Main chooses. *)

use_overlayfs == opt.mode \in {"default", "custom"}
Chroots == opt.mode \in {"custom", "hermetic"} \/ (opt.mode = "default" /\ machine.iterable)

FirstStep == IF Chroots THEN "root" ELSE "light"

\* Mutant: the overlay's directory stays where it is.
MountOverlayDirAsTmpfsNot ==
  /\ pc = "start"
  /\ Become(Now, FirstStep)
  /\ UNCHANGED fixed

\* In a privileged container, whose files are an overlay already.
MountOverlayDirAsTmpfs ==
  /\ pc = "start"
  /\ Become([Now EXCEPT !.mnt = IF machine.privileged /\ use_overlayfs
                                THEN Append(@, Mount(tmp_overlayfs, "tmpfs", tmp_overlayfs))
                                ELSE @],
            FirstStep)
  /\ UNCHANGED fixed

\* The mount point of a directory.  Once there is one, every longer one
\* replaces it: its length is not updated.
GetMountPointOf(dir) ==
  LET At(i) == machine.mounts[i].at
      device == machine.mounts[MountOf(machine.mounts, dir)].dev
      fit == {i \in DOMAIN machine.mounts :
                isSubpath(At(i), dir) /\ machine.mounts[i].dev = device}
      longer == {i \in fit : Len(At(i)) > Len(At(Min(fit)))}
  IN At(IF longer = {} THEN Min(fit) ELSE Max(longer))

\* What the options' calls MiniSbxMountWrite and MiniSbxMountOverlay add for a
\* directory that pid1 gives them.
addIfNotPresent(paths, new) == IF new \in ToSet(paths) THEN paths ELSE Append(paths, new)

MountHomeSymlinks(paths, d) ==
  LET after[n \in 0..Len(machine.links)] ==
        IF n = 0 THEN paths
        ELSE IF machine.links[n].from = d THEN addIfNotPresent(after[n - 1], machine.links[n].to)
        ELSE after[n - 1]
  IN after[Len(machine.links)]

\* For one directory after the other.
Added(paths, ds) ==
  LET after[n \in 0..Len(ds)] ==
        IF n = 0 THEN paths ELSE MountHomeSymlinks(Append(after[n - 1], ds[n]), ds[n])
  IN after[Len(ds)]

-----------------------------------------------------------------------------
(* Without a root of its own: the read-only mode, and the default mode if  *)
(* the root directory cannot be listed.                                    *)

\* That no mount point is found, which MiniSbxMountWrite refuses, is not looked at.
LightMode ==
  /\ pc = "light"
  /\ \E points \in {<<>>} \cup (IF opt.mode = "default" THEN {<<GetMountPointOf(opt.working_dir)>>}
                                                         ELSE {}) :
       opt' = [opt EXCEPT !.writable_files = Added(@, points \o <<TMP>>)]
  /\ pc' = "filesystems"
  /\ UNCHANGED <<machine, asked, mnt, made, ReadOnlyPaths, mounts, next, todo, fault>>

\* MountFilesystems, which begins with a test.
MountFilesystems ==
  /\ pc = "filesystems"
  /\ Become(DieUnless(~\E i \in DOMAIN opt.tmpfs_dirs :
                         starts_with(opt.working_dir, opt.tmpfs_dirs[i]), Now),
            "inplacebinds")
  /\ UNCHANGED fixed

\* A bind that is not remounted.
BindOnto(s, src, dst) ==
  DieUnless(Exists(s, src) /\ Exists(s, dst), [s EXCEPT !.mnt = BindRec(@, src, dst)])

BindInPlace ==
  /\ pc = "inplacebinds"
  /\ ForEach(Len(opt.sources), BindOnto(Now, opt.sources[next], opt.targets[next]), "inplacetmpfs")
  /\ UNCHANGED <<policy, todo>>

MountTmpfs(s, d) ==
  DieUnless(Exists(s, d) /\ ~FileAt(s, d), [s EXCEPT !.mnt = Append(@, Mount(d, "tmpfs", d))])

TmpfsInPlace ==
  /\ pc = "inplacetmpfs"
  /\ ForEach(Len(opt.tmpfs_dirs), MountTmpfs(Now, opt.tmpfs_dirs[next]), "inplacewritables")
  /\ UNCHANGED <<policy, todo>>

WritableInPlace ==
  LET w == opt.writable_files[next] IN
  /\ pc = "inplacewritables"
  /\ ForEach(Len(opt.writable_files),
             IF w \in ToSet(opt.sources) THEN Now ELSE BindOnto(Now, w, w), "inplacecwd")
  /\ UNCHANGED <<policy, todo>>

\* The kernel does not bind a directory without the mounts of the host below
\* it; then the directory has to be a mount point.
WorkingDirInPlace ==
  LET wd == opt.working_dir
      x == mnt[MountOf(mnt, wd)]
      refused == \E i \in DOMAIN machine.mounts : IsStrictPrefix(wd, machine.mounts[i].at)
  IN /\ pc = "inplacecwd"
     /\ Become(IF refused THEN DieUnless(x.at = wd /\ ~x.locked, Now)
                          ELSE DieUnless(Exists(Now, wd), [Now EXCEPT !.mnt = Bind(@, wd, wd)]),
               "remount")
     /\ UNCHANGED fixed

\* Every mount point becomes read-only where it is; that the kernel refuses is
\* not looked at.
MakeFilesystemPartiallyReadOnly ==
  LET at == mnt[next].at IN
  /\ pc = "remount"
  /\ ForEach(Len(mnt),
             [Now EXCEPT !.mnt = IF ends_with(at, "proc") THEN @
                                 ELSE Remount(@, at, ~ShouldBeWritable(at))],
             "proc")
  /\ UNCHANGED <<policy, todo>>

-----------------------------------------------------------------------------
(* With a root of its own. *)

InRoot(p) == Join(sandbox_root, p)

\* With CreateEmptyFile.
MountSandboxAndGoThere ==
  /\ pc = "root"
  /\ Become(CreateTarget([Now EXCEPT !.mnt = Bind(@, sandbox_root, sandbox_root)],
                         InRoot(EMPTY_FILE), FALSE),
            "dev")
  /\ UNCHANGED fixed

MountDev ==
  LET s == CreateTarget(Now, InRoot(NULL), FALSE) IN
  /\ pc = "dev"
  /\ Become([s EXCEPT !.mnt = Bind(@, NULL, InRoot(NULL))], "proc")
  /\ UNCHANGED fixed

PolicyStep == IF ~Chroots THEN "chdir"
              ELSE CASE opt.mode = "default" -> "workingdir"
                     [] opt.mode = "custom" -> "overlayfirst"
                     [] opt.mode = "hermetic" -> "tmpfs"

\* On the host's /proc and /sys, from where the policy's mounts take them.
MountProcAndSys ==
  /\ pc = "proc"
  /\ Become([Now EXCEPT !.mnt =
               @ \o <<Mount(PROC, "proc", PROC)>>
                 \o (IF opt.netns THEN <<[Mount(SYS, "sysfs", SYS) EXCEPT !.ro = TRUE]>> ELSE <<>>)],
            PolicyStep)
  /\ UNCHANGED fixed

\* The first directory below base on the way to dir, base itself for an empty
\* way; base's parent if dir is not below base: the way starts with "..".
TopLevelRelativeFolder(base, dir) ==
  CASE dir = base -> base
    [] IsStrictPrefix(base, dir) -> SubSeq(dir, 1, Len(base) + 1)
    [] OTHER -> Front(base)

\* All directories from top on the way to dir, for XFS.
MountOverlaySubfolders(top, dir) ==
  IF isSubpath(top, dir)
  THEN [i \in 1..(Len(dir) - Len(top)) |-> SubSeq(dir, 1, Len(top) + i - 1)]
  ELSE <<>>

\* The options with the directories above the working directory.
WithParents(o, top) ==
  IF o.parents_writable THEN [o EXCEPT !.writable_files = Added(@, <<top>>)]
  ELSE [o EXCEPT !.overlayfsmount =
          Added(@, IF machine.xfs THEN MountOverlaySubfolders(top, o.working_dir) ELSE <<top>>)]

\* Mutant: the home directory gets no attention.
MountWorkingDirMountPointAnyhow ==
  LET wd == opt.working_dir
      top == TopLevelRelativeFolder(GetMountPointOf(wd), wd)
  IN /\ pc = "workingdir"
     /\ mounts' = Len(mnt)
     /\ opt' = IF GetMountPointOf(wd) = wd THEN opt ELSE WithParents(opt, top)
     /\ pc' = "leftover"
     /\ UNCHANGED <<machine, asked, mnt, made, ReadOnlyPaths, next, todo, fault>>

\* The directory below the mount point, or below the home directory if that
\* would be in it, becomes an overlay or writable; nothing does if the mount
\* point, or the way from it, is not found.
MountWorkingDirMountPoint ==
  LET wd == opt.working_dir
      point == GetMountPointOf(wd)
      base == IF isSubpath(TopLevelRelativeFolder(point, wd), home_dir) THEN home_dir ELSE point
  IN /\ pc = "workingdir"
     /\ mounts' = Len(mnt)
     /\ opt' \in {opt} \cup (IF wd \in {point, base} THEN {}
                             ELSE {WithParents(opt, TopLevelRelativeFolder(base, wd))})
     /\ pc' = "leftover"
     /\ UNCHANGED <<machine, asked, mnt, made, ReadOnlyPaths, next, todo, fault>>

\* Another policy takes care of the directory.
ToBeMounted(d) ==
  \/ isSubpath(home_dir, d) \/ isSubpath(d, home_dir)
  \/ \E p \in ToSet(opt.overlayfsmount) \cup ToSet(opt.writable_files)
               \cup ToSet(opt.sources) \cup {TMP, opt.working_dir} : isSubpath(p, d)
  \/ isSubpath(d, opt.working_dir)
  \/ d = DEV

\* Mutant: files are taken for directories.
AddLeftoverFoldersAndFiles ==
  /\ pc = "leftover"
  /\ ReadOnlyPaths' = {d \in Dirs \cup Files : Len(d) = 1 /\ ~ToBeMounted(d)}
  /\ pc' = "tmpfs"
  /\ UNCHANGED <<machine, asked, opt, mnt, made, mounts, next, todo, fault>>

AddLeftoverFoldersToReadOnlyPaths ==
  /\ pc = "leftover"
  /\ ReadOnlyPaths' = {d \in Dirs : Len(d) = 1 /\ ~ToBeMounted(d)}
  /\ pc' = "tmpfs"
  /\ UNCHANGED <<machine, asked, opt, mnt, made, mounts, next, todo, fault>>

-----------------------------------------------------------------------------
(* MountAllMounts, one action for each kind. *)

\* Mutant: in the sandbox's directory, which later binds cover.
MountAllTmpfsInRoot ==
  LET d == opt.tmpfs_dirs[next]
      t == TryCreateTarget(Now, InRoot(d))
  IN /\ pc = "tmpfs"
     /\ ForEach(Len(opt.tmpfs_dirs), IF t.ok THEN MountTmpfs(t, InRoot(d)) ELSE t, "binds")
     /\ UNCHANGED <<policy, todo>>

\* On the host's directory: the sandbox has it where a later bind brings it.
MountAllTmpfs ==
  LET d == opt.tmpfs_dirs[next]
      t == TryCreateTarget(Now, InRoot(d))
  IN /\ pc = "tmpfs"
     /\ ForEach(Len(opt.tmpfs_dirs), IF t.ok THEN MountTmpfs(t, d) ELSE t, "binds")
     /\ UNCHANGED <<policy, todo>>

\* Mutant: the source is made read-only.
MountAndRemountSource(s, item, target) ==
  LET t == DieUnless(Exists(s, item), CreateTarget(s, target, ~FileAt(s, item)))
  IN [t EXCEPT !.mnt = Remount(BindRec(@, item, target), item,
                               ~ShouldBeWritable(item) /\ ~ShouldBeWritable(target))]

\* The mount, not those below it, becomes read-only; pid1 dies if it cannot.
MountAndRemountRO(s, item, target) ==
  LET ro == ~ShouldBeWritable(item) /\ ~ShouldBeWritable(target)
      t == DieUnless(Exists(s, item), CreateTarget(s, target, ~FileAt(s, item)))
  IN DieUnless(~(ro /\ s.mnt[MountOf(s.mnt, item)].locked),
               [t EXCEPT !.mnt = Remount(BindRec(@, item, target), target, ro)])

MountBinds ==
  /\ pc = "binds"
  /\ ForEach(Len(opt.sources),
             MountAndRemountRO(Now, opt.sources[next], InRoot(opt.targets[next])), "readonly")
  /\ todo' = IF next <= Len(opt.sources) THEN {} ELSE ReadOnlyPaths
  /\ UNCHANGED policy

\* ReadOnlyPaths is sorted: a directory comes before what is in it.
MountReadOnly ==
  LET p == CHOOSE p \in todo : ~\E q \in todo : IsStrictPrefix(q, p) IN
  /\ pc = "readonly"
  /\ IF todo = {} THEN Become(Now, "overlays") /\ UNCHANGED todo
     ELSE Become(MountAndRemountRO(Now, p, InRoot(p)), pc) /\ todo' = todo \ {p}
  /\ UNCHANGED <<policy, next>>

\* The kernel refuses some directories, and every one if the upper directory
\* would itself be in an overlay.
Refuses(d) ==
  \/ d \in machine.noOverlay
  \/ machine.privileged /\ Locate(mnt, tmp_overlayfs).fs = "host"

list_directories(d) == {e \in Dirs : Len(e) = Len(d) + 1 /\ isSubpath(d, e) /\ Exists(Now, e)}

OVELAY_DEPTH_THRESHOLD == 2

\* Mutant: the directory itself is bound.
OverlayBound(m, d) ==
  Append(m, [m[MountOf(m, d)] EXCEPT !.at = InRoot(d), !.dir = Locate(m, d).path,
                                     !.locked = FALSE, !.carried = FALSE])

\* An overlay shows one file system, without the mounts below.
Overlay(m, d) ==
  Append(m, [m[MountOf(m, d)] EXCEPT !.at = InRoot(d), !.dir = Locate(m, d).path,
                                     !.cow = TRUE, !.ro = FALSE, !.locked = FALSE,
                                     !.carried = FALSE])

\* What is no directory is refused, and cannot be listed then.
MountOverlayFs(s, d) ==
  LET t == TryCreateTarget(s, InRoot(d)) IN
  DieUnless(/\ Exists(s, d) /\ ~FileAt(s, d) /\ Exists(t, InRoot(d))
            /\ Refuses(d) \/ ~FileAt(t, InRoot(d)),
            IF Refuses(d) THEN t ELSE [t EXCEPT !.mnt = Overlay(@, d)])

\* The subdirectories of a directory that is refused are tried, and theirs; what
\* is refused there becomes read-only.  One that cannot be read is left out.
\* The custom mode comes here twice, and only the first time before MountReadOnly.
MountAllOverlayFs ==
  LET top == opt.overlayfsmount[next]
      d == IF todo = {} THEN top ELSE CHOOSE e \in todo : TRUE
      deep == Len(d) >= Len(top) + OVELAY_DEPTH_THRESHOLD
  IN /\ pc \in {"overlayfirst", "overlays"}
     /\ IF next <= Len(opt.overlayfsmount)
        THEN /\ Become(MountOverlayFs(Now, d), pc)
             /\ \E entries \in {{}} \cup (IF Refuses(d) /\ ~deep THEN {list_directories(d)} ELSE {}) :
                  todo' = (todo \ {d}) \cup entries
             /\ next' = IF todo' = {} THEN next + 1 ELSE next
             /\ ReadOnlyPaths' = ReadOnlyPaths \cup (IF Refuses(d) /\ deep THEN {d} ELSE {})
        ELSE /\ Become(Now, IF pc = "overlays" THEN "writables" ELSE "tmpfs")
             /\ next' = 1
             /\ UNCHANGED <<todo, ReadOnlyPaths>>
     /\ UNCHANGED <<opt, mounts>>

\* A file cannot be bound on a directory, nor a directory on a file.
BindInRoot(s, p) ==
  LET t == TryCreateTarget(s, InRoot(p)) IN
  DieUnless(/\ t.ok /\ Exists(t, p) /\ Exists(t, InRoot(p))
            /\ OnHost(t.mnt, InRoot(p)) => (FileAt(t, p) <=> FileAt(t, InRoot(p))),
            [t EXCEPT !.mnt = BindRec(@, p, InRoot(p))])

MountWritables ==
  LET w == opt.writable_files[next] IN
  /\ pc = "writables"
  /\ ForEach(Len(opt.writable_files), IF Exists(Now, w) THEN BindInRoot(Now, w) ELSE Now, "cwd")
  /\ UNCHANGED <<policy, todo>>

MountWorkingDir ==
  /\ pc = "cwd"
  /\ Become(BindInRoot(Now, opt.working_dir),
            CASE opt.mode = "default" -> "rest"
              [] opt.mode = "custom" -> "home"
              [] opt.mode = "hermetic" -> "pivot")
  /\ UNCHANGED fixed

\* MakeFilesystemPartiallyReadOnly of the default mode: the host's mounts that
\* have no place in the sandbox yet, except the remote ones.  A directory is made
\* for each, on which a file cannot be bound; no failure is looked at.
MountRest ==
  LET x == mnt[next]
      t == TryCreateTarget(Now, InRoot(x.at))
      skipped == \/ ends_with(x.at, "proc") \/ x.net
                 \/ isSubpath(sandbox_root, x.at) \/ Exists(Now, InRoot(x.at))
      bound == CanCreate(Now, InRoot(x.at)) /\ Exists(t, x.at) /\ ~FileAt(t, x.at)
  IN /\ pc = "rest"
     /\ ForEach(mounts + 1,
                IF skipped THEN Now
                ELSE IF ~bound THEN t
                ELSE [t EXCEPT !.mnt = Remount(BindRec(@, x.at, InRoot(x.at)), InRoot(x.at),
                                               ~ShouldBeWritable(x.at))],
                "home")
     /\ UNCHANGED <<policy, todo>>

MakeEmptyHome ==
  /\ pc = "home"
  /\ Become(CreateTarget(Now, InRoot(home_dir), TRUE), "pivot")
  /\ UNCHANGED fixed

\* The sandbox's root is the first mount at sandbox_root, where pid1 has gone:
\* what is on top of it, with all that came after, is out of sight.  What is not
\* below the sandbox root is detached.
ChangeRoot ==
  LET roots == {i \in DOMAIN mnt : mnt[i].at = sandbox_root}
      OnTop(i) == \E j, k \in roots : j < k /\ k <= i
      below == Kept(mnt, {i \in DOMAIN mnt : isSubpath(sandbox_root, mnt[i].at) /\ ~OnTop(i)})
  IN /\ pc = "pivot"
     /\ Become([Now EXCEPT !.mnt = [i \in DOMAIN below |->
                                      [below[i] EXCEPT !.at = Rest(sandbox_root, @)]]],
               "chdir")
     /\ UNCHANGED fixed

EnterWorkingDirectory ==
  /\ pc = "chdir"
  /\ Become(DieUnless(Exists(Now, opt.working_dir), Now), "init")
  /\ UNCHANGED fixed

\* The init file is written and bound on itself, read-only; the bind is undone if
\* that cannot be.  No failure is looked at.
InitDone ==
  LET s == Created(Now, MINISBX_TMP_INIT)
      m == Bind(s.mnt, MINISBX_TMP_INIT, MINISBX_TMP_INIT)
  IN /\ pc = "init"
     /\ Become(IF ~CanCreate(Now, MINISBX_TMP_INIT) THEN Now
               ELSE IF mnt[MountOf(mnt, MINISBX_TMP_INIT)].locked THEN s
               ELSE [s EXCEPT !.mnt = Remount(m, MINISBX_TMP_INIT, TRUE)],
               "done")
     /\ UNCHANGED fixed

\* A system call of the current step fails: DIE.
SystemCallFails ==
  /\ pc \notin {"init", "done", "died"}
  /\ pc' = "died"
  /\ fault' = TRUE
  /\ UNCHANGED <<machine, asked, opt, mnt, made, ReadOnlyPaths, mounts, next, todo>>

Finished == pc \in {"done", "died"} /\ UNCHANGED vars

Init ==
  /\ machine \in Machines
  /\ asked \in Options
  /\ opt = asked
  /\ pc = "start"
  /\ mnt = [i \in DOMAIN machine.mounts |-> HostMount(machine.mounts[i])]
  /\ made = {}
  /\ ReadOnlyPaths = {}
  /\ mounts = 0
  /\ next = 1
  /\ todo = {}
  /\ fault = FALSE

Next ==
  \/ MountOverlayDirAsTmpfs \/ LightMode \/ MountFilesystems \/ BindInPlace
  \/ TmpfsInPlace \/ WritableInPlace \/ WorkingDirInPlace
  \/ MakeFilesystemPartiallyReadOnly \/ MountSandboxAndGoThere \/ MountDev
  \/ MountProcAndSys \/ MountWorkingDirMountPoint \/ AddLeftoverFoldersToReadOnlyPaths
  \/ MountAllTmpfs \/ MountBinds \/ MountReadOnly \/ MountAllOverlayFs
  \/ MountWritables \/ MountWorkingDir \/ MountRest \/ MakeEmptyHome \/ ChangeRoot
  \/ EnterWorkingDirectory \/ InitDone \/ SystemCallFails \/ Finished

Spec == Init /\ [][Next]_vars

-----------------------------------------------------------------------------
(* Properties. *)

\* The state is one pid1 can be in: the root directory is always mounted first,
\* and what is to be mounted read-only are directories.
TypeOK ==
  /\ machine \in Machine /\ asked \in Option /\ opt \in Option
  /\ mnt \in Seq(MountRecord) /\ mnt # <<>> /\ mnt[1].at = <<>>
  /\ ReadOnlyPaths \subseteq Dirs /\ todo \subseteq Dirs
  /\ mounts \in Nat /\ next \in Nat \ {0}
  /\ fault \in BOOLEAN

Done == pc = "done"

Granted ==
  ToSet(opt.writable_files) \cup {opt.working_dir, NULL}
    \cup (IF Chroots THEN {sandbox_root} ELSE {})
    \cup (IF opt.mode = "default" THEN {MINI_SBX_TMP} ELSE {})

\* The host's file at p may be written although no option says so.
Exposed(p) ==
  LET x == mnt[MountOf(mnt, p)] IN
  /\ WritesHost(mnt, p)
  /\ ~\E g \in Granted : isSubpath(g, Locate(mnt, p).path)
  /\ ~LooselyNamed(x.at) /\ ~LooselyNamed(x.dir)

\* The file at p is on a mount of the host that a recursive bind has copied into
\* the sandbox's root, with its flags.
Copied(p) == Chroots /\ mnt[MountOf(mnt, p)].carried

\* It is on a mount of the host whose flags the kernel does not let change.
Locked(p) == mnt[MountOf(mnt, p)].locked

\* Whatever is bound, overlaid or remounted in whatever order, a write in the
\* sandbox reaches the host only below the working directory and the writable
\* paths, or through a mount of the host that a recursive bind has copied or
\* that the kernel does not make read-only.
RestProtected ==
  Done => \A p \in Dirs \cup Files : Exposed(p) => Copied(p) \/ Locked(p)

\* docs/motivations.md: "Rest of the filesystem mounted as read-only except
\* for autofs".
RestReadOnly ==
  Done => \A p \in Dirs \cup Files : Exposed(p) => mnt[MountOf(mnt, p)].net

\* Something else than the host's file is at p: a tmpfs, or a bind in place.
Hidden(p) ==
  \/ \E t \in ToSet(opt.tmpfs_dirs) : isSubpath(t, p)
  \/ /\ ~Chroots
     /\ \E i \in DOMAIN opt.sources :
          opt.sources[i] # opt.targets[i] /\ isSubpath(opt.targets[i], p)

HostMountOf(p) == machine.mounts[MountOf(machine.mounts, p)]

\* Something is mounted on top of the sandbox's root, where it is never seen.
RootCovered ==
  /\ Chroots
  /\ <<>> \in ToSet(opt.targets) \cup ToSet(opt.overlayfsmount) \cup ToSet(opt.writable_files)

\* The working directory and the writable paths arrive: later mounts neither
\* hide them nor make them read-only.  A symbolic link in a directory of the home
\* directory to one of the root directory is enough to lose them: the root
\* directory is overlaid then, and they are mounted on this overlay.
GrantsArrive ==
  Done => \A w \in ToSet(opt.writable_files) \cup {opt.working_dir} :
            \/ Hidden(w) \/ HostMountOf(w).ro \/ RootCovered
            \/ WritesHost(mnt, w) /\ Locate(mnt, w).path = w

\* A path bound read-only shows its source and takes no write, unless what is
\* mounted after it covers it, its name keeps it writable or, in place, the kernel
\* does not make it read-only.  A top-level directory that MountReadOnly binds
\* covers it too, and if the path is a mount of the host this brings it in again,
\* writable.
BindsReadOnly ==
  Done => \A i \in DOMAIN opt.sources :
    LET src == opt.sources[i]
        dst == opt.targets[i]
        later == ToSet(opt.writable_files) \cup {opt.working_dir} \cup ToSet(opt.overlayfsmount)
                   \cup {opt.targets[j] : j \in (i + 1)..Len(opt.targets)}
    IN \/ Hidden(src) \/ Hidden(dst) \/ RootCovered
       \/ \E p \in later : isSubpath(p, dst) \/ (~Chroots /\ isSubpath(p, src))
       \/ LooselyNamed(src) \/ LooselyNamed(dst) \/ (~Chroots /\ Locked(dst))
       \/ /\ Locate(mnt, dst).path = src
          /\ \/ mnt[MountOf(mnt, dst)].ro
             \/ Copied(dst) /\ \E d \in ReadOnlyPaths : IsStrictPrefix(d, dst)

\* The ways in which the home directory gets in all the same: it is next to the
\* working directory, whose top-level directory contains both; it is on a mount
\* that MountRest still adds, since not even ~/.rnd had made a place for it; or a
\* symbolic link on the way to the working directory leads to a file in it, or
\* above: then the link's directory is overlaid, or writable, with its parent.
HomeNextToCwd ==
  ~isSubpath(home_dir, opt.working_dir) /\ opt.working_dir[1] = home_dir[1]
HomeMounted ==
  /\ ~\E p \in ToSet(asked.writable_files) \cup ToSet(asked.targets) : isSubpath(home_dir, p)
  /\ \E i \in DOMAIN machine.mounts :
       machine.mounts[i].at # <<>> /\ isSubpath(machine.mounts[i].at, home_dir)
HomeLinked ==
  \E i \in DOMAIN machine.links :
    isSubpath(machine.links[i].from, opt.working_dir) /\ isSubpath(machine.links[i].to, home_dir)

\* The default mode runs with an empty home directory unless an option, or the
\* working directory, says otherwise; the parents of a working directory in it
\* do not bring it in, except for HomeLinked.
HomeEmpty ==
  Done /\ opt.mode = "default" /\ Chroots =>
    \/ HomeNextToCwd \/ HomeMounted \/ HomeLinked
    \/ \E g \in {opt.working_dir} \cup ToSet(asked.writable_files)
               \cup ToSet(asked.overlayfsmount) \cup ToSet(asked.targets) :
         isSubpath(g, home_dir)
    \/ Locate(mnt, home_dir).path = InRoot(home_dir)

\* A directory that is to be an overlay, and that the kernel accepts as one,
\* shows the host's files, in a privileged container too.
OverlaysShown ==
  Done => \A d \in ToSet(opt.overlayfsmount) :
            \/ Hidden(d) \/ d \in machine.noOverlay \/ ~Chroots \/ RootCovered
            \/ OnHost(mnt, d) /\ Locate(mnt, d).path = d

\* What the host has in a tmpfs directory is not in the sandbox, whatever binds
\* bring the directory in.  An overlay of a directory above brings it in
\* without the tmpfs, and so does, in place, the working directory; one of the
\* directory itself is only out of sight if the next one is on top of it.
TmpfsHides ==
  Done => \A t \in ToSet(opt.tmpfs_dirs) :
            \/ \E d \in ToSet(opt.overlayfsmount) : IsStrictPrefix(d, t)
            \/ RootCovered
            \/ ~Chroots /\ isSubpath(opt.working_dir, t)
            \/ ~(OnHost(mnt, t) /\ Locate(mnt, t).path = t)

\* A file or socket that is to be bound is there already, as what it is.
SpecialThere ==
  \E i \in DOMAIN opt.sources :
    /\ opt.sources[i] \in Special
    /\ \/ opt.sources[i] = NULL
       \/ \E p \in {opt.targets[j] : j \in 1..(i - 1)}
                  \cup (IF opt.mode = "custom" THEN ToSet(opt.overlayfsmount) ELSE {}) :
            isSubpath(p, opt.sources[i])

\* What the host has at p below /tmp, and at the same place of the directory that
\* the default mode has there, is not of one type.
OtherInTmp(p) ==
  \E n \in (Len(TMP) + 1)..Len(p) :
    LET q == SubSeq(p, 1, n)
        r == Join(MINI_SBX_TMP, Rest(TMP, q))
    IN /\ opt.mode = "default" /\ isSubpath(TMP, p)
       /\ (q \in Dirs /\ r \in Files) \/ (q \in Files /\ r \in Dirs \cup Special)

\* pid1 only dies
\*   for what is not of the type it has to be: a device or socket bound where it
\*   is already, an overlay of what is no directory, a path below /tmp;
\*   for a mount to be bound read-only whose flags the kernel does not change;
\*   for a path hidden by a tmpfs, or by what is on top of the sandbox's root;
\*   without a root of its own for a path hidden by the default mode's /tmp or a
\*   working directory that has mounts below it.
\* Whatever else the options say, every target can be created where it is needed.
DiesWithReason ==
  pc = "died" /\ ~fault =>
    \/ SpecialThere \/ RootCovered
    \/ \E d \in ToSet(opt.overlayfsmount) : d \notin Dirs
    \/ \E p \in {opt.working_dir} \cup ToSet(opt.sources) \cup ToSet(opt.overlayfsmount)
               \cup ToSet(opt.writable_files) : OtherInTmp(p)
    \/ \E p \in ToSet(opt.sources) \cup ReadOnlyPaths : HostMountOf(p).locked
    \/ \E t \in ToSet(opt.tmpfs_dirs) :
         \/ starts_with(opt.working_dir, t)
         \/ \E p \in ToSet(opt.sources) \cup ToSet(opt.overlayfsmount) \cup ReadOnlyPaths :
              IsStrictPrefix(t, p)
    \/ /\ ~Chroots
       /\ \/ \E i \in DOMAIN machine.mounts : IsStrictPrefix(opt.working_dir, machine.mounts[i].at)
          \/ /\ opt.mode = "default"
             /\ \E p \in {opt.working_dir} \cup ToSet(opt.writable_files) \cup ToSet(opt.tmpfs_dirs) :
                  IsStrictPrefix(TMP, p)

=============================================================================
