---------------------------- MODULE SandboxOptions ----------------------------
(***************************************************************************)
(* The configuration an application builds with the library's calls before *)
(* mini_sandbox_start, or the command line tool from its flags: the        *)
(* functioning mode, the directories that belong to it, the mounts, and    *)
(* what MiniSbxStart makes of them.  The calls may come in any order, be   *)
(* repeated, and fail halfway; an error ends the tool, and a call made     *)
(* after the start only records one.  The builds without TAP.              *)
(***************************************************************************)
EXTENDS Integers, Sequences, FiniteSets, Functions

CONSTANTS
  Real,        \* canonical names of what exists
  Dirs,        \* the directories among them
  Alias,       \* other absolute names of existing paths
  Symlinks,    \* those among them whose last component is a symbolic link
  Canon,       \* where an alias leads
  Cut,         \* an alias, cut to the length of its canonical name
  Absent,      \* absolute names of files that do not exist
  Relative,    \* relative names of what does not exist
  Fresh,       \* names of directories that only a setup call creates
  Unwritable,  \* directories nothing can be created in
  Inside,      \* pairs of a directory and a path it contains, itself included
  Links,       \* where the symbolic links in a directory of $HOME lead
  Tmp,         \* /tmp
  SbxTmp,      \* /tmp/mini-sandbox-tmp
  Etc,         \* /etc
  Rng,         \* ~/.rnd
  Defaults,    \* what SetupDefaultMounts binds
  Cwd,         \* the working directory of the application
  NoPath,      \* an empty string
  SetupArgs,   \* arguments of the setup calls
  PathArgs,    \* arguments of the other calls
  MaxCalls     \* bound: calls an application makes, or flags of the tool

Names == Real \cup Alias \cup Absent \cup Relative

ASSUME OptionsAssumption ==
  /\ Dirs \subseteq Real /\ Unwritable \subseteq Dirs
  /\ {Tmp, SbxTmp, Etc, Cwd} \subseteq Dirs /\ Rng \in Real
  /\ Tmp # SbxTmp
  /\ Alias \cap Real = {} /\ NoPath \notin Names
  /\ (Absent \cup Relative) \cap (Real \cup Alias) = {}
  /\ Fresh \cap (Names \cup {NoPath}) = {}
  /\ Symlinks \subseteq Alias /\ Canon \in [Alias -> Real]
  /\ Cut \in [Alias -> Real \cup Alias \cup Absent]
  /\ Inside \subseteq Dirs \X (Real \cup Fresh)
  /\ \A d \in Dirs : <<d, d>> \in Inside
  /\ Links \in [Names -> Seq(Dirs)]
  /\ \A p \in Names : Links[p] # <<>> => p \in Dirs \cup Alias
  /\ Defaults \in Seq(Real)
  /\ SetupArgs \subseteq Names \cup Fresh /\ PathArgs \subseteq Names
  /\ MaxCalls \in Nat

VARIABLES
  mode,              \* of the error handling: Library or CLI
  env,               \* docker_mode, or a surrounding mini-sandbox
  use_default,
  use_overlayfs,
  hermetic,
  sandbox_root,      \* a temporary directory: its base, and whether it exists
  tmp_overlayfs,
  sources,           \* bind_mount_sources
  targets,           \* bind_mount_targets
  writable_files,
  tmpfs_dirs,
  overlayfsmount,
  working_dir,
  debug_path,        \* unset, a file that can be opened, one that cannot
  create_netns,
  parents_writable,
  is_running,        \* with STARTING, while pid1 works on its copy
  created,           \* files MiniSbxMountEmptyOutputFile has created
  made,              \* history: temporary directories of this application
  rejected,          \* history: a setup call has returned an error
  again,             \* history: an overlay directory has replaced another
  light,             \* history: pid1 could not list the root directory
  calls              \* calls made so far

modeVars  == <<use_default, use_overlayfs, hermetic>>
dirVars   == <<sandbox_root, tmp_overlayfs, made>>
mountVars == <<sources, targets, writable_files, tmpfs_dirs, overlayfsmount>>
miscVars  == <<working_dir, debug_path, create_netns, parents_writable>>
vars == <<mode, env, modeVars, dirVars, mountVars, miscVars, is_running, created,
          rejected, again, light, calls>>

NoDir == [base |-> NoPath, exists |-> FALSE]

Init ==
  /\ mode \in {"Library", "CLI"}
  /\ env \in {"host", "nested", "unprivileged", "privileged"}
  /\ use_default = FALSE /\ use_overlayfs = FALSE /\ hermetic = FALSE
  /\ sandbox_root = NoDir /\ tmp_overlayfs = NoDir /\ made = 0
  /\ sources = <<>> /\ targets = <<>>
  /\ writable_files = {} /\ tmpfs_dirs = {} /\ overlayfsmount = {}
  /\ working_dir = NoPath /\ debug_path = "unset"
  /\ create_netns = "NETNS_WITH_LOOPBACK" /\ parents_writable = FALSE
  /\ is_running = "NOT_RUNNING" /\ created = {}
  /\ rejected = FALSE /\ again = FALSE /\ light = FALSE /\ calls = 0

\* A call made before the sandbox is started; later ones change nothing.
Call == /\ is_running = "NOT_RUNNING"
        /\ calls < MaxCalls
        /\ calls' = calls + 1
        /\ UNCHANGED <<mode, env, is_running, again, light>>

\* A symbolic link keeps its own name unless it is to be resolved.
CanonicPath(p, resolve_symlink) ==
  IF p \in Alias /\ (resolve_symlink \/ p \notin Symlinks) THEN Canon[p] ELSE p

\* ValidateDirPath follows links.
ValidateDirPath(p) == CanonicPath(p, TRUE) \in Dirs
Exists(p) == p \in Real \cup Alias \cup created

addIfNotPresent(paths, new) ==
  IF new \in Range(paths) THEN paths ELSE Append(paths, new)

\* Where the links lead is added, one after the other.
MountHomeSymlinks(paths, p) ==
  LET after[n \in 0..Len(Links[p])] ==
        IF n = 0 THEN paths ELSE addIfNotPresent(after[n - 1], Links[p][n])
  IN after[Len(Links[p])]

-----------------------------------------------------------------------------
(* The temporary directories of a mode.  Each operator is the outcome of a *)
(* call: the directory, how many were created, and whether it returned 0.  *)

\* It fails for what is not a directory and cannot become one.
ValidateDirAndCreate(dir) == dir \in Dirs \cup Fresh

\* CreateTempDirectory reports that it created nothing and returns the name.
CreateTempDirectory(base) ==
  [dir |-> [base |-> base, exists |-> base \notin Unwritable],
   new |-> IF base \in Unwritable THEN 0 ELSE 1,
   ok |-> TRUE]

\* Mutant: a second root replaces the first.
CreateSandboxRootAgain(base) ==
  IF ValidateDirAndCreate(CanonicPath(base, TRUE))
  THEN CreateTempDirectory(CanonicPath(base, TRUE))
  ELSE [dir |-> sandbox_root, new |-> 0, ok |-> FALSE]

\* A second root is an error.
CreateSandboxRoot(base) ==
  IF ValidateDirAndCreate(CanonicPath(base, TRUE)) /\ sandbox_root.base = NoPath
  THEN CreateTempDirectory(CanonicPath(base, TRUE))
  ELSE [dir |-> sandbox_root, new |-> 0, ok |-> FALSE]

\* In a privileged container the default mode uses /tmp, as it does elsewhere.
CreateOverlayfsDir(base) ==
  IF ValidateDirAndCreate(CanonicPath(base, TRUE))
  THEN CreateTempDirectory(CanonicPath(base, TRUE))
  ELSE [dir |-> tmp_overlayfs, new |-> 0, ok |-> FALSE]

\* Mutant: a directory that does not exist counts as outside.
ValidateOverlayOutOfFolderLax(dir, folder) ==
  ~dir.exists \/ <<CanonicPath(folder, TRUE), dir.base>> \notin Inside

\* TRUE if it returns 0: both exist and dir is not below folder.
ValidateOverlayOutOfFolder(dir, folder) ==
  /\ dir.exists /\ Exists(folder)
  /\ <<CanonicPath(folder, TRUE), dir.base>> \notin Inside

-----------------------------------------------------------------------------
(* The functioning modes. *)

\* With the bind of /tmp/mini-sandbox-tmp to /tmp that precedes the call.
SetupDefaultMounts ==
  /\ sources' = Append(sources, SbxTmp) \o Defaults
  /\ targets' = Append(targets, Tmp) \o Defaults
  /\ writable_files' = writable_files \cup {Rng}
  /\ UNCHANGED <<tmpfs_dirs, overlayfsmount>>

\* A second call, or one after another mode's, is rejected at once.
MiniSbxSetupDefault ==
  /\ Call
  /\ \/ /\ hermetic \/ use_overlayfs
        /\ rejected' = TRUE
        /\ UNCHANGED <<modeVars, dirVars, mountVars, miscVars>>
     \/ /\ ~hermetic /\ ~use_overlayfs
        /\ use_default' = TRUE /\ use_overlayfs' = TRUE
        /\ create_netns' = "NETNS_WITH_LOOPBACK"
        /\ \/ \* /tmp/mini-sandbox-tmp cannot be created.
              /\ rejected' = TRUE
              /\ UNCHANGED <<dirVars, mountVars>>
           \/ LET root == CreateSandboxRoot(Tmp)
                  overlay == CreateOverlayfsDir(Tmp)
              IN /\ sandbox_root' = root.dir
                 /\ tmp_overlayfs' = overlay.dir
                 /\ made' = made + root.new + overlay.new
                 /\ rejected' = (rejected \/ ~root.ok \/ ~overlay.ok)
                 /\ SetupDefaultMounts
        /\ UNCHANGED <<hermetic, working_dir, debug_path, parents_writable>>
  /\ UNCHANGED created

\* Mutant: a root that could not be set up does not end the call.
MiniSbxSetupCustomGoesOn(overlay_dir, root_dir) ==
  LET root == CreateSandboxRoot(root_dir)
      overlay == CreateOverlayfsDir(overlay_dir)
  IN
  /\ Call
  /\ UNCHANGED <<use_default, hermetic>>
  /\ \/ /\ use_default \/ hermetic
        /\ rejected' = TRUE
        /\ UNCHANGED <<use_overlayfs, dirVars>>
     \/ /\ ~use_default /\ ~hermetic
        /\ use_overlayfs' = TRUE
        /\ sandbox_root' = root.dir
        /\ tmp_overlayfs' = overlay.dir
        /\ made' = made + root.new + overlay.new
        /\ rejected' = (rejected \/ ~root.ok \/ ~overlay.ok)
  /\ UNCHANGED <<mountVars, miscVars, created>>

\* TRUE if the mode is free: it is taken whether or not there is a root.
MiniSbxSetupSandboxRootWithOverlay(root) ==
  /\ ~use_default /\ ~hermetic
  /\ use_overlayfs' = TRUE
  /\ sandbox_root' = root.dir

MiniSbxSetupOverlayfsFolder(root, overlay) ==
  /\ tmp_overlayfs' = overlay.dir
  /\ made' = made + root.new + overlay.new

\* The root, then the overlay's directory, then the check that the one is not
\* below the other (both are new).
MiniSbxSetupCustom(overlay_dir, root_dir) ==
  LET root == CreateSandboxRoot(root_dir)
      overlay == CreateOverlayfsDir(overlay_dir)
  IN
  /\ Call
  /\ UNCHANGED <<use_default, hermetic>>
  /\ \/ /\ use_default \/ hermetic
        /\ rejected' = TRUE
        /\ UNCHANGED <<use_overlayfs, dirVars>>
     \/ /\ MiniSbxSetupSandboxRootWithOverlay(root)
        /\ \/ /\ ~root.ok
              /\ rejected' = TRUE
              /\ UNCHANGED <<tmp_overlayfs, made>>
           \/ /\ root.ok
              /\ MiniSbxSetupOverlayfsFolder(root, overlay)
              /\ rejected' = (rejected \/ ~overlay.ok \/ ~root.dir.exists
                              \/ ~overlay.dir.exists)
  /\ UNCHANGED <<mountVars, miscVars, created>>

\* Another mode's error is reported, and the call goes on.
MiniSbxSetupHermetic(root_dir) ==
  LET root == CreateSandboxRoot(root_dir) IN
  /\ Call
  /\ hermetic' = TRUE
  /\ sandbox_root' = root.dir
  /\ made' = made + root.new
  /\ rejected' = (rejected \/ ~root.ok)
  /\ UNCHANGED <<use_default, use_overlayfs, tmp_overlayfs, mountVars, miscVars, created>>

-----------------------------------------------------------------------------
(* Mounts. *)

\* Mutant: the target is recorded under its other name only.
MiniSbxMountBindOnce(p) ==
  LET path == CanonicPath(p, FALSE)
      names == IF path = p THEN <<path>> ELSE <<path, p>>
  IN
  /\ Call
  /\ Exists(p)
  /\ sources' = MountHomeSymlinks(sources \o names, p)
  /\ targets' = MountHomeSymlinks(Append(targets, p), p)
  /\ UNCHANGED <<modeVars, dirVars, writable_files, tmpfs_dirs, overlayfsmount,
                 miscVars, rejected, created>>

\* The path under both its names, and where links in it lead, as source and as
\* target.  What does not exist is left out.
MiniSbxMountBind(p) ==
  LET path == CanonicPath(p, FALSE)
      names == IF path = p THEN <<path>> ELSE <<path, p>>
  IN
  /\ Call
  /\ \/ /\ Exists(p)
        /\ sources' = MountHomeSymlinks(sources \o names, p)
        /\ targets' = MountHomeSymlinks(targets \o names, p)
     \/ /\ ~Exists(p)
        /\ UNCHANGED <<sources, targets>>
  /\ UNCHANGED <<modeVars, dirVars, writable_files, tmpfs_dirs, overlayfsmount,
                 miscVars, rejected, created>>

Written(p) == IF Exists(p) THEN {CanonicPath(p, FALSE), p} \cup Range(Links[p]) ELSE {}

MiniSbxMountWrite(p) ==
  /\ Call
  /\ writable_files' = writable_files \cup Written(p)
  /\ UNCHANGED <<modeVars, dirVars, sources, targets, tmpfs_dirs,
                 overlayfsmount, miscVars, rejected, created>>

\* A file that does not exist is created first, or the call fails.
MiniSbxMountEmptyOutputFile(p) ==
  /\ Call
  /\ \/ /\ Exists(p)
        /\ writable_files' = writable_files \cup Written(CanonicPath(p, FALSE))
        /\ UNCHANGED created
     \/ /\ p \in Absent \ created
        /\ created' = created \cup {p}
        /\ writable_files' = writable_files \cup {p}
     \/ /\ ~Exists(p)
        /\ UNCHANGED <<writable_files, created>>
  /\ UNCHANGED <<modeVars, dirVars, sources, targets, tmpfs_dirs,
                 overlayfsmount, miscVars, rejected>>

MiniSbxMountTmpfs(p) ==
  /\ Call
  /\ tmpfs_dirs' = IF ValidateDirPath(p) THEN tmpfs_dirs \cup {CanonicPath(p, FALSE)}
                                         ELSE tmpfs_dirs
  /\ UNCHANGED <<modeVars, dirVars, sources, targets, writable_files,
                 overlayfsmount, miscVars, rejected, created>>

\* The second name is copied with the length of the first.
MiniSbxMountOverlay(p) ==
  LET second == IF CanonicPath(p, FALSE) # p THEN {Cut[p]} ELSE {} IN
  /\ Call
  /\ overlayfsmount' = IF use_overlayfs /\ p \notin Relative
                       THEN overlayfsmount \cup {CanonicPath(p, FALSE)} \cup second
                                           \cup Range(Links[p])
                       ELSE overlayfsmount
  /\ UNCHANGED <<modeVars, dirVars, sources, targets, writable_files,
                 tmpfs_dirs, miscVars, rejected, created>>

-----------------------------------------------------------------------------
(* The other settings. *)

\* Mutant: the path need not be a directory.
MiniSbxSetWorkingDirUnchecked(p) ==
  /\ Call
  /\ working_dir' = CanonicPath(p, FALSE)
  /\ UNCHANGED <<modeVars, dirVars, mountVars, debug_path, create_netns,
                 parents_writable, rejected, created>>

MiniSbxSetWorkingDir(p) ==
  /\ Call
  /\ working_dir' = IF ValidateDirPath(p) THEN CanonicPath(p, FALSE) ELSE working_dir
  /\ UNCHANGED <<modeVars, dirVars, mountVars, debug_path, create_netns,
                 parents_writable, rejected, created>>

\* The path is kept although the call fails if its directory does not exist.
MiniSbxEnableLog(usable) ==
  /\ Call
  /\ debug_path' = IF debug_path # "unset" THEN debug_path
                   ELSE IF usable THEN "usable" ELSE "unusable"
  /\ UNCHANGED <<modeVars, dirVars, mountVars, working_dir, create_netns,
                 parents_writable, rejected, created>>

MiniSbxMountParentsWrite ==
  /\ Call
  /\ parents_writable' = TRUE
  /\ UNCHANGED <<modeVars, dirVars, mountVars, working_dir, debug_path,
                 create_netns, rejected, created>>

\* Possible after the start too.
MiniSbxShareNetNamespace ==
  /\ is_running # "STARTING"
  /\ calls < MaxCalls
  /\ calls' = calls + 1
  /\ create_netns' = "NO_NETNS"
  /\ UNCHANGED <<mode, env, modeVars, dirVars, mountVars, working_dir, debug_path,
                 parents_writable, is_running, rejected, again, light, created>>

-----------------------------------------------------------------------------
(* MiniSbxStart. *)

ValidateReadWritePaths(paths) == Range(paths) \cap writable_files = {}
ValidateTmpNotRemounted(paths) == use_default => Tmp \notin paths

\* TRUE if it returns 0, for the working directory and the sources given.
ValidateOptions(dir, paths) ==
  /\ use_overlayfs => ValidateOverlayOutOfFolder(tmp_overlayfs, dir)
  /\ hermetic => ValidateOverlayOutOfFolder(sandbox_root, dir)
  /\ ValidateReadWritePaths(paths)
  /\ env # "privileged" /\ use_overlayfs =>
       \A w \in writable_files : ValidateOverlayOutOfFolder(tmp_overlayfs, w)
  /\ ValidateTmpNotRemounted(writable_files)
  /\ ValidateTmpNotRemounted(Range(paths))

\* A private init file is created below the sandbox root.
MiniSbxCreateInit == use_default \/ sandbox_root.base = NoPath \/ sandbox_root.exists

StartDir == IF working_dir = NoPath THEN Cwd ELSE working_dir
\* A privileged container gets /etc.
WithEtc(paths) == IF env = "privileged"
                  THEN MountHomeSymlinks(Append(paths, Etc), Etc)
                  ELSE paths

\* What MiniSbxStart changes of the options before it validates them.
Prepare ==
  /\ is_running = "NOT_RUNNING" /\ calls < MaxCalls
  /\ calls' = calls + 1
  /\ debug_path # "unusable"
  /\ working_dir' = StartDir
  /\ sources' = WithEtc(sources)
  /\ targets' = WithEtc(targets)
  /\ UNCHANGED <<mode, env, modeVars, writable_files, tmpfs_dirs, overlayfsmount,
                 debug_path, create_netns, parents_writable, created, rejected, again, light>>

\* What Cleanup leaves: everything if there is a log, the overlay if hermetic.
Removed(dir) == [base |-> dir.base, exists |-> FALSE]
One(dir) == IF dir.exists THEN 1 ELSE 0
Cleanup ==
  \/ debug_path # "unset" /\ UNCHANGED dirVars
  \/ /\ debug_path = "unset"
     /\ sandbox_root' = Removed(sandbox_root)
     /\ tmp_overlayfs' = IF hermetic THEN tmp_overlayfs ELSE Removed(tmp_overlayfs)
     /\ made' = made - One(sandbox_root) - (IF hermetic THEN 0 ELSE One(tmp_overlayfs))

\* The log cannot be opened.
StartWithoutLog ==
  /\ Call
  /\ debug_path = "unusable"
  /\ UNCHANGED <<modeVars, dirVars, mountVars, miscVars, created, rejected>>

\* A surrounding mini-sandbox is an error and an unprivileged container gets no
\* sandbox; there, and if the options are refused or the init file cannot be
\* created, the call returns with the options still open to change.
StartReturns ==
  /\ Prepare
  /\ UNCHANGED <<dirVars, is_running>>

\* Mutant: what Prepare adds is not validated.
MiniSbxStartEarly ==
  /\ Prepare
  /\ env \in {"host", "privileged"}
  /\ ValidateOptions(StartDir, sources)
  /\ MiniSbxCreateInit
  /\ is_running' = "STARTING"
  /\ UNCHANGED dirVars

\* The options are accepted.
MiniSbxStart ==
  /\ Prepare
  /\ env \in {"host", "privileged"}
  /\ ValidateOptions(StartDir, WithEtc(sources))
  /\ MiniSbxCreateInit
  /\ is_running' = "STARTING"
  /\ UNCHANGED dirVars

\* What pid1 adds before it goes on in the sandbox: nobody validates it.  In
\* read-only mode /tmp is writable; if the default mode cannot list the root
\* directory, so is the mount point of the working directory, should there be
\* one (or the tool dies).
WithTmp ==
  /\ \/ /\ ~use_default /\ ~use_overlayfs /\ ~hermetic
        /\ writable_files' = writable_files \cup Written(Tmp)
        /\ UNCHANGED light
     \/ /\ use_default
        /\ \E point \in Dirs \cup {NoPath} :
             /\ point = NoPath => mode = "Library"
             /\ writable_files' = writable_files \cup Written(point) \cup Written(Tmp)
        /\ light' = TRUE
  /\ UNCHANGED overlayfsmount

\* Otherwise directories above the working directory are shown.  Which ones
\* depends on the host's mounts, see MountPlan.
WithParents ==
  /\ use_default \/ use_overlayfs \/ hermetic
  /\ \E dirs \in SUBSET Dirs :
       /\ dirs # {} => use_default
       /\ \/ /\ parents_writable /\ Cardinality(dirs) <= 1
             /\ writable_files' = writable_files \cup UNION {Written(d) : d \in dirs}
             /\ UNCHANGED overlayfsmount
          \/ /\ ~parents_writable
             /\ overlayfsmount' = overlayfsmount \cup dirs \cup UNION {Range(Links[d]) : d \in dirs}
             /\ UNCHANGED writable_files
  /\ UNCHANGED light

\* The application goes on in the sandbox, with the options as they are now.
InitDone ==
  /\ is_running = "STARTING"
  /\ WithTmp \/ WithParents
  /\ is_running' = "RUNNING"
  /\ UNCHANGED <<mode, env, modeVars, dirVars, sources, targets, tmpfs_dirs, miscVars,
                 created, rejected, again, calls>>

\* Or the setup fails, and it goes on outside with those it had.
SetupFails ==
  /\ is_running = "STARTING"
  /\ is_running' = "FAILED"
  /\ Cleanup
  /\ UNCHANGED <<mode, env, modeVars, mountVars, miscVars, created, rejected, again,
                 light, calls>>

-----------------------------------------------------------------------------
(* The command line tool.  Each flag makes one of the calls above, or one  *)
(* half of MiniSbxSetupCustom, and has to succeed.                         *)

Parsing == mode = "CLI" /\ Call

\* MiniSbxSetError: an error of the library's calls removes the directories and
\* ends the tool, whichever flag or check it comes from.
Dies ==
  /\ mode = "CLI" /\ is_running = "NOT_RUNNING"
  /\ is_running' = "DIED"
  /\ Cleanup
  /\ UNCHANGED <<mode, env, modeVars, mountVars, miscVars, created, rejected, again,
                 light, calls>>

\* An error of the command line itself leaves them.
Usage ==
  /\ mode = "CLI" /\ is_running = "NOT_RUNNING"
  /\ is_running' = "USAGE"
  /\ UNCHANGED <<mode, env, modeVars, dirVars, mountVars, miscVars, created, rejected,
                 again, light, calls>>

SetupFlag ==
  /\ mode = "CLI"
  /\ MiniSbxSetupDefault \/ \E r \in SetupArgs : ~use_overlayfs /\ MiniSbxSetupHermetic(r)
  /\ ~rejected' /\ sandbox_root'.exists
  /\ use_overlayfs' => tmp_overlayfs'.exists

\* -o
RootFlag(dir) ==
  LET root == CreateSandboxRoot(dir) IN
  /\ Parsing
  /\ MiniSbxSetupSandboxRootWithOverlay(root)
  /\ root.ok /\ root.dir.exists
  /\ made' = made + 1
  /\ UNCHANGED <<use_default, hermetic, tmp_overlayfs, mountVars, miscVars, created, rejected>>

\* -d: only after -o or -x, and as often as one likes.
OverlayFlag(dir) ==
  LET overlay == CreateOverlayfsDir(dir) IN
  /\ mode = "CLI" /\ is_running = "NOT_RUNNING" /\ calls < MaxCalls
  /\ calls' = calls + 1
  /\ use_overlayfs
  /\ overlay.ok /\ overlay.dir.exists
  /\ tmp_overlayfs' = overlay.dir
  /\ made' = made + 1
  /\ again' = (again \/ tmp_overlayfs # NoDir)
  /\ UNCHANGED <<mode, env, modeVars, sandbox_root, mountVars, miscVars, is_running,
                 light, created, rejected>>

\* -M, -w, -e and -k
MountFlag(p) ==
  /\ mode = "CLI"
  /\ p \notin Relative
  /\ \/ MiniSbxMountBind(p) \/ MiniSbxMountWrite(p)
     \/ ValidateDirPath(p) /\ MiniSbxMountTmpfs(p)
     \/ use_overlayfs /\ MiniSbxMountOverlay(p)

LogFlag == mode = "CLI" /\ debug_path = "unset" /\ MiniSbxEnableLog(TRUE)

\* -W takes an absolute name as it is, of a directory or not.
WorkingDirFlag(p) ==
  /\ Parsing
  /\ working_dir = NoPath /\ p \notin Relative
  /\ working_dir' = p
  /\ UNCHANGED <<modeVars, dirVars, mountVars, debug_path, create_netns,
                 parents_writable, rejected, created>>

\* -n and -N exclude each other, unless -x in between has forgotten the first.
NetFlag(net, other) ==
  /\ Parsing
  /\ create_netns # other
  /\ create_netns' = net
  /\ UNCHANGED <<modeVars, dirVars, mountVars, working_dir, debug_path,
                 parents_writable, rejected, created>>

\* What ParseCommandLine checks in the end: an overlay needs both -o and -d.
Parsed == use_overlayfs => sandbox_root.exists /\ tmp_overlayfs.exists

\* SpawnChild: the command runs without a sandbox, and the tool exits with it.
RunsDirectly ==
  /\ mode = "CLI" /\ Parsed /\ Prepare
  /\ env \in {"nested", "unprivileged"}
  /\ is_running' = "DIRECT"
  /\ UNCHANGED dirVars

Finished ==
  /\ calls = MaxCalls \/ (mode = "CLI" /\ is_running # "NOT_RUNNING")
  /\ UNCHANGED vars

-----------------------------------------------------------------------------

SetupCall ==
  \/ MiniSbxSetupDefault
  \/ \E o, r \in SetupArgs : MiniSbxSetupCustom(o, r)
  \/ \E r \in SetupArgs : MiniSbxSetupHermetic(r)

MountCall ==
  \E p \in PathArgs :
    \/ MiniSbxMountBind(p) \/ MiniSbxMountWrite(p) \/ MiniSbxMountTmpfs(p)
    \/ MiniSbxMountOverlay(p)
    \/ p \notin Relative /\ MiniSbxMountEmptyOutputFile(p)

OtherCall ==
  \/ \E p \in PathArgs : MiniSbxSetWorkingDir(p)
  \/ \E usable \in BOOLEAN : MiniSbxEnableLog(usable)
  \/ MiniSbxMountParentsWrite \/ MiniSbxShareNetNamespace

StartCall == StartWithoutLog \/ StartReturns \/ MiniSbxStart

LibraryCall ==
  /\ mode = "Library"
  /\ SetupCall \/ MountCall \/ OtherCall \/ StartCall

\* -T, -t, -i, -H, -R, -U and -P set what is not modelled here, or end in
\* Usage; -m, -l, -L, -S and -G are accepted and have no effect.
ParseCommandLine ==
  \/ SetupFlag \/ LogFlag
  \/ \E dir \in SetupArgs : RootFlag(dir) \/ OverlayFlag(dir)
  \/ \E p \in PathArgs : MountFlag(p) \/ WorkingDirFlag(p)
  \/ NetFlag("NETNS", "NO_NETNS") \/ NetFlag("NO_NETNS", "NETNS")
  \/ Usage

ToolStart == RunsDirectly \/ (mode = "CLI" /\ Parsed /\ MiniSbxStart)

Next == \/ LibraryCall \/ ParseCommandLine \/ Dies \/ ToolStart
        \/ InitDone \/ SetupFails \/ Finished

Spec == Init /\ [][Next]_vars

-----------------------------------------------------------------------------
(* Properties. *)

Bases == Dirs \cup Fresh \cup {NoPath}
TempDir == [base: Bases, exists: BOOLEAN]
DirNames == Dirs \cup {p \in Symlinks : Canon[p] \in Dirs}

\* Every option keeps its type: an application's working directory in
\* particular is a directory, under its canonical name or that of a symbolic
\* link to it.
TypeOK ==
  /\ mode \in {"Library", "CLI"}
  /\ env \in {"host", "nested", "unprivileged", "privileged"}
  /\ use_default \in BOOLEAN /\ use_overlayfs \in BOOLEAN /\ hermetic \in BOOLEAN
  /\ sandbox_root \in TempDir /\ tmp_overlayfs \in TempDir /\ made \in Nat
  /\ sources \in Seq(Names) /\ targets \in Seq(Names)
  /\ writable_files \subseteq Names
  /\ tmpfs_dirs \subseteq DirNames
  /\ overlayfsmount \subseteq Names
  /\ working_dir \in (IF mode = "Library" THEN DirNames ELSE Names) \cup {NoPath}
  /\ debug_path \in {"unset", "usable", "unusable"}
  /\ create_netns \in {"NETNS_WITH_LOOPBACK", "NO_NETNS", "NETNS"}
  /\ parents_writable \in BOOLEAN
  /\ is_running \in {"NOT_RUNNING", "STARTING", "RUNNING", "FAILED", "DIED", "USAGE",
                     "DIRECT"}
  /\ created \subseteq Absent
  /\ rejected \in BOOLEAN /\ again \in BOOLEAN /\ light \in BOOLEAN
  /\ calls \in 0..MaxCalls

\* While no setup call has returned an error there is one functioning mode:
\* SetupHermetic goes on after another mode's error, and it is the check for a
\* second sandbox root that makes the call fail all the same.
OneModeAccepted == ~rejected => ~(hermetic /\ use_overlayfs)

\* Cleanup knows every temporary directory, whatever calls were repeated or
\* failed, unless the tool got -d again.  After a failed start, of the tool or of
\* an application whose setup calls succeeded, and after an error that ended
\* the tool none is left.
NoDirectoryLost ==
  /\ again => mode = "CLI"
  /\ ~again => made = One(sandbox_root) + One(tmp_overlayfs)
  /\ is_running \in {"FAILED", "DIED"} /\ debug_path = "unset" /\ ~rejected /\ ~again
       => made = 0

\* pid1 makes writable what nobody has validated: the mount point of the
\* working directory, or a directory above it.
WritableParents == light \/ (use_default /\ parents_writable)

\* A running sandbox has the directories its mode needs, and the overlay's is
\* out of reach of what the sandbox may write, unless pid1 adds to that; a
\* setup that failed halfway is not started.
DirectoriesReady ==
  is_running = "RUNNING" =>
    /\ use_overlayfs \/ hermetic => sandbox_root.exists
    /\ hermetic => <<CanonicPath(working_dir, TRUE), sandbox_root.base>> \notin Inside
    /\ use_overlayfs =>
         /\ tmp_overlayfs.exists
         /\ <<CanonicPath(working_dir, TRUE), tmp_overlayfs.base>> \notin Inside
         /\ env = "privileged" \/ WritableParents
              \/ \A w \in writable_files :
                   <<CanonicPath(w, TRUE), tmp_overlayfs.base>> \notin Inside

\* Nothing in a running sandbox is bound read-only and writable at once,
\* whatever names it was given under: MiniSbxMountBind and MiniSbxMountWrite
\* record the canonical name too, so that comparing names is enough.  Not for
\* symbolic links, which they do not resolve, nor for what pid1 adds.
NoConflictingMounts ==
  is_running = "RUNNING" =>
    \A r \in Range(sources), w \in writable_files :
      CanonicPath(r, TRUE) = CanonicPath(w, TRUE) =>
        \/ r \in Symlinks \/ w \in Symlinks
        \/ WritableParents \/ (~use_overlayfs /\ ~hermetic /\ w \in Written(Tmp))

\* MountAllMounts binds the i-th source to the i-th target: in a started
\* sandbox they belong together, although MountHomeSymlinks adds to the two
\* lists separately (unless a link leads into /tmp/mini-sandbox-tmp).
MountsPaired ==
  /\ is_running \in {"STARTING", "RUNNING", "FAILED"}
  /\ \A p \in Names : SbxTmp \notin Range(Links[p])
  => /\ Len(sources) = Len(targets)
     /\ \A i \in DOMAIN sources :
          targets[i] = IF sources[i] = SbxTmp /\ targets[i] = Tmp THEN Tmp
                                                                 ELSE sources[i]

=============================================================================
