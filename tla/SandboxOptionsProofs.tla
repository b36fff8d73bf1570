-------------------------- MODULE SandboxOptionsProofs --------------------------
(***************************************************************************)
(* Proofs about the functioning modes and their directories, for any file  *)
(* system, any arguments and any number of calls.                          *)
(***************************************************************************)
EXTENDS SandboxOptions, Induction

modeState == <<mode, modeVars, dirVars, debug_path, is_running, rejected, again>>

\* The types of what the theorems are about.
ModeType ==
  /\ use_default \in BOOLEAN /\ use_overlayfs \in BOOLEAN /\ hermetic \in BOOLEAN
  /\ sandbox_root \in TempDir /\ tmp_overlayfs \in TempDir /\ made \in Int
  /\ rejected \in BOOLEAN /\ again \in BOOLEAN

\* A directory that exists has a base; the overlay's is chosen after the root,
\* and the root only in one of the modes.
Ownership ==
  /\ sandbox_root.base = NoPath => ~sandbox_root.exists
  /\ sandbox_root.base = NoPath => tmp_overlayfs = NoDir
  /\ sandbox_root.base # NoPath => hermetic \/ use_overlayfs
  /\ ~use_overlayfs => tmp_overlayfs = NoDir
  /\ use_default => use_overlayfs
  /\ again => tmp_overlayfs.base # NoPath

\* A mode whose setup has not failed has a sandbox root, and the tool does not
\* outlive a failure.
Rooted ==
  /\ ~rejected /\ (hermetic \/ use_overlayfs) => sandbox_root.base # NoPath
  /\ mode = "CLI" => ~rejected

ModeInv == ModeType /\ Ownership /\ Rooted /\ OneModeAccepted /\ NoDirectoryLost

\* Where a call leaves modes and directories alone, the invariant stays.
LEMMA ModeStutter == ModeInv /\ UNCHANGED modeState => ModeInv'
  BY DEF ModeInv, ModeType, Ownership, Rooted, OneModeAccepted, NoDirectoryLost,
         One, NoDir, modeState, modeVars, dirVars

\* The outcome of creating a directory: it is the new one and has a base, or
\* the old one is kept.
LEMMA TempOutcome ==
  ASSUME NEW b \in Dirs \cup Fresh
  PROVE  LET t == CreateTempDirectory(b) IN
         /\ t.ok = TRUE /\ t.dir \in TempDir /\ t.dir.base # NoPath
         /\ t.new = One(t.dir)
<1>1. b # NoPath
  BY OptionsAssumption DEF Names
<1> DEFINE d == [base |-> b, exists |-> b \notin Unwritable]
<1>2. /\ d \in TempDir /\ d.base = b
      /\ (IF b \in Unwritable THEN 0 ELSE 1) = One(d)
  BY DEF TempDir, Bases, One
<1> HIDE DEF d
<1>3. CreateTempDirectory(b) = [dir |-> d, new |-> IF b \in Unwritable THEN 0 ELSE 1,
                                ok |-> TRUE]
  BY DEF CreateTempDirectory, d
<1> QED
  BY <1>1, <1>2, <1>3

LEMMA RootOutcome ==
  ASSUME NEW base
  PROVE  LET root == CreateSandboxRoot(base) IN
         \/ /\ root.ok = TRUE
            /\ sandbox_root.base = NoPath
            /\ root.dir \in TempDir
            /\ root.dir.base # NoPath
            /\ root.new = One(root.dir)
         \/ root.ok = FALSE /\ root.dir = sandbox_root /\ root.new = 0
<1>1. CASE CanonicPath(base, TRUE) \in Dirs \cup Fresh /\ sandbox_root.base = NoPath
  <2>1. CreateSandboxRoot(base) = CreateTempDirectory(CanonicPath(base, TRUE))
    BY <1>1 DEF CreateSandboxRoot, ValidateDirAndCreate
  <2> QED BY <1>1, <2>1, TempOutcome
<1>2. CASE ~(CanonicPath(base, TRUE) \in Dirs \cup Fresh /\ sandbox_root.base = NoPath)
  <2>1. CreateSandboxRoot(base) = [dir |-> sandbox_root, new |-> 0, ok |-> FALSE]
    BY <1>2 DEF CreateSandboxRoot, ValidateDirAndCreate
  <2> QED BY <2>1
<1> QED BY <1>1, <1>2

LEMMA OverlayOutcome ==
  ASSUME NEW base
  PROVE  LET overlay == CreateOverlayfsDir(base) IN
         \/ /\ overlay.ok = TRUE
            /\ overlay.dir \in TempDir
            /\ overlay.dir.base # NoPath
            /\ overlay.new = One(overlay.dir)
         \/ overlay.ok = FALSE /\ overlay.dir = tmp_overlayfs /\ overlay.new = 0
<1>1. CASE CanonicPath(base, TRUE) \in Dirs \cup Fresh
  <2>1. CreateOverlayfsDir(base) = CreateTempDirectory(CanonicPath(base, TRUE))
    BY <1>1 DEF CreateOverlayfsDir, ValidateDirAndCreate
  <2> QED BY <1>1, <2>1, TempOutcome
<1>2. CASE ~(CanonicPath(base, TRUE) \in Dirs \cup Fresh)
  <2>1. CreateOverlayfsDir(base) = [dir |-> tmp_overlayfs, new |-> 0, ok |-> FALSE]
    BY <1>2 DEF CreateOverlayfsDir, ValidateDirAndCreate
  <2> QED BY <2>1
<1> QED BY <1>1, <1>2

\* The default mode always gets its root, since /tmp exists.
LEMMA DefaultRoot ==
  sandbox_root.base = NoPath => CreateSandboxRoot(Tmp).ok = TRUE
<1>1. CanonicPath(Tmp, TRUE) \in Dirs \cup Fresh
  BY OptionsAssumption DEF CanonicPath
<1> QED
  BY <1>1, TempOutcome DEF CreateSandboxRoot, ValidateDirAndCreate

LEMMA NothingIsMade == One(NoDir) = 0 /\ NoDir.base = NoPath /\ NoDir.exists = FALSE
                       /\ NoDir \in TempDir
  BY DEF One, NoDir, TempDir, Bases

LEMMA OneIsInt == ASSUME NEW d PROVE One(d) \in Int
  BY DEF One

-----------------------------------------------------------------------------
(* The calls that change modes or directories.  The tool goes on only after *)
(* the ones that succeed.                                                  *)

LEMMA DefaultKeeps ==
  ASSUME ModeInv, MiniSbxSetupDefault, mode = "CLI" => ~rejected'
  PROVE  ModeInv'
<1> USE DEF ModeInv
<1>0. /\ is_running = "NOT_RUNNING" /\ is_running' = is_running
      /\ mode' = mode /\ again' = again
  BY DEF MiniSbxSetupDefault, Call
<1>1. CASE hermetic \/ use_overlayfs
  <2>1. rejected' = TRUE /\ UNCHANGED <<modeVars, dirVars>>
    BY <1>1 DEF MiniSbxSetupDefault
  <2> QED
    BY <1>0, <2>1 DEF ModeType, Ownership, Rooted, OneModeAccepted, NoDirectoryLost,
       modeVars, dirVars, One, NoDir
<1>2. CASE ~hermetic /\ ~use_overlayfs
  <2>1. /\ use_default' = TRUE /\ use_overlayfs' = TRUE /\ hermetic' = FALSE
    BY <1>2 DEF MiniSbxSetupDefault, ModeType
  <2>2. sandbox_root.base = NoPath /\ tmp_overlayfs = NoDir /\ sandbox_root.exists = FALSE
    BY <1>2 DEF Ownership, ModeType, TempDir
  <2>3. CASE rejected' = TRUE /\ UNCHANGED <<dirVars, mountVars>>
    BY <1>0, <1>2, <2>1, <2>2, <2>3 DEF ModeType, Ownership, Rooted,
       OneModeAccepted, NoDirectoryLost, dirVars, One, NoDir
  <2>4. CASE /\ sandbox_root' = CreateSandboxRoot(Tmp).dir
             /\ tmp_overlayfs' = CreateOverlayfsDir(Tmp).dir
             /\ made' = made + CreateSandboxRoot(Tmp).new + CreateOverlayfsDir(Tmp).new
             /\ rejected' = (rejected \/ ~CreateSandboxRoot(Tmp).ok
                                      \/ ~CreateOverlayfsDir(Tmp).ok)
    <3>1. made = 0 /\ ~again
      BY <2>2 DEF Ownership, NoDirectoryLost, One, NoDir
    <3>2. /\ sandbox_root' \in TempDir /\ sandbox_root'.base # NoPath
          /\ CreateSandboxRoot(Tmp).new = One(sandbox_root')
      BY <2>2, <2>4, DefaultRoot, RootOutcome
    <3>3. tmp_overlayfs' \in TempDir /\ CreateOverlayfsDir(Tmp).new = One(tmp_overlayfs')
      BY <2>2, <2>4, OverlayOutcome, NothingIsMade
    <3>4. made' = One(sandbox_root') + One(tmp_overlayfs') /\ made' \in Int
      BY <2>4, <3>1, <3>2, <3>3, OneIsInt
    <3>5. rejected' \in BOOLEAN
      BY <2>4
    <3> QED
      BY <1>0, <2>1, <3>1, <3>2, <3>3, <3>4, <3>5 DEF ModeType, Ownership, Rooted,
         OneModeAccepted, NoDirectoryLost, One
  <2> QED
    BY <1>2, <2>3, <2>4 DEF MiniSbxSetupDefault
<1> QED BY <1>1, <1>2

LEMMA CustomKeeps ==
  ASSUME NEW o, NEW r, ModeInv, MiniSbxSetupCustom(o, r), mode # "CLI"
  PROVE  ModeInv'
<1> USE DEF ModeInv
<1> DEFINE root == CreateSandboxRoot(r)
           overlay == CreateOverlayfsDir(o)
<1>0. /\ is_running = "NOT_RUNNING" /\ is_running' = is_running
      /\ mode' = mode /\ again' = again
      /\ use_default' = use_default /\ hermetic' = hermetic
  BY DEF MiniSbxSetupCustom, Call
<1>1. CASE use_default \/ hermetic
  <2>1. rejected' = TRUE /\ UNCHANGED <<use_overlayfs, dirVars>>
    BY <1>1 DEF MiniSbxSetupCustom, MiniSbxSetupSandboxRootWithOverlay,
         MiniSbxSetupOverlayfsFolder
  <2> QED
    BY <1>0, <2>1 DEF ModeType, Ownership, Rooted, OneModeAccepted, NoDirectoryLost,
       dirVars, One, NoDir
<1>2. CASE ~use_default /\ ~hermetic
  <2>1. use_overlayfs' = TRUE /\ sandbox_root' = root.dir
    BY <1>2 DEF MiniSbxSetupCustom, MiniSbxSetupSandboxRootWithOverlay,
         MiniSbxSetupOverlayfsFolder
  <2>2. CASE root.ok = FALSE
    <3>1. /\ rejected' = TRUE /\ tmp_overlayfs' = tmp_overlayfs /\ made' = made
      BY <1>2, <2>2 DEF MiniSbxSetupCustom, MiniSbxSetupSandboxRootWithOverlay,
         MiniSbxSetupOverlayfsFolder
    <3>2. sandbox_root' = sandbox_root
      BY <2>1, <2>2, RootOutcome
    <3> QED
      BY <1>0, <1>2, <2>1, <3>1, <3>2 DEF ModeType, Ownership, Rooted,
         OneModeAccepted, NoDirectoryLost, One, NoDir
  <2>3. CASE root.ok = TRUE
    <3>1. /\ tmp_overlayfs' = overlay.dir
          /\ made' = made + root.new + overlay.new
          /\ rejected' = (rejected \/ ~overlay.ok \/ ~root.dir.exists
                                   \/ ~overlay.dir.exists)
      BY <1>2, <2>3 DEF MiniSbxSetupCustom, MiniSbxSetupSandboxRootWithOverlay,
         MiniSbxSetupOverlayfsFolder
    <3>2. /\ sandbox_root.base = NoPath
          /\ sandbox_root' \in TempDir /\ sandbox_root'.base # NoPath
          /\ root.new = One(sandbox_root')
      BY <2>1, <2>3, RootOutcome
    <3>3. tmp_overlayfs = NoDir /\ made = 0
      BY <3>2 DEF Ownership, NoDirectoryLost, One, NoDir
    <3>4. tmp_overlayfs' \in TempDir /\ overlay.new = One(tmp_overlayfs')
      BY <3>1, <3>3, OverlayOutcome, NothingIsMade
    <3>5. made' = One(sandbox_root') + One(tmp_overlayfs') /\ made' \in Int
      BY <3>1, <3>2, <3>3, <3>4, OneIsInt
    <3>6. rejected' \in BOOLEAN
      BY <3>1
    <3> QED
      BY <1>0, <1>2, <2>1, <3>2, <3>4, <3>5, <3>6 DEF ModeType, Ownership, Rooted,
         OneModeAccepted, NoDirectoryLost, One
  <2> QED BY <2>2, <2>3, RootOutcome
<1> QED BY <1>1, <1>2

LEMMA HermeticKeeps ==
  ASSUME NEW r, ModeInv, MiniSbxSetupHermetic(r), mode = "CLI" => ~rejected'
  PROVE  ModeInv'
<1> USE DEF ModeInv
<1> DEFINE root == CreateSandboxRoot(r)
<1>0. /\ is_running = "NOT_RUNNING" /\ is_running' = is_running
      /\ mode' = mode /\ again' = again
      /\ hermetic' = TRUE /\ use_default' = use_default
      /\ use_overlayfs' = use_overlayfs /\ tmp_overlayfs' = tmp_overlayfs
      /\ sandbox_root' = root.dir /\ made' = made + root.new
      /\ rejected' = (rejected \/ ~root.ok)
  BY DEF MiniSbxSetupHermetic, Call
<1>1. CASE root.ok = FALSE
  <2>1. sandbox_root' = sandbox_root /\ root.new = 0
    BY <1>0, <1>1, RootOutcome
  <2>2. made' = made
    BY <1>0, <2>1 DEF ModeType
  <2>3. rejected' = TRUE
    BY <1>0, <1>1
  <2> QED
    BY <1>0, <2>1, <2>2, <2>3 DEF ModeType, Ownership, Rooted, OneModeAccepted,
       NoDirectoryLost, One, NoDir
<1>2. CASE root.ok = TRUE
  <2>1. /\ sandbox_root.base = NoPath
        /\ sandbox_root' \in TempDir /\ sandbox_root'.base # NoPath
        /\ root.new = One(sandbox_root')
    BY <1>0, <1>2, RootOutcome
  <2>2. tmp_overlayfs = NoDir /\ made = 0
    BY <2>1 DEF Ownership, NoDirectoryLost, One, NoDir
  <2>3. made' = One(sandbox_root') + One(tmp_overlayfs') /\ made' \in Int
    BY <1>0, <2>1, <2>2, OneIsInt DEF One, NoDir
  \* No mode was chosen before, or its call has failed.
  <2>4. rejected' = rejected /\ (~rejected => ~use_overlayfs)
    BY <1>0, <1>2, <2>1 DEF Rooted, ModeType
  <2> QED
    BY <1>0, <2>1, <2>2, <2>3, <2>4 DEF ModeType, Ownership, Rooted,
       OneModeAccepted, NoDirectoryLost, One
<1> QED BY <1>1, <1>2, RootOutcome

LEMMA RemovedDir ==
  ASSUME NEW d \in TempDir
  PROVE  /\ Removed(d) \in TempDir /\ Removed(d).base = d.base
         /\ Removed(d).exists = FALSE /\ One(Removed(d)) = 0
         /\ d = NoDir => Removed(d) = NoDir
<1>1. d.base \in Bases
  BY DEF TempDir
<1>2. /\ Removed(d).base = d.base /\ Removed(d).exists = FALSE
  BY DEF Removed
<1>3. Removed(d) \in TempDir
  BY <1>1 DEF Removed, TempDir
<1>4. One(Removed(d)) = 0
  BY <1>2 DEF One
<1>5. d = NoDir => Removed(d) = NoDir
  BY DEF Removed, NoDir
<1> QED BY <1>2, <1>3, <1>4, <1>5

\* The end of a start, and of the tool after an error.
LEMMA CleanupKeeps ==
  ASSUME ModeInv, Cleanup, UNCHANGED <<mode, again, modeVars, debug_path, rejected>>,
         is_running' \in {"FAILED", "DIED"}
  PROVE  ModeInv'
<1> USE DEF ModeInv
<1>0. UNCHANGED <<mode, again, use_default, use_overlayfs, hermetic, debug_path, rejected>>
  BY DEF modeVars
<1>1. CASE debug_path # "unset" /\ UNCHANGED dirVars
  BY <1>0, <1>1 DEF ModeType, Ownership, Rooted, OneModeAccepted, NoDirectoryLost,
     One, NoDir, dirVars
<1>2. CASE
     /\ sandbox_root' = Removed(sandbox_root)
     /\ tmp_overlayfs' = IF hermetic THEN tmp_overlayfs ELSE Removed(tmp_overlayfs)
     /\ made' = made - One(sandbox_root) - (IF hermetic THEN 0 ELSE One(tmp_overlayfs))
  <2>1. /\ sandbox_root' \in TempDir /\ tmp_overlayfs' \in TempDir
        /\ sandbox_root'.base = sandbox_root.base /\ sandbox_root'.exists = FALSE
        /\ One(sandbox_root') = 0
        /\ tmp_overlayfs = NoDir => tmp_overlayfs' = NoDir
    BY <1>2, RemovedDir DEF ModeType
  <2>2. One(tmp_overlayfs') = IF hermetic THEN One(tmp_overlayfs) ELSE 0
    BY <1>2, RemovedDir DEF ModeType
  <2>3. made' \in Int /\ (~again => made' = One(sandbox_root') + One(tmp_overlayfs'))
    BY <1>2, <2>1, <2>2, OneIsInt DEF ModeType, NoDirectoryLost
  <2>4. ~rejected /\ ~again => made' = 0
    <3>1. CASE ~hermetic
      BY <2>1, <2>2, <2>3, <3>1
    <3>2. CASE hermetic
      BY <2>1, <2>2, <2>3, <3>2, NothingIsMade DEF OneModeAccepted, Ownership
    <3> QED BY <3>1, <3>2
  \* A directory that was chosen keeps its base.
  <2>5. again => tmp_overlayfs'.base # NoPath
    BY <1>2, RemovedDir DEF ModeType, Ownership
  <2> QED
    BY <1>0, <2>1, <2>3, <2>4, <2>5 DEF ModeType, Ownership, Rooted, OneModeAccepted,
       NoDirectoryLost
<1> QED BY <1>1, <1>2 DEF Cleanup

\* The directories stay while pid1 works, and when the sandbox is there.
LEMMA StartKeeps == ModeInv /\ (MiniSbxStart \/ InitDone) => ModeInv'
<1> SUFFICES ASSUME ModeInv, MiniSbxStart \/ InitDone PROVE ModeInv'
  OBVIOUS
<1>1. /\ UNCHANGED <<mode, again, modeVars, dirVars, debug_path, rejected>>
      /\ is_running' \in {"STARTING", "RUNNING"}
  BY DEF MiniSbxStart, Prepare, InitDone, miscVars
<1> QED
  BY <1>1 DEF ModeInv, ModeType, Ownership, Rooted, OneModeAccepted,
     NoDirectoryLost, One, NoDir, modeVars, dirVars

-----------------------------------------------------------------------------
(* The flags. *)

LEMMA SetupFlagKeeps == ModeInv /\ SetupFlag => ModeInv'
<1> SUFFICES ASSUME ModeInv, SetupFlag PROVE ModeInv'
  OBVIOUS
<1>1. ~rejected'
  BY DEF SetupFlag
<1>2. CASE MiniSbxSetupDefault
  BY <1>1, <1>2, DefaultKeeps
<1>3. CASE \E r \in SetupArgs : MiniSbxSetupHermetic(r)
  BY <1>1, <1>3, HermeticKeeps
<1> QED BY <1>2, <1>3 DEF SetupFlag

LEMMA RootFlagKeeps ==
  ASSUME NEW dir, ModeInv, RootFlag(dir)
  PROVE  ModeInv'
<1> USE DEF ModeInv
<1> DEFINE root == CreateSandboxRoot(dir)
<1>1. /\ is_running = "NOT_RUNNING" /\ is_running' = is_running
      /\ UNCHANGED <<mode, again, use_default, hermetic, tmp_overlayfs, rejected>>
      /\ ~use_default /\ ~hermetic /\ use_overlayfs' = TRUE
      /\ sandbox_root' = root.dir /\ root.ok /\ root.dir.exists
      /\ made' = made + 1
  BY DEF RootFlag, Parsing, Call, MiniSbxSetupSandboxRootWithOverlay
<1>2. /\ sandbox_root.base = NoPath
      /\ sandbox_root' \in TempDir /\ sandbox_root'.base # NoPath
  BY <1>1, RootOutcome
<1>3. One(sandbox_root') = 1
  BY <1>1 DEF One
<1>4. tmp_overlayfs = NoDir /\ ~again /\ made = 0
  BY <1>2 DEF Ownership, NoDirectoryLost, One, NoDir
<1>5. made' = One(sandbox_root') + One(tmp_overlayfs') /\ made' \in Int
  BY <1>1, <1>3, <1>4, NothingIsMade
<1> QED
  BY <1>1, <1>2, <1>4, <1>5 DEF ModeType, Ownership, Rooted, OneModeAccepted,
     NoDirectoryLost

\* A second overlay directory is the one case in which one is forgotten.
LEMMA OverlayFlagKeeps ==
  ASSUME NEW dir, ModeInv, OverlayFlag(dir)
  PROVE  ModeInv'
<1> USE DEF ModeInv
<1> DEFINE overlay == CreateOverlayfsDir(dir)
<1>1. /\ mode = "CLI" /\ is_running = "NOT_RUNNING"
      /\ use_overlayfs /\ overlay.ok /\ overlay.dir.exists
      /\ tmp_overlayfs' = overlay.dir /\ made' = made + 1
      /\ again' = (again \/ tmp_overlayfs # NoDir)
      /\ UNCHANGED <<mode, is_running, use_default, use_overlayfs, hermetic,
                     sandbox_root, rejected>>
  BY DEF OverlayFlag, modeVars
<1>2. tmp_overlayfs' \in TempDir /\ One(tmp_overlayfs') = 1
  BY <1>1, OverlayOutcome DEF One
<1>3. ~rejected /\ sandbox_root.base # NoPath
  BY <1>1 DEF Rooted
<1>4. tmp_overlayfs'.base # NoPath
  BY <1>1, OverlayOutcome
<1>5. made' \in Int /\ (~again' => made' = One(sandbox_root') + One(tmp_overlayfs'))
  <2>1. CASE again'
    BY <1>1, <2>1 DEF ModeType
  <2>2. CASE ~again'
    <3>1. ~again /\ tmp_overlayfs = NoDir
      BY <1>1, <2>2
    <3>2. made = One(sandbox_root)
      BY <3>1, NothingIsMade, OneIsInt DEF NoDirectoryLost
    <3> QED BY <1>1, <1>2, <3>2, OneIsInt
  <2> QED BY <2>1, <2>2
<1>6. again' \in BOOLEAN
  BY <1>1
<1> QED
  BY <1>1, <1>2, <1>3, <1>4, <1>5, <1>6 DEF ModeType, Ownership, Rooted,
     OneModeAccepted, NoDirectoryLost

-----------------------------------------------------------------------------

LEMMA ModeInit == Init => ModeInv
<1> SUFFICES ASSUME Init PROVE ModeInv
  OBVIOUS
<1>1. sandbox_root = NoDir /\ tmp_overlayfs = NoDir /\ made = 0
  BY DEF Init
<1>2. /\ sandbox_root \in TempDir /\ tmp_overlayfs \in TempDir
      /\ sandbox_root.base = NoPath /\ ~sandbox_root.exists
      /\ One(sandbox_root) = 0 /\ One(tmp_overlayfs) = 0
  BY <1>1, NothingIsMade
<1>3. /\ use_default = FALSE /\ use_overlayfs = FALSE /\ hermetic = FALSE
      /\ rejected = FALSE /\ again = FALSE /\ is_running = "NOT_RUNNING"
  BY DEF Init
<1>4. ModeType
  <2>1. made \in Int
    BY <1>1
  <2>2. /\ use_default \in BOOLEAN /\ use_overlayfs \in BOOLEAN
        /\ hermetic \in BOOLEAN /\ rejected \in BOOLEAN /\ again \in BOOLEAN
    BY <1>3
  <2> QED BY <1>2, <2>1, <2>2 DEF ModeType
<1>5. Ownership /\ Rooted /\ OneModeAccepted
  BY <1>1, <1>2, <1>3 DEF Ownership, Rooted, OneModeAccepted
<1>6. NoDirectoryLost
  BY <1>1, <1>2, <1>3 DEF NoDirectoryLost
<1> QED
  BY <1>4, <1>5, <1>6 DEF ModeInv

LEMMA ModeStep == ModeInv /\ [Next]_vars => ModeInv'
<1> SUFFICES ASSUME ModeInv, [Next]_vars PROVE ModeInv'
  OBVIOUS
<1>1. CASE mode = "Library" /\ SetupCall
  BY <1>1, DefaultKeeps, CustomKeeps, HermeticKeeps DEF SetupCall
<1>2. CASE MountCall \/ \E p \in PathArgs : MountFlag(p)
  <2>1. UNCHANGED modeState
    BY <1>2 DEF MountCall, MountFlag, MiniSbxMountBind, MiniSbxMountWrite,
       MiniSbxMountTmpfs, MiniSbxMountOverlay, MiniSbxMountEmptyOutputFile, Call,
       modeState, miscVars
  <2> QED BY <2>1, ModeStutter
\* EnableLog sets debug_path, but not after a start.
<1>3. CASE LogFlag \/ \E usable \in BOOLEAN : MiniSbxEnableLog(usable)
  BY <1>3 DEF LogFlag, MiniSbxEnableLog, Call, ModeInv, ModeType, Ownership, Rooted,
     OneModeAccepted, NoDirectoryLost, One, NoDir, modeVars, dirVars
<1>4. CASE \/ \E p \in PathArgs : MiniSbxSetWorkingDir(p) \/ WorkingDirFlag(p)
           \/ MiniSbxMountParentsWrite \/ MiniSbxShareNetNamespace
           \/ NetFlag("NETNS", "NO_NETNS") \/ NetFlag("NO_NETNS", "NETNS")
  <2>1. UNCHANGED modeState
    BY <1>4 DEF MiniSbxSetWorkingDir, MiniSbxMountParentsWrite, WorkingDirFlag, NetFlag,
       MiniSbxShareNetNamespace, Parsing, Call, modeState
  <2> QED BY <2>1, ModeStutter
<1>5. CASE StartWithoutLog \/ StartReturns
  <2>1. UNCHANGED modeState
    BY <1>5 DEF StartWithoutLog, StartReturns, Prepare, Call, modeState, miscVars
  <2> QED BY <2>1, ModeStutter
<1>6. CASE MiniSbxStart \/ InitDone
  BY <1>6, StartKeeps
<1>7. CASE SetupFlag
  BY <1>7, SetupFlagKeeps
<1>8. CASE \E dir \in SetupArgs : RootFlag(dir) \/ OverlayFlag(dir)
  BY <1>8, RootFlagKeeps, OverlayFlagKeeps
<1>9. CASE Dies \/ SetupFails
  BY <1>9, CleanupKeeps DEF Dies, SetupFails, miscVars
\* Neither removes anything.
<1>10. CASE Usage \/ RunsDirectly
  <2>1. /\ UNCHANGED <<mode, modeVars, dirVars, debug_path, rejected, again>>
        /\ is_running' \in {"USAGE", "DIRECT"}
    BY <1>10 DEF Usage, RunsDirectly, Prepare, miscVars
  <2> QED
    BY <2>1 DEF ModeInv, ModeType, Ownership, Rooted, OneModeAccepted,
       NoDirectoryLost, One, NoDir, modeVars, dirVars
<1>11. CASE UNCHANGED vars
  <2>1. UNCHANGED modeState
    BY <1>11 DEF vars, modeState, miscVars
  <2> QED BY <2>1, ModeStutter
<1> QED
  BY <1>1, <1>2, <1>3, <1>4, <1>5, <1>6, <1>7, <1>8, <1>9, <1>10, <1>11
  DEF Next, LibraryCall, ParseCommandLine, ToolStart, OtherCall, StartCall, Finished

\* The invariant is inductive.
LEMMA ModeInvariant == Spec => []ModeInv
BY ModeInit, ModeStep, PTL DEF Spec

\* Whatever calls an application makes or flags the tool gets, in whatever order
\* and with whatever arguments, it has one functioning mode unless a setup call returned an
\* error: MiniSbxSetupHermetic does not return after another mode's error, but
\* CreateSandboxRoot then finds the other mode's root.
THEOREM OneModeSafety == Spec => []OneModeAccepted
<1>1. ModeInv => OneModeAccepted
  BY DEF ModeInv
<1> QED BY <1>1, ModeInvariant, PTL

\* Cleanup knows every temporary directory the setup calls or flags have created,
\* but for a repeated -d, and after a failed start, or an error that ended the
\* tool, without a log none is left.
THEOREM NoLossSafety == Spec => []NoDirectoryLost
<1>1. ModeInv => NoDirectoryLost
  BY DEF ModeInv
<1> QED BY <1>1, ModeInvariant, PTL

-----------------------------------------------------------------------------
(* The two lists of bind mounts.  Their length, and the number of links a    *)
(* directory has, stay hidden where the lists are elements of a table.       *)

Paths == Seq(Names)
LinkCount(p) == Len(Links[p])

\* A target goes with each source: its own name, or /tmp for the default
\* mode's directory.
Tied(S, T) ==
  /\ Len(S) = Len(T)
  /\ \A i \in 1..Len(S) : T[i] = S[i] \/ (S[i] = SbxTmp /\ T[i] = Tmp)

\* A source /tmp may break the tie, and then MiniSbxStart refuses the options.
Pair(S, T) == Tmp \in Range(S) \/ Tied(S, T)

LEMMA LinksOf ==
  ASSUME NEW p \in Names
  PROVE  /\ LinkCount(p) \in Nat
         /\ \A n \in 1..LinkCount(p) : Links[p][n] \in Names /\ Links[p][n] \in Range(Links[p])
                                       /\ Links[p][n] \in Dirs
         /\ Range(Links[p]) \subseteq Names /\ Range(Links[p]) \subseteq Dirs
<1>1. Links[p] \in Seq(Dirs)
  BY OptionsAssumption
<1>2. LinkCount(p) \in Nat /\ DOMAIN Links[p] = 1..LinkCount(p)
      /\ \A n \in 1..LinkCount(p) : Links[p][n] \in Dirs
  BY <1>1 DEF LinkCount
<1>3. Dirs \subseteq Names
  BY OptionsAssumption DEF Names
<1> QED BY <1>2, <1>3 DEF Range

LEMMA AddPath ==
  ASSUME NEW S \in Paths, NEW q \in Names
  PROVE  addIfNotPresent(S, q) \in Paths
BY DEF addIfNotPresent, Paths

\* What one list has, so does the other, unless it is /tmp.
LEMMA AddPaired ==
  ASSUME NEW S \in Paths, NEW T \in Paths, NEW q \in Names, q # SbxTmp, Pair(S, T)
  PROVE  Pair(addIfNotPresent(S, q), addIfNotPresent(T, q))
<1>0. S \in Seq(Names) /\ T \in Seq(Names)
  BY DEF Paths
<1>1. CASE Tmp \in Range(S)
  <2>1. Range(S) \subseteq Range(Append(S, q))
    BY <1>0 DEF Range
  <2> QED BY <1>1, <2>1 DEF Pair, addIfNotPresent
<1>2. CASE Tmp \notin Range(S) /\ Tied(S, T)
  <2>1. q \in Range(S) => q \in Range(T)
    BY <1>0, <1>2 DEF Tied, Range
  <2>2. q \in Range(T) /\ q # Tmp => q \in Range(S)
    BY <1>0, <1>2 DEF Tied, Range
  <2>3. q \in Range(Append(S, q))
    <3>1. Append(S, q)[Len(S) + 1] = q /\ Len(S) + 1 \in DOMAIN Append(S, q)
      BY <1>0
    <3> QED BY <3>1 DEF Range
  <2>4. Tied(Append(S, q), Append(T, q))
    BY <1>0, <1>2 DEF Tied
  <2> QED
    BY <1>2, <2>1, <2>2, <2>3, <2>4 DEF Pair, addIfNotPresent
<1> QED BY <1>1, <1>2 DEF Pair

\* Both lists get the same names.
LEMMA ConcatPaired ==
  ASSUME NEW S \in Paths, NEW T \in Paths, NEW names \in Paths, Pair(S, T)
  PROVE  Pair(S \o names, T \o names)
<1>0. S \in Seq(Names) /\ T \in Seq(Names) /\ names \in Seq(Names)
  BY DEF Paths
<1>1. CASE Tmp \in Range(S)
  <2>1. Range(S) \subseteq Range(S \o names)
    BY <1>0 DEF Range
  <2> QED BY <1>1, <2>1 DEF Pair
<1>2. CASE Tied(S, T)
  <2>1. Tied(S \o names, T \o names)
    BY <1>0, <1>2 DEF Tied
  <2> QED BY <2>1 DEF Pair
<1> QED BY <1>1, <1>2 DEF Pair

\* MountHomeSymlinks is defined for every list, and adds one link after the
\* other.
LEMMA SymlinksDefined ==
  ASSUME NEW S \in Paths, NEW p \in Names
  PROVE  \E g :
           /\ g[0] = S
           /\ \A n \in 1..LinkCount(p) : g[n] = addIfNotPresent(g[n - 1], Links[p][n])
           /\ MountHomeSymlinks(S, p) = g[LinkCount(p)]
<1> DEFINE N == LinkCount(p)
           IsTable(t) == t = [n \in 0..N |-> IF n = 0 THEN S
                                             ELSE addIfNotPresent(t[n - 1], Links[p][n])]
           F == [n \in 1..N |-> [l \in Paths |-> addIfNotPresent(l, Links[p][n])]]
           t == CHOOSE u : IsTable(u)
<1>1. MountHomeSymlinks(S, p) = t[N]
  BY DEF MountHomeSymlinks, LinkCount
<1>2. N \in Nat /\ \A n \in 1..N : Links[p][n] \in Names
  BY LinksOf
<1> HIDE DEF N
<1>3. ASSUME NEW n \in 1..N, NEW l \in Paths PROVE addIfNotPresent(l, Links[p][n]) \in Paths
  BY <1>2, AddPath
<1>4. F \in [1..N -> [Paths -> Paths]]
  BY <1>3
<1>5. PICK g \in [0..N -> Paths] : Iterates(g, S, N, F)
  <2> HIDE DEF F
  <2>1. N \in Nat
    BY <1>2
  <2>2. QED
    BY <1>4, <2>1, Iteration, Zenon
<1>6. \A n \in 1..N : g[n] = addIfNotPresent(g[n - 1], Links[p][n])
  <2> TAKE n \in 1..N
  <2>1. n - 1 \in 0..N
    BY <1>2
  <2>2. g[n - 1] \in Paths
    BY <1>5, <2>1
  <2>3. QED
    BY <1>5, <2>2 DEF Iterates
<1>7. IsTable(g)
  <2>1. \A n \in 0..N : n = 0 \/ n \in 1..N
    BY <1>2
  <2>2. \A n \in 0..N : g[n] = IF n = 0 THEN S ELSE addIfNotPresent(g[n - 1], Links[p][n])
    BY <1>5, <1>6, <2>1 DEF Iterates
  <2>3. QED
    BY <1>5, <2>2
<1>8. IsTable(t)
  <2> HIDE DEF IsTable
  <2> QED
    BY <1>7
<1> HIDE DEF t
<1>9. t[0] = S
  <2>1. 0 \in 0..N
    BY <1>2
  <2>2. QED
    BY <1>8, <2>1
<1>10. \A n \in 1..N : t[n] = addIfNotPresent(t[n - 1], Links[p][n])
  <2>1. \A n \in 1..N : n \in 0..N /\ n # 0
    BY <1>2
  <2>2. QED
    BY <1>8, <2>1
<1>11. QED
  <2> HIDE DEF IsTable
  <2> QED
    BY <1>1, <1>9, <1>10 DEF N

LEMMA SymlinksType ==
  ASSUME NEW S \in Paths, NEW p \in Names
  PROVE  MountHomeSymlinks(S, p) \in Paths
<1> DEFINE N == LinkCount(p)
<1>1. PICK g : /\ g[0] = S
               /\ \A n \in 1..N : g[n] = addIfNotPresent(g[n - 1], Links[p][n])
               /\ MountHomeSymlinks(S, p) = g[N]
  BY SymlinksDefined
<1>2. N \in Nat /\ \A n \in 1..N : Links[p][n] \in Names
  BY LinksOf
<1> HIDE DEF N
<1> DEFINE Good == {n \in 0..N : g[n] \in Paths}
<1>3. 0 \in Good
  BY <1>1, <1>2
<1>4. ASSUME NEW n \in 1..N, n - 1 \in Good PROVE n \in Good
  BY <1>1, <1>2, <1>4, AddPath
<1>5. 0..N \subseteq Good
  <2> HIDE DEF Good
  <2> QED
    BY <1>2, <1>3, <1>4, IntervalInduction
<1>6. QED
  BY <1>1, <1>2, <1>5

\* The links are added to both lists, or to none.
LEMMA SymlinksPaired ==
  ASSUME NEW S \in Paths, NEW T \in Paths, NEW p \in Names,
         SbxTmp \notin Range(Links[p]), Pair(S, T)
  PROVE  Pair(MountHomeSymlinks(S, p), MountHomeSymlinks(T, p))
<1> DEFINE N == LinkCount(p)
<1>1. PICK g : /\ g[0] = S
               /\ \A n \in 1..N : g[n] = addIfNotPresent(g[n - 1], Links[p][n])
               /\ MountHomeSymlinks(S, p) = g[N]
  BY SymlinksDefined
<1>2. PICK h : /\ h[0] = T
               /\ \A n \in 1..N : h[n] = addIfNotPresent(h[n - 1], Links[p][n])
               /\ MountHomeSymlinks(T, p) = h[N]
  BY SymlinksDefined
<1>3. N \in Nat /\ \A n \in 1..N : Links[p][n] \in Names /\ Links[p][n] # SbxTmp
  BY LinksOf
<1> HIDE DEF N
<1> DEFINE Good == {n \in 0..N : g[n] \in Paths /\ h[n] \in Paths /\ Pair(g[n], h[n])}
<1>4. 0 \in Good
  BY <1>1, <1>2, <1>3
<1>5. ASSUME NEW n \in 1..N, n - 1 \in Good PROVE n \in Good
  <2>1. /\ g[n - 1] \in Paths /\ h[n - 1] \in Paths /\ Pair(g[n - 1], h[n - 1])
        /\ Links[p][n] \in Names /\ Links[p][n] # SbxTmp
    BY <1>3, <1>5
  <2>2. /\ addIfNotPresent(g[n - 1], Links[p][n]) \in Paths
        /\ addIfNotPresent(h[n - 1], Links[p][n]) \in Paths
    BY <2>1, AddPath
  <2>3. Pair(addIfNotPresent(g[n - 1], Links[p][n]), addIfNotPresent(h[n - 1], Links[p][n]))
    BY <2>1, AddPaired
  <2>4. n \in 0..N
    BY <1>3
  <2>5. QED
    BY <1>1, <1>2, <2>2, <2>3, <2>4
<1>6. 0..N \subseteq Good
  <2> HIDE DEF Good
  <2> QED
    BY <1>3, <1>4, <1>5, IntervalInduction
<1>7. QED
  BY <1>1, <1>2, <1>3, <1>6

\* Sources and targets are the same list, until the default mode binds its
\* directory to /tmp.
ListInv ==
  /\ sources \in Paths /\ targets \in Paths
  /\ ~use_default => targets = sources
  /\ (\A p \in Names : SbxTmp \notin Range(Links[p])) => Pair(sources, targets)

\* Lists that are the same belong together.
LEMMA SamePaired == ASSUME NEW S PROVE Pair(S, S)
BY DEF Pair, Tied

LEMMA ListStutter ==
  ASSUME ListInv, UNCHANGED <<use_default, sources, targets>>
  PROVE  ListInv'
BY DEF ListInv, Pair, Tied, Range

LEMMA DefaultLists ==
  ASSUME ModeInv, ListInv, MiniSbxSetupDefault
  PROVE  ListInv'
<1>1. CASE UNCHANGED <<sources, targets>>
  <2>1. use_default' => use_default \/ targets = sources
    BY DEF ListInv
  <2> QED
    BY <1>1, <2>1 DEF ListInv, Pair, Tied, Range, MiniSbxSetupDefault, modeVars
<1>2. CASE SetupDefaultMounts /\ ~hermetic /\ ~use_overlayfs /\ use_default' = TRUE
  <2>1. ~use_default
    BY <1>2 DEF ModeInv, Ownership
  <2>2. sources \in Seq(Names) /\ targets = sources
    BY <2>1 DEF ListInv, Paths
  <2>3. {Tmp, SbxTmp} \subseteq Names /\ Defaults \in Seq(Names)
    BY OptionsAssumption DEF Names
  <2> DEFINE S == Append(sources, SbxTmp)
             T == Append(sources, Tmp)
  <2>4. S \in Paths /\ T \in Paths /\ Defaults \in Paths
    BY <2>2, <2>3 DEF Paths
  <2>5. Tied(S, T)
    BY <2>2, <2>3 DEF Tied
  <2>6. sources' = S \o Defaults /\ targets' = T \o Defaults
    BY <1>2, <2>2 DEF SetupDefaultMounts
  <2> HIDE DEF S, T
  <2>7. Pair(sources', targets')
    BY <2>4, <2>5, <2>6, ConcatPaired DEF Pair
  <2>8. sources' \in Paths /\ targets' \in Paths
    BY <2>4, <2>6 DEF Paths
  <2> QED BY <1>2, <2>7, <2>8 DEF ListInv
<1> QED BY <1>1, <1>2 DEF MiniSbxSetupDefault, mountVars

LEMMA BindLists ==
  ASSUME NEW p \in PathArgs, ListInv, MiniSbxMountBind(p)
  PROVE  ListInv'
<1> DEFINE path == CanonicPath(p, FALSE)
           names == IF path = p THEN <<path>> ELSE <<path, p>>
<1>0. use_default' = use_default
  BY DEF MiniSbxMountBind, modeVars
<1>1. CASE UNCHANGED <<sources, targets>>
  BY <1>0, <1>1, ListStutter
<1>2. CASE /\ sources' = MountHomeSymlinks(sources \o names, p)
           /\ targets' = MountHomeSymlinks(targets \o names, p)
  <2>1. p \in Names /\ path \in Names
    BY OptionsAssumption DEF CanonicPath, Names
  <2> HIDE DEF path
  <2>2. names \in Paths
    BY <2>1 DEF Paths
  <2> HIDE DEF names
  <2>3. sources \o names \in Paths /\ targets \o names \in Paths
    BY <2>2 DEF ListInv, Paths
  <2>4. sources' \in Paths /\ targets' \in Paths
    BY <1>2, <2>1, <2>3, SymlinksType
  <2>5. ~use_default => targets' = sources'
    BY <1>2 DEF ListInv
  <2>6. (\A q \in Names : SbxTmp \notin Range(Links[q])) => Pair(sources', targets')
    BY <1>2, <2>1, <2>2, <2>3, SymlinksPaired, ConcatPaired DEF ListInv
  <2> QED BY <1>0, <2>4, <2>5, <2>6 DEF ListInv
<1> QED BY <1>1, <1>2 DEF MiniSbxMountBind

\* A privileged container's /etc is added to both lists.
LEMMA PrepareLists ==
  ASSUME ListInv, Prepare
  PROVE  ListInv'
<1>1. /\ use_default' = use_default
      /\ sources' = WithEtc(sources) /\ targets' = WithEtc(targets)
  BY DEF Prepare, modeVars
<1>2. CASE env # "privileged"
  BY <1>1, <1>2, ListStutter DEF WithEtc
<1>3. CASE env = "privileged"
  <2>1. Etc \in Names /\ <<Etc>> \in Paths
    BY OptionsAssumption DEF Names, Paths
  <2>2. /\ sources \o <<Etc>> \in Paths /\ targets \o <<Etc>> \in Paths
        /\ Append(sources, Etc) = sources \o <<Etc>> /\ Append(targets, Etc) = targets \o <<Etc>>
    BY <2>1 DEF ListInv, Paths
  <2>3. /\ sources' = MountHomeSymlinks(sources \o <<Etc>>, Etc)
        /\ targets' = MountHomeSymlinks(targets \o <<Etc>>, Etc)
    BY <1>1, <1>3, <2>2 DEF WithEtc
  <2>4. sources' \in Paths /\ targets' \in Paths
    BY <2>1, <2>2, <2>3, SymlinksType
  <2>5. ~use_default => targets' = sources'
    BY <2>3 DEF ListInv
  <2>6. (\A q \in Names : SbxTmp \notin Range(Links[q])) => Pair(sources', targets')
    BY <2>1, <2>2, <2>3, SymlinksPaired, ConcatPaired DEF ListInv
  <2> QED BY <1>1, <2>4, <2>5, <2>6 DEF ListInv
<1> QED BY <1>2, <1>3

LEMMA ListStep == ModeInv /\ ListInv /\ [Next]_vars => ListInv'
<1> SUFFICES ASSUME ModeInv, ListInv, [Next]_vars PROVE ListInv'
  OBVIOUS
<1>1. CASE SetupCall \/ SetupFlag
  <2>1. ASSUME NEW o, NEW r, MiniSbxSetupCustom(o, r) PROVE ListInv'
    BY <2>1, ListStutter DEF MiniSbxSetupCustom, mountVars
  <2>2. ASSUME NEW r, MiniSbxSetupHermetic(r) PROVE ListInv'
    BY <2>2, ListStutter DEF MiniSbxSetupHermetic, mountVars
  <2> QED BY <1>1, <2>1, <2>2, DefaultLists DEF SetupCall, SetupFlag
<1>2. ASSUME NEW p \in PathArgs, MiniSbxMountBind(p) PROVE ListInv'
  BY <1>2, BindLists
<1>3. ASSUME NEW p \in PathArgs,
             \/ MiniSbxMountWrite(p) \/ MiniSbxMountTmpfs(p) \/ MiniSbxMountOverlay(p)
             \/ MiniSbxMountEmptyOutputFile(p)
      PROVE  ListInv'
  BY <1>3, ListStutter DEF MiniSbxMountWrite, MiniSbxMountTmpfs, MiniSbxMountOverlay,
     MiniSbxMountEmptyOutputFile, modeVars
<1>4. CASE MountCall \/ \E p \in PathArgs : MountFlag(p)
  BY <1>2, <1>3, <1>4 DEF MountCall, MountFlag
<1>5. CASE \/ LogFlag \/ \E usable \in BOOLEAN : MiniSbxEnableLog(usable)
           \/ \E p \in PathArgs : MiniSbxSetWorkingDir(p) \/ WorkingDirFlag(p)
           \/ MiniSbxMountParentsWrite \/ MiniSbxShareNetNamespace
           \/ NetFlag("NETNS", "NO_NETNS") \/ NetFlag("NO_NETNS", "NETNS")
           \/ StartWithoutLog \/ Dies \/ Usage \/ InitDone \/ SetupFails
  BY <1>5, ListStutter DEF LogFlag, MiniSbxEnableLog, MiniSbxSetWorkingDir,
     MiniSbxMountParentsWrite, MiniSbxShareNetNamespace, WorkingDirFlag, NetFlag,
     StartWithoutLog, Dies, Usage, InitDone, SetupFails, modeVars, mountVars
<1>6. CASE StartReturns \/ MiniSbxStart \/ RunsDirectly
  BY <1>6, PrepareLists DEF StartReturns, MiniSbxStart, RunsDirectly
<1>7. ASSUME NEW dir, RootFlag(dir) \/ OverlayFlag(dir) PROVE ListInv'
  BY <1>7, ListStutter DEF RootFlag, OverlayFlag, modeVars, mountVars
<1>8. CASE UNCHANGED vars
  BY <1>8, ListStutter DEF vars, modeVars, mountVars
<1> QED
  BY <1>1, <1>4, <1>5, <1>6, <1>7, <1>8
  DEF Next, LibraryCall, ParseCommandLine, ToolStart, OtherCall, StartCall, Finished

LEMMA ListInvariant == Spec => []ListInv
<1>1. Init => ListInv
  <2> SUFFICES ASSUME Init PROVE ListInv
    OBVIOUS
  <2>1. sources = <<>> /\ targets = <<>>
    BY DEF Init
  <2>2. sources \in Paths
    BY <2>1 DEF Paths
  <2> QED BY <2>1, <2>2, SamePaired DEF ListInv
<1> QED BY <1>1, ModeInvariant, ListStep, PTL DEF Spec

-----------------------------------------------------------------------------
(* Names.  The name of a file in one of the lists comes with its canonical  *)
(* name, unless it is that of a symbolic link.                             *)

Closed(X) == \A x \in X : x \in Alias /\ x \notin Symlinks => Canon[x] \in X

ClosedInv == Closed(Range(sources)) /\ Closed(writable_files)

\* Until pid1 adds its own.
NamesInv == is_running # "RUNNING" => ClosedInv

LEMMA AppendRange ==
  ASSUME NEW S \in Paths, NEW q \in Names
  PROVE  Range(Append(S, q)) = Range(S) \cup {q}
<1>0. S \in Seq(Names)
  BY DEF Paths
<1>1. Range(S) \subseteq Range(Append(S, q))
  BY <1>0 DEF Range
<1>2. q \in Range(Append(S, q))
  <2>1. Append(S, q)[Len(S) + 1] = q /\ Len(S) + 1 \in DOMAIN Append(S, q)
    BY <1>0
  <2> QED BY <2>1 DEF Range
<1>3. Range(Append(S, q)) \subseteq Range(S) \cup {q}
  BY <1>0 DEF Range
<1> QED BY <1>1, <1>2, <1>3

LEMMA ConcatRange ==
  ASSUME NEW S \in Paths, NEW T \in Paths
  PROVE  Range(S \o T) = Range(S) \cup Range(T)
<1>0. S \in Seq(Names) /\ T \in Seq(Names)
  BY DEF Paths
<1>1. Range(S) \subseteq Range(S \o T)
  BY <1>0 DEF Range
<1>2. ASSUME NEW i \in DOMAIN T PROVE T[i] \in Range(S \o T)
  <2>1. Len(S) + i \in DOMAIN (S \o T) /\ (S \o T)[Len(S) + i] = T[i]
    BY <1>0
  <2> QED BY <2>1 DEF Range
<1>3. Range(T) \subseteq Range(S \o T)
  BY <1>2 DEF Range
<1>4. Range(S \o T) \subseteq Range(S) \cup Range(T)
  <2> SUFFICES ASSUME NEW i \in DOMAIN (S \o T) PROVE (S \o T)[i] \in Range(S) \cup Range(T)
    BY DEF Range
  <2>1. CASE i <= Len(S)
    <3>1. i \in DOMAIN S /\ (S \o T)[i] = S[i]
      BY <1>0, <2>1
    <3> QED BY <3>1 DEF Range
  <2>2. CASE ~(i <= Len(S))
    <3>1. i - Len(S) \in DOMAIN T /\ (S \o T)[i] = T[i - Len(S)]
      BY <1>0, <2>2
    <3> QED BY <3>1 DEF Range
  <2> QED BY <2>1, <2>2
<1> QED BY <1>1, <1>3, <1>4

\* A directory is its own canonical name.
LEMMA CanonicalClosed ==
  ASSUME NEW X, NEW Y \in SUBSET Real, Closed(X)
  PROVE  Closed(X \cup Y)
BY OptionsAssumption DEF Closed

LEMMA UnionClosed ==
  ASSUME NEW X, NEW Y, Closed(X), Closed(Y)
  PROVE  Closed(X \cup Y)
BY DEF Closed

LEMMA AddClosed ==
  ASSUME NEW S \in Paths, NEW q \in Dirs, Closed(Range(S))
  PROVE  Closed(Range(addIfNotPresent(S, q)))
<1>1. q \in Names /\ {q} \in SUBSET Real
  BY OptionsAssumption DEF Names
<1>2. Closed(Range(S) \cup {q})
  BY <1>1, CanonicalClosed
<1> QED BY <1>1, <1>2, AppendRange DEF addIfNotPresent

\* Where links lead is canonical.
LEMMA SymlinksClosed ==
  ASSUME NEW S \in Paths, NEW p \in Names, Closed(Range(S))
  PROVE  Closed(Range(MountHomeSymlinks(S, p)))
<1> DEFINE N == LinkCount(p)
<1>1. PICK g : /\ g[0] = S
               /\ \A n \in 1..N : g[n] = addIfNotPresent(g[n - 1], Links[p][n])
               /\ MountHomeSymlinks(S, p) = g[N]
  BY SymlinksDefined
<1>2. N \in Nat /\ \A n \in 1..N : Links[p][n] \in Names /\ Links[p][n] \in Dirs
  BY LinksOf
<1> HIDE DEF N
<1> DEFINE Good == {n \in 0..N : g[n] \in Paths /\ Closed(Range(g[n]))}
<1>3. 0 \in Good
  BY <1>1, <1>2
<1>4. ASSUME NEW n \in 1..N, n - 1 \in Good PROVE n \in Good
  <2>1. /\ g[n - 1] \in Paths /\ Closed(Range(g[n - 1]))
        /\ Links[p][n] \in Names /\ Links[p][n] \in Dirs
    BY <1>2, <1>4
  <2>2. addIfNotPresent(g[n - 1], Links[p][n]) \in Paths
    BY <2>1, AddPath
  <2>3. Closed(Range(addIfNotPresent(g[n - 1], Links[p][n])))
    BY <2>1, AddClosed
  <2>4. n \in 0..N
    BY <1>2
  <2> QED BY <1>1, <2>2, <2>3, <2>4
<1>5. 0..N \subseteq Good
  <2> HIDE DEF Good
  <2> QED
    BY <1>2, <1>3, <1>4, IntervalInduction
<1> QED
  BY <1>1, <1>2, <1>5

LEMMA WrittenClosed ==
  ASSUME NEW p \in Names
  PROVE  Closed(Written(p))
<1>1. Range(Links[p]) \in SUBSET Real
  BY LinksOf, OptionsAssumption
<1>2. Closed({CanonicPath(p, FALSE), p})
  BY OptionsAssumption DEF Closed, CanonicPath
<1>3. Closed({CanonicPath(p, FALSE), p} \cup Range(Links[p]))
  BY <1>1, <1>2, CanonicalClosed
<1>4. Closed({})
  BY DEF Closed
<1> QED BY <1>3, <1>4 DEF Written

LEMMA ClosedStutter ==
  ASSUME ClosedInv, UNCHANGED <<sources, writable_files>>
  PROVE  ClosedInv'
BY DEF ClosedInv, Closed, Range

LEMMA DefaultClosed ==
  ASSUME ListInv, ClosedInv, MiniSbxSetupDefault
  PROVE  ClosedInv'
<1>1. CASE UNCHANGED <<sources, writable_files>>
  BY <1>1, ClosedStutter
<1>2. CASE SetupDefaultMounts
  <2>1. /\ SbxTmp \in Names /\ Rng \in Real /\ Defaults \in Seq(Real) /\ {SbxTmp} \in SUBSET Real
        /\ Real \subseteq Names
    BY OptionsAssumption DEF Names
  <2>2. /\ Defaults \in Paths /\ Range(Defaults) \in SUBSET Real
        /\ Append(sources, SbxTmp) \in Paths
    BY <2>1 DEF Paths, Range, ListInv
  <2>3. Closed(Range(Append(sources, SbxTmp)))
    <3>1. Closed(Range(sources) \cup {SbxTmp})
      BY <2>1, CanonicalClosed DEF ClosedInv
    <3>2. Range(Append(sources, SbxTmp)) = Range(sources) \cup {SbxTmp}
      BY <2>1, AppendRange DEF ListInv
    <3> QED BY <3>1, <3>2
  <2>4. Closed(Range(sources'))
    <3> DEFINE S == Append(sources, SbxTmp)
    <3>1. sources' = S \o Defaults
      BY <1>2 DEF SetupDefaultMounts
    <3> HIDE DEF S
    <3>2. Range(S \o Defaults) = Range(S) \cup Range(Defaults)
      BY <2>2, ConcatRange DEF S
    <3>3. Closed(Range(S) \cup Range(Defaults))
      BY <2>2, <2>3, CanonicalClosed DEF S
    <3> QED BY <3>1, <3>2, <3>3
  <2>5. Closed(writable_files')
    BY <1>2, <2>1, CanonicalClosed DEF SetupDefaultMounts, ClosedInv
  <2> QED BY <2>4, <2>5 DEF ClosedInv, Closed, Range
<1> QED BY <1>1, <1>2 DEF MiniSbxSetupDefault, mountVars

LEMMA BindClosed ==
  ASSUME NEW p \in PathArgs, ListInv, ClosedInv, MiniSbxMountBind(p)
  PROVE  ClosedInv'
<1> DEFINE path == CanonicPath(p, FALSE)
           names == IF path = p THEN <<path>> ELSE <<path, p>>
<1>1. CASE UNCHANGED <<sources, writable_files>>
  BY <1>1, ClosedStutter
<1>2. CASE sources' = MountHomeSymlinks(sources \o names, p) /\ writable_files' = writable_files
  <2>1. p \in Names /\ path \in Names
    BY OptionsAssumption DEF CanonicPath, Names
  <2>2. Closed({path, p})
    BY OptionsAssumption DEF Closed, CanonicPath
  <2> HIDE DEF path
  <2>3. names \in Paths /\ Range(names) = {path, p}
    <3>1. CASE path = p
      <4>1. names = <<p>>
        BY <3>1
      <4>2. <<p>> \in Seq(Names) /\ DOMAIN <<p>> = {1} /\ <<p>>[1] = p
        BY <2>1
      <4> QED BY <3>1, <4>1, <4>2 DEF Paths, Range
    <3>2. CASE path # p
      <4>1. names = <<path, p>>
        BY <3>2
      <4>2. /\ <<path, p>> \in Seq(Names) /\ DOMAIN <<path, p>> = {1, 2}
            /\ <<path, p>>[1] = path /\ <<path, p>>[2] = p
        BY <2>1
      <4> QED BY <4>1, <4>2 DEF Paths, Range
    <3> QED BY <3>1, <3>2
  <2> HIDE DEF names
  <2>4. sources \o names \in Paths
    BY <2>3 DEF ListInv, Paths
  <2>5. Closed(Range(sources \o names))
    BY <2>2, <2>3, ConcatRange, UnionClosed DEF ListInv, ClosedInv
  <2>6. Closed(Range(sources'))
    BY <1>2, <2>1, <2>4, <2>5, SymlinksClosed
  <2> QED BY <1>2, <2>6 DEF ClosedInv, Closed, Range
<1> QED BY <1>1, <1>2 DEF MiniSbxMountBind

LEMMA PrepareClosed ==
  ASSUME ListInv, ClosedInv, Prepare
  PROVE  ClosedInv'
<1>1. sources' = WithEtc(sources) /\ writable_files' = writable_files
  BY DEF Prepare
<1>2. CASE env # "privileged"
  BY <1>1, <1>2, ClosedStutter DEF WithEtc
<1>3. CASE env = "privileged"
  <2>1. Etc \in Names /\ {Etc} \in SUBSET Real /\ Append(sources, Etc) \in Paths
    BY OptionsAssumption DEF Names, Paths, ListInv
  <2>2. Closed(Range(Append(sources, Etc)))
    <3>1. Closed(Range(sources) \cup {Etc})
      BY <2>1, CanonicalClosed DEF ClosedInv
    <3>2. Range(Append(sources, Etc)) = Range(sources) \cup {Etc}
      BY <2>1, AppendRange DEF ListInv
    <3> QED BY <3>1, <3>2
  <2>3. Closed(Range(sources'))
    BY <1>1, <1>3, <2>1, <2>2, SymlinksClosed DEF WithEtc
  <2> QED BY <1>1, <2>3 DEF ClosedInv, Closed, Range
<1> QED BY <1>2, <1>3

\* A file that was created has no other name.
LEMMA WriteClosed ==
  ASSUME NEW p \in PathArgs, ClosedInv,
         MiniSbxMountWrite(p) \/ MiniSbxMountEmptyOutputFile(p)
  PROVE  ClosedInv'
<1>1. sources' = sources
  BY DEF MiniSbxMountWrite, MiniSbxMountEmptyOutputFile
<1>2. p \in Names /\ CanonicPath(p, FALSE) \in Names
  BY OptionsAssumption DEF CanonicPath, Names
<1>3. Closed(Written(p)) /\ Closed(Written(CanonicPath(p, FALSE)))
  BY <1>2, WrittenClosed
<1>4. p \in Absent => Closed({p})
  BY OptionsAssumption DEF Closed
<1>5. \/ writable_files' = writable_files
      \/ writable_files' = writable_files \cup Written(p)
      \/ writable_files' = writable_files \cup Written(CanonicPath(p, FALSE))
      \/ p \in Absent /\ writable_files' = writable_files \cup {p}
  BY DEF MiniSbxMountWrite, MiniSbxMountEmptyOutputFile
<1>6. Closed(writable_files')
  BY <1>3, <1>4, <1>5, UnionClosed DEF ClosedInv
<1> QED BY <1>1, <1>6 DEF ClosedInv, Closed, Range

LEMMA ClosedStep == ListInv /\ NamesInv /\ [Next]_vars => NamesInv'
<1> SUFFICES ASSUME ListInv, is_running # "RUNNING" => ClosedInv, [Next]_vars,
                    is_running' # "RUNNING"
             PROVE  ClosedInv'
  BY DEF NamesInv
<1>1. CASE SetupCall \/ SetupFlag
  <2>0. is_running = "NOT_RUNNING"
    BY <1>1 DEF SetupCall, SetupFlag, MiniSbxSetupDefault, MiniSbxSetupCustom,
                MiniSbxSetupHermetic, Call
  <2>1. ASSUME NEW o, NEW r, MiniSbxSetupCustom(o, r) PROVE ClosedInv'
    BY <2>0, <2>1, ClosedStutter DEF MiniSbxSetupCustom, mountVars
  <2>2. ASSUME NEW r, MiniSbxSetupHermetic(r) PROVE ClosedInv'
    BY <2>0, <2>2, ClosedStutter DEF MiniSbxSetupHermetic, mountVars
  <2> QED BY <1>1, <2>0, <2>1, <2>2, DefaultClosed DEF SetupCall, SetupFlag
<1>2. CASE MountCall \/ \E p \in PathArgs : MountFlag(p)
  <2>0. is_running = "NOT_RUNNING"
    BY <1>2 DEF MountCall, MountFlag, MiniSbxMountBind, MiniSbxMountWrite,
       MiniSbxMountTmpfs, MiniSbxMountOverlay, MiniSbxMountEmptyOutputFile, Call
  <2>1. ASSUME NEW p \in PathArgs, MiniSbxMountTmpfs(p) \/ MiniSbxMountOverlay(p)
        PROVE  ClosedInv'
    BY <2>0, <2>1, ClosedStutter DEF MiniSbxMountTmpfs, MiniSbxMountOverlay
  <2> QED BY <1>2, <2>0, <2>1, BindClosed, WriteClosed DEF MountCall, MountFlag
<1>3. CASE \/ LogFlag \/ \E usable \in BOOLEAN : MiniSbxEnableLog(usable)
           \/ \E p \in PathArgs : MiniSbxSetWorkingDir(p) \/ WorkingDirFlag(p)
           \/ MiniSbxMountParentsWrite
           \/ NetFlag("NETNS", "NO_NETNS") \/ NetFlag("NO_NETNS", "NETNS")
           \/ StartWithoutLog \/ Dies \/ Usage \/ SetupFails
  BY <1>3, ClosedStutter DEF LogFlag, MiniSbxEnableLog, MiniSbxSetWorkingDir,
     MiniSbxMountParentsWrite, WorkingDirFlag, NetFlag, Parsing, Call,
     StartWithoutLog, Dies, Usage, SetupFails, mountVars
<1>4. CASE MiniSbxShareNetNamespace
  BY <1>4, ClosedStutter DEF MiniSbxShareNetNamespace, mountVars
<1>5. CASE StartReturns \/ MiniSbxStart \/ RunsDirectly
  BY <1>5, PrepareClosed DEF StartReturns, MiniSbxStart, RunsDirectly, Prepare
<1>6. ASSUME NEW dir, RootFlag(dir) \/ OverlayFlag(dir) PROVE ClosedInv'
  BY <1>6, ClosedStutter DEF RootFlag, OverlayFlag, Parsing, Call, mountVars
<1>7. CASE InitDone
  BY <1>7 DEF InitDone
<1>8. CASE UNCHANGED vars
  BY <1>8, ClosedStutter DEF vars, mountVars
<1> QED
  BY <1>1, <1>2, <1>3, <1>4, <1>5, <1>6, <1>7, <1>8
  DEF Next, LibraryCall, ParseCommandLine, ToolStart, OtherCall, StartCall, Finished

LEMMA ClosedInvariant == Spec => []NamesInv
<1>1. Init => ClosedInv
  <2> SUFFICES ASSUME Init PROVE ClosedInv
    OBVIOUS
  <2>1. sources = <<>> /\ writable_files = {}
    BY DEF Init
  <2>2. Range(sources) = {}
    BY <2>1 DEF Range
  <2> QED BY <2>1, <2>2 DEF ClosedInv, Closed
<1>2. Init => NamesInv
  BY <1>1 DEF NamesInv
<1> QED BY <1>2, ListInvariant, ClosedStep, PTL DEF Spec

-----------------------------------------------------------------------------
(* What a started sandbox can rely on. *)

\* Before the start: the tool goes on only with a root that exists, and the
\* default mode makes both directories or none of them.
RootsMade ==
  is_running = "NOT_RUNNING" =>
    /\ mode = "CLI" /\ (use_overlayfs \/ hermetic) => sandbox_root.exists
    /\ use_default /\ tmp_overlayfs.exists => sandbox_root.exists

\* The options ValidateOptions has accepted, with the directories they are for.
Accepted ==
  is_running = "STARTING" =>
    /\ Range(sources) \cap writable_files = {}
    /\ use_overlayfs \/ hermetic => sandbox_root.exists
    /\ hermetic => <<CanonicPath(working_dir, TRUE), sandbox_root.base>> \notin Inside
    /\ use_overlayfs =>
         /\ tmp_overlayfs.exists
         /\ <<CanonicPath(working_dir, TRUE), tmp_overlayfs.base>> \notin Inside
         /\ env = "privileged"
              \/ \A w \in writable_files :
                   <<CanonicPath(w, TRUE), tmp_overlayfs.base>> \notin Inside

\* The default mode does not bind /tmp.
TmpFree ==
  is_running \in {"STARTING", "RUNNING", "FAILED"} /\ use_default
    => Tmp \notin Range(sources)

StartedInv == RootsMade /\ Accepted /\ TmpFree /\ DirectoriesReady /\ NoConflictingMounts

\* A call that leaves the modes and their directories alone, before the start.
LEMMA StartedOpen ==
  ASSUME StartedInv, is_running = "NOT_RUNNING", is_running' = is_running,
         UNCHANGED <<mode, modeVars, dirVars>>
  PROVE  StartedInv'
BY DEF StartedInv, RootsMade, Accepted, TmpFree, DirectoriesReady, NoConflictingMounts, modeVars, dirVars

\* Nothing that counts changes once the sandbox is started.
LEMMA StartedStutter ==
  ASSUME StartedInv,
         UNCHANGED <<mode, env, is_running, modeVars, dirVars, sources, writable_files,
                     working_dir, parents_writable, created, light>>
  PROVE  StartedInv'
BY DEF StartedInv, RootsMade, Accepted, TmpFree, DirectoriesReady, NoConflictingMounts, modeVars, dirVars,
       CanonicPath, WritableParents, Written, Exists, Range

\* Nothing is promised of a run that has no sandbox.
LEMMA StartedNever ==
  ASSUME is_running' \in {"DIED", "USAGE", "DIRECT"}
  PROVE  StartedInv'
BY DEF StartedInv, RootsMade, Accepted, TmpFree, DirectoriesReady, NoConflictingMounts

\* The default mode's directories are made in the same place.
LEMMA DefaultBoth ==
  sandbox_root.base = NoPath => CreateSandboxRoot(Tmp).dir = CreateOverlayfsDir(Tmp).dir
<1>1. CanonicPath(Tmp, TRUE) \in Dirs \cup Fresh
  BY OptionsAssumption DEF CanonicPath
<1> QED
  BY <1>1 DEF CreateSandboxRoot, CreateOverlayfsDir, ValidateDirAndCreate

LEMMA DefaultStarted ==
  ASSUME ModeInv, StartedInv, MiniSbxSetupDefault, mode = "CLI" => sandbox_root'.exists
  PROVE  StartedInv'
<1>0. is_running = "NOT_RUNNING" /\ is_running' = is_running /\ mode' = mode
  BY DEF MiniSbxSetupDefault, Call
<1>1. CASE hermetic \/ use_overlayfs
  BY <1>0, <1>1, StartedOpen DEF MiniSbxSetupDefault
<1>2. CASE ~hermetic /\ ~use_overlayfs
  <2>1. sandbox_root.base = NoPath /\ tmp_overlayfs = NoDir
    BY <1>2 DEF ModeInv, Ownership
  <2>2. tmp_overlayfs'.exists => sandbox_root'.exists
    BY <1>2, <2>1, DefaultBoth, NothingIsMade DEF MiniSbxSetupDefault, dirVars
  <2> QED
    BY <1>0, <2>2 DEF StartedInv, RootsMade, Accepted, TmpFree, DirectoriesReady, NoConflictingMounts
<1> QED BY <1>1, <1>2

LEMMA HermeticStarted ==
  ASSUME NEW r, ModeInv, StartedInv, MiniSbxSetupHermetic(r),
         mode = "CLI" => sandbox_root'.exists
  PROVE  StartedInv'
<1>0. /\ is_running = "NOT_RUNNING" /\ is_running' = is_running /\ mode' = mode
      /\ UNCHANGED <<use_default, tmp_overlayfs>>
      /\ sandbox_root' = CreateSandboxRoot(r).dir
  BY DEF MiniSbxSetupHermetic, Call
<1>1. tmp_overlayfs'.exists /\ use_default' => sandbox_root'.exists
  <2>1. CASE sandbox_root.base = NoPath
    BY <1>0, <2>1, NothingIsMade DEF ModeInv, Ownership
  <2>2. CASE sandbox_root.base # NoPath
    BY <1>0, <2>2, RootOutcome DEF StartedInv, RootsMade
  <2> QED BY <2>1, <2>2
<1> QED
  BY <1>0, <1>1 DEF StartedInv, RootsMade, Accepted, TmpFree, DirectoriesReady, NoConflictingMounts

\* The options MiniSbxStart accepts are the ones pid1 gets.
LEMMA StartStarted ==
  ASSUME ModeInv, StartedInv, MiniSbxStart
  PROVE  StartedInv'
<1>0. /\ is_running = "NOT_RUNNING" /\ is_running' = "STARTING"
      /\ UNCHANGED <<mode, env, use_default, use_overlayfs, hermetic, writable_files,
                     sandbox_root, tmp_overlayfs>>
      /\ working_dir' = StartDir /\ sources' = WithEtc(sources)
      /\ ValidateOptions(working_dir', sources')
      /\ MiniSbxCreateInit
  BY DEF MiniSbxStart, Prepare, modeVars, dirVars
<1>1. /\ Range(sources') \cap writable_files = {}
      /\ use_default => Tmp \notin Range(sources')
  BY <1>0 DEF ValidateOptions, ValidateReadWritePaths, ValidateTmpNotRemounted
<1>2. /\ use_overlayfs =>
           /\ tmp_overlayfs.exists
           /\ <<CanonicPath(working_dir', TRUE), tmp_overlayfs.base>> \notin Inside
      /\ hermetic =>
           /\ sandbox_root.exists
           /\ <<CanonicPath(working_dir', TRUE), sandbox_root.base>> \notin Inside
      /\ env # "privileged" /\ use_overlayfs =>
           \A w \in writable_files : <<CanonicPath(w, TRUE), tmp_overlayfs.base>> \notin Inside
  BY <1>0 DEF ValidateOptions, ValidateOverlayOutOfFolder
<1>3. use_overlayfs => sandbox_root.exists
  <2>1. CASE mode = "CLI" \/ use_default
    BY <1>0, <1>2, <2>1 DEF StartedInv, RootsMade
  <2>2. CASE ~use_default
    BY <1>0, <1>2, <2>2, NothingIsMade DEF MiniSbxCreateInit, ModeInv, Ownership
  <2> QED BY <2>1, <2>2
<1>4. Range(sources)' = Range(sources')
  BY DEF Range
<1>5. Accepted'
  BY <1>0, <1>1, <1>2, <1>3, <1>4 DEF Accepted, CanonicPath
<1> QED
  BY <1>0, <1>1, <1>4, <1>5
  DEF StartedInv, RootsMade, TmpFree, DirectoriesReady, NoConflictingMounts

\* What a list with the canonical names has no name of, it does not hold.
LEMMA ApartByName ==
  ASSUME NEW X, NEW Y, Closed(X), Closed(Y), X \cap Y = {}, NEW x \in X, NEW y \in Y,
         x \notin Symlinks, y \notin Symlinks
  PROVE  CanonicPath(x, TRUE) # CanonicPath(y, TRUE)
<1>1. CanonicPath(x, TRUE) \in X /\ CanonicPath(y, TRUE) \in Y
  BY DEF CanonicPath, Closed
<1> QED BY <1>1

\* pid1 adds to what was accepted only where the properties say so.
LEMMA InitDoneStarted ==
  ASSUME StartedInv, ClosedInv, InitDone
  PROVE  StartedInv'
<1>0. /\ is_running = "STARTING" /\ is_running' = "RUNNING"
      /\ UNCHANGED <<mode, env, use_default, use_overlayfs, hermetic, sandbox_root,
                     tmp_overlayfs, sources, working_dir, parents_writable, created>>
  BY DEF InitDone, modeVars, dirVars, miscVars
<1>1. \/ writable_files' = writable_files
      \/ WritableParents'
      \/ /\ ~use_overlayfs /\ ~hermetic
         /\ writable_files' = writable_files \cup Written(Tmp)
  <2>1. CASE WithTmp
    BY <2>1 DEF WithTmp, WritableParents
  <2>2. CASE WithParents
    <3>1. PICK dirs \in SUBSET Dirs :
            /\ dirs # {} => use_default
            /\ \/ /\ parents_writable
                  /\ writable_files' = writable_files \cup UNION {Written(d) : d \in dirs}
               \/ writable_files' = writable_files
      BY <2>2 DEF WithParents
    <3>2. CASE dirs = {}
      BY <3>1, <3>2
    <3>3. CASE dirs # {}
      BY <1>0, <3>1, <3>3 DEF WritableParents
    <3> QED BY <3>2, <3>3
  <2> QED BY <2>1, <2>2 DEF InitDone
<1>2. Written(Tmp)' = Written(Tmp) /\ Range(sources)' = Range(sources)
  BY <1>0 DEF Written, Exists, CanonicPath, Range
<1>3. NoConflictingMounts'
  <2> SUFFICES ASSUME NEW r \in Range(sources), NEW w \in writable_files',
                      CanonicPath(r, TRUE) = CanonicPath(w, TRUE),
                      r \notin Symlinks, w \notin Symlinks, ~WritableParents'
               PROVE  ~use_overlayfs /\ ~hermetic /\ w \in Written(Tmp)
    BY <1>0, <1>2 DEF NoConflictingMounts, CanonicPath
  <2>1. w \notin writable_files
    BY <1>0, ApartByName DEF StartedInv, Accepted, ClosedInv
  <2> QED BY <1>1, <2>1
<1>4. DirectoriesReady'
  BY <1>0, <1>1 DEF StartedInv, Accepted, DirectoriesReady, CanonicPath
<1>5. TmpFree'
  BY <1>0, <1>2 DEF StartedInv, TmpFree
<1> QED
  BY <1>0, <1>3, <1>4, <1>5 DEF StartedInv, RootsMade, Accepted

LEMMA FailsStarted ==
  ASSUME StartedInv, SetupFails
  PROVE  StartedInv'
<1>1. /\ is_running = "STARTING" /\ is_running' = "FAILED"
      /\ UNCHANGED <<use_default, sources>>
  BY DEF SetupFails, modeVars, mountVars
<1>2. Range(sources)' = Range(sources)
  BY <1>1 DEF Range
<1> QED
  BY <1>1, <1>2 DEF StartedInv, RootsMade, Accepted, TmpFree, DirectoriesReady,
     NoConflictingMounts

LEMMA StartedStep ==
  ModeInv /\ NamesInv /\ StartedInv /\ [Next]_vars => StartedInv'
<1> SUFFICES ASSUME ModeInv, NamesInv, StartedInv, [Next]_vars PROVE StartedInv'
  OBVIOUS
<1>1. CASE mode = "Library" /\ SetupCall
  <2>1. ASSUME NEW o \in SetupArgs, NEW r \in SetupArgs, MiniSbxSetupCustom(o, r)
        PROVE  StartedInv'
    <3>0. /\ is_running = "NOT_RUNNING" /\ is_running' = is_running /\ mode' = mode
          /\ use_default' = use_default
      BY <2>1 DEF MiniSbxSetupCustom, Call
    <3>1. CASE use_default
      BY <2>1, <3>0, <3>1, StartedOpen
      DEF MiniSbxSetupCustom, MiniSbxSetupSandboxRootWithOverlay, modeVars
    <3>2. CASE ~use_default
      BY <1>1, <3>0, <3>2 DEF StartedInv, RootsMade, Accepted, TmpFree, DirectoriesReady, NoConflictingMounts
    <3> QED BY <3>1, <3>2
  <2> QED BY <1>1, <2>1, DefaultStarted, HermeticStarted DEF SetupCall
<1>2. CASE MountCall \/ \E p \in PathArgs : MountFlag(p)
  BY <1>2, StartedOpen DEF MountCall, MountFlag, MiniSbxMountBind, MiniSbxMountWrite,
     MiniSbxMountTmpfs, MiniSbxMountOverlay, MiniSbxMountEmptyOutputFile, Call
<1>3. CASE \/ LogFlag \/ \E usable \in BOOLEAN : MiniSbxEnableLog(usable)
           \/ \E p \in PathArgs : MiniSbxSetWorkingDir(p) \/ WorkingDirFlag(p)
           \/ MiniSbxMountParentsWrite
           \/ NetFlag("NETNS", "NO_NETNS") \/ NetFlag("NO_NETNS", "NETNS")
  BY <1>3, StartedOpen DEF LogFlag, MiniSbxEnableLog, MiniSbxSetWorkingDir,
     MiniSbxMountParentsWrite, WorkingDirFlag, NetFlag, Parsing, Call
<1>4. CASE MiniSbxShareNetNamespace
  BY <1>4, StartedStutter DEF MiniSbxShareNetNamespace, mountVars
<1>5. CASE StartWithoutLog \/ StartReturns
  BY <1>5, StartedOpen DEF StartWithoutLog, StartReturns, Prepare, Call
<1>6. CASE MiniSbxStart
  BY <1>6, StartStarted
<1>7. CASE SetupFlag
  BY <1>7, DefaultStarted, HermeticStarted DEF SetupFlag
<1>8. ASSUME NEW dir \in SetupArgs, RootFlag(dir) PROVE StartedInv'
  BY <1>8 DEF RootFlag, Parsing, Call, MiniSbxSetupSandboxRootWithOverlay, StartedInv,
     RootsMade, Accepted, TmpFree, DirectoriesReady, NoConflictingMounts
<1>9. ASSUME NEW dir \in SetupArgs, OverlayFlag(dir) PROVE StartedInv'
  <2>1. /\ mode = "CLI" /\ use_overlayfs /\ is_running = "NOT_RUNNING"
        /\ UNCHANGED <<mode, is_running, sandbox_root>>
    BY <1>9 DEF OverlayFlag
  <2> QED
    BY <2>1 DEF StartedInv, RootsMade, Accepted, TmpFree, DirectoriesReady, NoConflictingMounts
<1>10. CASE Dies \/ Usage \/ RunsDirectly
  BY <1>10, StartedNever DEF Dies, Usage, RunsDirectly
<1>11. CASE UNCHANGED vars
  BY <1>11, StartedStutter DEF vars, mountVars, miscVars
<1>12. CASE InitDone
  BY <1>12, InitDoneStarted DEF InitDone, NamesInv
<1>13. CASE SetupFails
  BY <1>13, FailsStarted
<1> QED
  BY <1>1, <1>2, <1>3, <1>4, <1>5, <1>6, <1>7, <1>8, <1>9, <1>10, <1>11, <1>12, <1>13
  DEF Next, LibraryCall, ParseCommandLine, ToolStart, OtherCall, StartCall, Finished

LEMMA StartedInvariant == Spec => []StartedInv
<1>1. Init => StartedInv
  BY DEF Init, StartedInv, RootsMade, Accepted, TmpFree, DirectoriesReady, NoConflictingMounts
<1> QED BY <1>1, ModeInvariant, ClosedInvariant, StartedStep, PTL DEF Spec

\* Whatever calls or flags came before, a sandbox only runs with the directories
\* of its mode, and the overlay's is out of reach of what may be written, unless
\* pid1 adds a directory above the working directory to that.
THEOREM DirectoriesSafety == Spec => []DirectoriesReady
<1>1. StartedInv => DirectoriesReady
  BY DEF StartedInv
<1> QED BY <1>1, StartedInvariant, PTL

\* Nothing that a running sandbox mounts read-only is writable too, under any of
\* its names but a symbolic link's: the lists MiniSbxStart compares, its own /etc
\* included, hold the canonical names.  What pid1 adds afterwards is excepted.
THEOREM MountsSafety == Spec => []NoConflictingMounts
<1>1. StartedInv => NoConflictingMounts
  BY DEF StartedInv
<1> QED BY <1>1, StartedInvariant, PTL

\* MountAllMounts finds the target of each source at its index, however many
\* links MountHomeSymlinks has found and whichever of them were there already.
THEOREM PairingSafety == Spec => []MountsPaired
<1>1. ListInv /\ StartedInv => MountsPaired
  <2> SUFFICES ASSUME ListInv, StartedInv, is_running \in {"STARTING", "RUNNING", "FAILED"},
                      \A p \in Names : SbxTmp \notin Range(Links[p])
               PROVE  /\ Len(sources) = Len(targets)
                      /\ \A i \in DOMAIN sources :
                           targets[i] = IF sources[i] = SbxTmp /\ targets[i] = Tmp
                                        THEN Tmp ELSE sources[i]
    BY DEF MountsPaired
  <2>1. Tied(sources, targets)
    <3>1. CASE use_default
      BY <3>1 DEF ListInv, StartedInv, TmpFree, Pair
    <3>2. CASE ~use_default
      <4>1. targets = sources
        BY <3>2 DEF ListInv
      <4> QED BY <4>1 DEF Tied
    <3> QED BY <3>1, <3>2
  <2>2. DOMAIN sources = 1..Len(sources)
    BY DEF ListInv, Paths
  <2> QED BY <2>1, <2>2 DEF Tied
<1> QED BY <1>1, ListInvariant, StartedInvariant, PTL

-----------------------------------------------------------------------------
(* Types.  That made is not negative needs a count of the directories even  *)
(* where one of them is forgotten.                                         *)

MadeCount == made >= One(sandbox_root) + One(tmp_overlayfs)

LEMMA CleanupCount ==
  ASSUME ModeInv, MadeCount, Cleanup, hermetic' = hermetic
  PROVE  MadeCount'
<1>1. CASE UNCHANGED dirVars
  BY <1>1 DEF MadeCount, dirVars, One
<1>2. CASE
     /\ sandbox_root' = Removed(sandbox_root)
     /\ tmp_overlayfs' = IF hermetic THEN tmp_overlayfs ELSE Removed(tmp_overlayfs)
     /\ made' = made - One(sandbox_root) - (IF hermetic THEN 0 ELSE One(tmp_overlayfs))
  <2>1. /\ One(sandbox_root') = 0
        /\ One(tmp_overlayfs') = IF hermetic THEN One(tmp_overlayfs) ELSE 0
    BY <1>2, RemovedDir DEF ModeInv, ModeType
  <2>2. made \in Int
    BY DEF ModeInv, ModeType
  <2> QED BY <1>2, <2>1, <2>2, OneIsInt DEF MadeCount
<1> QED BY <1>1, <1>2 DEF Cleanup

LEMMA CountStep == ModeInv /\ ModeInv' /\ MadeCount /\ [Next]_vars => MadeCount'
<1> SUFFICES ASSUME ModeInv, ModeInv', MadeCount, [Next]_vars PROVE MadeCount'
  OBVIOUS
<1>1. CASE ~again'
  BY <1>1, OneIsInt DEF ModeInv, NoDirectoryLost, MadeCount
<1>2. CASE again' /\ UNCHANGED dirVars
  BY <1>2 DEF MadeCount, dirVars, One
\* The one step that forgets a directory.
<1>3. ASSUME NEW dir, OverlayFlag(dir) PROVE MadeCount'
  <2>1. /\ made' = made + 1 /\ sandbox_root' = sandbox_root
        /\ tmp_overlayfs'.exists
    BY <1>3 DEF OverlayFlag
  <2>2. One(tmp_overlayfs') = 1 /\ One(sandbox_root') = One(sandbox_root)
    BY <2>1 DEF One
  <2>3. One(tmp_overlayfs) >= 0 /\ made \in Int
    BY DEF One, ModeInv, ModeType
  <2> QED BY <2>1, <2>2, <2>3, OneIsInt DEF MadeCount
<1>4. CASE SetupFails \/ Dies
  <2>1. hermetic' = hermetic
    BY <1>4 DEF SetupFails, Dies, modeVars
  <2> QED BY <1>4, <2>1, CleanupCount DEF SetupFails, Dies
\* A tool that got -d twice has its root, and no other call gets another.
<1>5. ASSUME again PROVE sandbox_root.base # NoPath /\ use_overlayfs /\ mode = "CLI"
  BY <1>5, NothingIsMade DEF ModeInv, Ownership, NoDirectoryLost
<1>6. CASE again' /\ (SetupFlag \/ (mode = "Library" /\ SetupCall))
  <2>1. again' = again
    BY <1>6 DEF SetupFlag, SetupCall, MiniSbxSetupDefault, MiniSbxSetupCustom,
                MiniSbxSetupHermetic, Call
  <2>2. SetupFlag
    BY <1>5, <1>6, <2>1
  <2>3. MiniSbxSetupDefault
    BY <1>5, <1>6, <2>1, <2>2 DEF SetupFlag
  <2>4. UNCHANGED dirVars
    BY <1>5, <1>6, <2>1, <2>3 DEF MiniSbxSetupDefault
  <2> QED BY <1>2, <1>6, <2>4
<1>7. ASSUME NEW dir, again', RootFlag(dir) PROVE MadeCount'
  <2>1. again' = again /\ CreateSandboxRoot(dir).ok
    BY <1>7 DEF RootFlag, Parsing, Call
  <2> QED BY <1>5, <1>7, <2>1, RootOutcome
<1>8. CASE MountCall \/ \E p \in PathArgs : MountFlag(p)
  <2>1. UNCHANGED dirVars
    BY <1>8 DEF MountCall, MountFlag, MiniSbxMountBind, MiniSbxMountWrite,
       MiniSbxMountTmpfs, MiniSbxMountOverlay, MiniSbxMountEmptyOutputFile
  <2> QED BY <1>1, <1>2, <2>1
<1>9. CASE \/ LogFlag \/ \E usable \in BOOLEAN : MiniSbxEnableLog(usable)
           \/ \E p \in PathArgs : MiniSbxSetWorkingDir(p) \/ WorkingDirFlag(p)
           \/ MiniSbxMountParentsWrite \/ MiniSbxShareNetNamespace
           \/ NetFlag("NETNS", "NO_NETNS") \/ NetFlag("NO_NETNS", "NETNS")
           \/ StartWithoutLog \/ StartReturns \/ MiniSbxStart \/ RunsDirectly \/ Usage
           \/ InitDone \/ UNCHANGED vars
  <2>1. UNCHANGED dirVars
    BY <1>9 DEF LogFlag, MiniSbxEnableLog, MiniSbxSetWorkingDir, WorkingDirFlag,
       MiniSbxMountParentsWrite, MiniSbxShareNetNamespace, NetFlag, StartWithoutLog,
       StartReturns, MiniSbxStart, RunsDirectly, Usage, InitDone, vars
  <2> QED BY <1>1, <1>2, <2>1
<1> QED
  BY <1>1, <1>3, <1>4, <1>6, <1>7, <1>8, <1>9
  DEF Next, LibraryCall, ParseCommandLine, ToolStart, OtherCall, StartCall, Finished

\* The settings that no other invariant is about.
SettingsType ==
  /\ mode \in {"Library", "CLI"}
  /\ env \in {"host", "nested", "unprivileged", "privileged"}
  /\ working_dir \in (IF mode = "Library" THEN DirNames ELSE Names) \cup {NoPath}
  /\ debug_path \in {"unset", "usable", "unusable"}
  /\ create_netns \in {"NETNS_WITH_LOOPBACK", "NO_NETNS", "NETNS"}
  /\ parents_writable \in BOOLEAN
  /\ is_running \in {"NOT_RUNNING", "STARTING", "RUNNING", "FAILED", "DIED", "USAGE",
                     "DIRECT"}
  /\ calls \in 0..MaxCalls

MountSetsType ==
  /\ writable_files \subseteq Names
  /\ tmpfs_dirs \subseteq DirNames
  /\ overlayfsmount \subseteq Names
  /\ created \subseteq Absent
  /\ light \in BOOLEAN

LEMMA SettingsStutter ==
  ASSUME SettingsType, UNCHANGED <<mode, env, miscVars, is_running>>, calls' \in 0..MaxCalls
  PROVE  SettingsType'
BY DEF SettingsType, miscVars

LEMMA MountSetsStutter ==
  ASSUME MountSetsType, UNCHANGED <<writable_files, tmpfs_dirs, overlayfsmount, created, light>>
  PROVE  MountSetsType'
BY DEF MountSetsType

\* An argument and its canonical name are names of files.
LEMMA ArgumentNames ==
  ASSUME NEW p \in PathArgs
  PROVE  p \in Names /\ CanonicPath(p, FALSE) \in Names
BY OptionsAssumption DEF CanonicPath, Names

\* A symbolic link to a directory keeps its name.
LEMMA DirectoryNames ==
  ASSUME NEW p \in PathArgs, ValidateDirPath(p)
  PROVE  CanonicPath(p, FALSE) \in DirNames
BY OptionsAssumption DEF ValidateDirPath, CanonicPath, DirNames

LEMMA WrittenNames ==
  ASSUME NEW p \in Names
  PROVE  Written(p) \subseteq Names
<1>1. CanonicPath(p, FALSE) \in Names
  BY OptionsAssumption DEF CanonicPath, Names
<1> QED BY <1>1, LinksOf DEF Written

LEMMA MountSetsStep == MountSetsType /\ [Next]_vars => MountSetsType'
<1> SUFFICES ASSUME MountSetsType, [Next]_vars PROVE MountSetsType'
  OBVIOUS
<1>1. CASE SetupCall \/ SetupFlag
  <2>1. CASE MiniSbxSetupDefault
    <3>1. Rng \in Names
      BY OptionsAssumption DEF Names
    <3> QED
      BY <2>1, <3>1 DEF MiniSbxSetupDefault, SetupDefaultMounts, Call, mountVars, MountSetsType
  <2>2. ASSUME NEW o, NEW r, MiniSbxSetupCustom(o, r) PROVE MountSetsType'
    BY <2>2, MountSetsStutter DEF MiniSbxSetupCustom, mountVars, Call
  <2>3. ASSUME NEW r, MiniSbxSetupHermetic(r) PROVE MountSetsType'
    BY <2>3, MountSetsStutter DEF MiniSbxSetupHermetic, mountVars, Call
  <2> QED BY <1>1, <2>1, <2>2, <2>3 DEF SetupCall, SetupFlag
<1>2. ASSUME NEW p \in PathArgs, MiniSbxMountBind(p) PROVE MountSetsType'
  BY <1>2, MountSetsStutter DEF MiniSbxMountBind, Call
<1>3. ASSUME NEW p \in PathArgs, MiniSbxMountWrite(p) PROVE MountSetsType'
  BY <1>3, ArgumentNames, WrittenNames DEF MiniSbxMountWrite, Call, MountSetsType
<1>4. ASSUME NEW p \in PathArgs, MiniSbxMountTmpfs(p) PROVE MountSetsType'
  BY <1>4, DirectoryNames DEF MiniSbxMountTmpfs, Call, MountSetsType
<1>5. ASSUME NEW p \in PathArgs, MiniSbxMountOverlay(p) PROVE MountSetsType'
  <2>1. CanonicPath(p, FALSE) # p => Cut[p] \in Names
    BY OptionsAssumption DEF Names, CanonicPath
  <2>2. Range(Links[p]) \subseteq Names /\ CanonicPath(p, FALSE) \in Names
    BY ArgumentNames, LinksOf
  <2> QED BY <1>5, <2>1, <2>2 DEF MiniSbxMountOverlay, Call, MountSetsType
<1>6. ASSUME NEW p \in PathArgs, MiniSbxMountEmptyOutputFile(p) PROVE MountSetsType'
  <2>1. Written(CanonicPath(p, FALSE)) \subseteq Names /\ Absent \subseteq Names
    BY ArgumentNames, WrittenNames DEF Names
  <2> QED BY <1>6, <2>1 DEF MiniSbxMountEmptyOutputFile, Call, MountSetsType
<1>7. CASE MountCall \/ \E p \in PathArgs : MountFlag(p)
  BY <1>2, <1>3, <1>4, <1>5, <1>6, <1>7 DEF MountCall, MountFlag
<1>8. CASE \/ LogFlag \/ \E usable \in BOOLEAN : MiniSbxEnableLog(usable)
           \/ \E p \in PathArgs : MiniSbxSetWorkingDir(p) \/ WorkingDirFlag(p)
           \/ MiniSbxMountParentsWrite \/ MiniSbxShareNetNamespace
           \/ NetFlag("NETNS", "NO_NETNS") \/ NetFlag("NO_NETNS", "NETNS")
           \/ \E dir \in SetupArgs : RootFlag(dir) \/ OverlayFlag(dir)
  BY <1>8, MountSetsStutter DEF LogFlag, MiniSbxEnableLog, MiniSbxSetWorkingDir,
     WorkingDirFlag, MiniSbxMountParentsWrite, MiniSbxShareNetNamespace, NetFlag,
     RootFlag, OverlayFlag, Parsing, Call, mountVars
<1>9. CASE \/ StartWithoutLog \/ StartReturns \/ MiniSbxStart \/ RunsDirectly \/ Usage
           \/ Dies \/ SetupFails \/ UNCHANGED vars
  BY <1>9, MountSetsStutter DEF StartWithoutLog, StartReturns, MiniSbxStart, RunsDirectly,
     Prepare, Call, Usage, Dies, SetupFails, vars, mountVars
<1>10. CASE InitDone
  <2>1. Dirs \subseteq Names
    BY OptionsAssumption DEF Names
  <2>2. ASSUME NEW p \in Names \cup {NoPath} PROVE Written(p) \subseteq Names
    <3>1. CASE p \in Names
      BY <3>1, WrittenNames
    <3>2. CASE p = NoPath
      <4>1. ~Exists(p)
        BY <3>2, OptionsAssumption DEF Exists, MountSetsType, Names
      <4> QED BY <4>1 DEF Written
    <3> QED BY <3>1, <3>2
  <2>3. UNCHANGED <<tmpfs_dirs, created>>
    BY <1>10 DEF InitDone
  <2>4. CASE WithTmp
    <3>1. Tmp \in Names
      BY OptionsAssumption DEF Names
    <3>2. writable_files' \subseteq Names
      BY <2>1, <2>2, <2>4, <3>1 DEF WithTmp, MountSetsType
    <3>3. light' \in BOOLEAN
      BY <2>4 DEF WithTmp, MountSetsType
    <3> QED BY <2>3, <2>4, <3>2, <3>3 DEF WithTmp, MountSetsType
  <2>5. CASE WithParents
    <3>1. PICK dirs \in SUBSET Dirs :
            /\ \/ writable_files' = writable_files
               \/ writable_files' = writable_files \cup UNION {Written(d) : d \in dirs}
            /\ \/ overlayfsmount' = overlayfsmount
               \/ overlayfsmount' = overlayfsmount \cup dirs \cup UNION {Range(Links[d]) : d \in dirs}
            /\ light' = light
      BY <2>5 DEF WithParents
    <3>2. \A d \in dirs : d \in Names /\ Written(d) \subseteq Names /\ Range(Links[d]) \subseteq Names
      BY <2>1, <2>2, LinksOf
    <3> QED BY <2>3, <3>1, <3>2 DEF MountSetsType
  <2> QED BY <1>10, <2>4, <2>5 DEF InitDone
<1> QED
  BY <1>1, <1>7, <1>8, <1>9, <1>10
  DEF Next, LibraryCall, ParseCommandLine, ToolStart, OtherCall, StartCall, Finished

LEMMA SettingsStep == SettingsType /\ [Next]_vars => SettingsType'
<1> SUFFICES ASSUME SettingsType, [Next]_vars PROVE SettingsType'
  OBVIOUS
<1>0. ASSUME calls < MaxCalls PROVE calls + 1 \in 0..MaxCalls
  BY <1>0, OptionsAssumption DEF SettingsType
<1>1. CASE SetupCall \/ SetupFlag
  <2>1. CASE MiniSbxSetupDefault
    BY <1>0, <2>1 DEF MiniSbxSetupDefault, Call, SettingsType, miscVars
  <2>2. ASSUME NEW o, NEW r, MiniSbxSetupCustom(o, r) PROVE SettingsType'
    BY <1>0, <2>2, SettingsStutter DEF MiniSbxSetupCustom, Call
  <2>3. ASSUME NEW r, MiniSbxSetupHermetic(r) PROVE SettingsType'
    BY <1>0, <2>3, SettingsStutter DEF MiniSbxSetupHermetic, Call
  <2> QED BY <1>1, <2>1, <2>2, <2>3 DEF SetupCall, SetupFlag
<1>2. CASE MountCall \/ \E p \in PathArgs : MountFlag(p)
  <2>1. Call /\ UNCHANGED miscVars
    BY <1>2 DEF MountCall, MountFlag, MiniSbxMountBind, MiniSbxMountWrite,
       MiniSbxMountTmpfs, MiniSbxMountOverlay, MiniSbxMountEmptyOutputFile
  <2> QED BY <1>0, <2>1, SettingsStutter DEF Call
<1>3. CASE LogFlag \/ \E usable \in BOOLEAN : MiniSbxEnableLog(usable)
  BY <1>0, <1>3 DEF LogFlag, MiniSbxEnableLog, Call, SettingsType
<1>4. ASSUME NEW p \in PathArgs, MiniSbxSetWorkingDir(p) PROVE SettingsType'
  <2>1. DirNames \subseteq Names
    BY OptionsAssumption DEF Names, DirNames
  <2> QED BY <1>0, <1>4, <2>1, DirectoryNames DEF MiniSbxSetWorkingDir, Call, SettingsType
<1>5. ASSUME NEW p \in PathArgs, WorkingDirFlag(p) PROVE SettingsType'
  BY <1>0, <1>5, ArgumentNames DEF WorkingDirFlag, Parsing, Call, SettingsType
<1>6. CASE \/ MiniSbxMountParentsWrite \/ MiniSbxShareNetNamespace
           \/ NetFlag("NETNS", "NO_NETNS") \/ NetFlag("NO_NETNS", "NETNS")
  BY <1>0, <1>6 DEF MiniSbxMountParentsWrite, MiniSbxShareNetNamespace, NetFlag,
     Parsing, Call, SettingsType
<1>7. ASSUME NEW dir, RootFlag(dir) \/ OverlayFlag(dir) PROVE SettingsType'
  BY <1>0, <1>7, SettingsStutter DEF RootFlag, OverlayFlag, Parsing, Call
<1>8. CASE StartWithoutLog
  BY <1>0, <1>8, SettingsStutter DEF StartWithoutLog, Call
\* The working directory of the application is one.
<1>9. CASE StartReturns \/ MiniSbxStart \/ RunsDirectly
  <2>1. Prepare /\ is_running' \in {"NOT_RUNNING", "STARTING", "DIRECT"}
    BY <1>9 DEF StartReturns, MiniSbxStart, RunsDirectly, Prepare
  <2>2. Cwd \in DirNames /\ DirNames \subseteq Names
    BY OptionsAssumption DEF Names, DirNames
  <2>3. working_dir' \in (IF mode = "Library" THEN DirNames ELSE Names) \cup {NoPath}
    BY <2>1, <2>2 DEF Prepare, StartDir, SettingsType
  <2> QED BY <1>0, <2>1, <2>3 DEF Prepare, SettingsType
<1>10. CASE Dies \/ Usage \/ InitDone \/ SetupFails
  BY <1>10 DEF Dies, Usage, InitDone, SetupFails, SettingsType, miscVars
<1>11. CASE UNCHANGED vars
  BY <1>11 DEF vars, SettingsType, miscVars
<1> QED
  BY <1>1, <1>2, <1>3, <1>4, <1>5, <1>6, <1>7, <1>8, <1>9, <1>10, <1>11
  DEF Next, LibraryCall, ParseCommandLine, ToolStart, OtherCall, StartCall, Finished

\* Every option keeps its type, whatever calls or flags there are: the lists
\* hold names of files, and an application's working directory is a directory,
\* or a symbolic link to one.
THEOREM OptionsTypeCorrect == Spec => []TypeOK
<1> DEFINE Types == MadeCount /\ SettingsType /\ MountSetsType
<1>1. Init => Types
  <2> SUFFICES ASSUME Init PROVE Types
    OBVIOUS
  <2>1. MadeCount
    BY NothingIsMade DEF Init, MadeCount
  <2>2. SettingsType
    <3>1. parents_writable \in BOOLEAN
      BY DEF Init
    <3>2. calls \in 0..MaxCalls
      BY OptionsAssumption DEF Init
    <3> QED BY <3>1, <3>2 DEF Init, SettingsType
  <2>3. MountSetsType
    BY DEF Init, MountSetsType
  <2> QED BY <2>1, <2>2, <2>3
<1>2. ModeInv /\ ModeInv' /\ Types /\ [Next]_vars => Types'
  BY CountStep, SettingsStep, MountSetsStep
<1>3. ModeInv /\ ListInv /\ Types => TypeOK
  <2> SUFFICES ASSUME ModeInv, ListInv, Types PROVE TypeOK
    OBVIOUS
  <2>1. made \in Nat
    BY DEF MadeCount, ModeInv, ModeType, One
  <2>2. sources \in Seq(Names) /\ targets \in Seq(Names)
    BY DEF ListInv, Paths
  <2> QED
    BY <2>1, <2>2 DEF TypeOK, ModeInv, ModeType, SettingsType, MountSetsType
<1> HIDE DEF Types
<1> QED BY <1>1, <1>2, <1>3, ModeInvariant, ListInvariant, PTL DEF Spec

=============================================================================
