SPECIFICATION Spec
CONSTANTS
  Dirs <- MCDirs
  Files <- MCFiles
  Special <- MCSpecial
  NameStarts <- MCNameStarts
  home_dir <- u
  sandbox_root <- MCRoot
  tmp_overlayfs <- MCOverlay
  Machines <- MCMachines
  Options <- MCOptions
INVARIANTS
  TypeOK
  RestProtected
  GrantsArrive
  BindsReadOnly
  HomeEmpty
  OverlaysShown
  TmpfsHides
  DiesWithReason
