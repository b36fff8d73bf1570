SPECIFICATION Spec
CONSTANTS
  tmp = tmp
  sbxtmp = sbxtmp
  etc = etc
  var = var
  rng = rng
  home = home
  proj = proj
  link = link
  dots = dots
  none = none
  rel = rel
  fresh = fresh
  Real <- MCReal
  Dirs <- MCDirs
  Alias = {link, dots}
  Symlinks = {link}
  Canon <- MCCanon
  Cut <- MCCut
  Absent = {none}
  Relative = {rel}
  Fresh = {fresh}
  Unwritable = {var}
  Inside <- MCInside
  Links <- MCLinks
  Tmp = tmp
  SbxTmp = sbxtmp
  Etc = etc
  Rng = rng
  Defaults <- MCDefaults
  Cwd = proj
  NoPath = NoPath
  SetupArgs = {tmp, proj, var, rng, fresh}
  PathArgs = {etc, tmp, link, dots, none, rel}
  MaxCalls = 4
INVARIANTS
  TypeOK
  OneModeAccepted
  NoDirectoryLost
  DirectoriesReady
  NoConflictingMounts
  MountsPaired
