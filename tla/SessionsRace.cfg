CONSTANTS
  c1 = c1  c2 = c2  kx = kx  ky = ky  home = home  team = team
  Unlocked = Unlocked
  Conns = {c1, c2}
  Keys = {kx, ky}
  DefaultWS = home
  Modes = {"open"}
  Credentials <- OneWorkspace
  Requests <- WatchCmds
  MaxCommands = 6
  IntMax = 1
  Unparsable = 9
SPECIFICATION Spec
PROPERTIES ExecAbortsOnChange
