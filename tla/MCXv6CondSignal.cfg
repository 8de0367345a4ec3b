SPECIFICATION Spec
CONSTANTS
  Parent = parent
  Children = {c1}
  Count = 4
  CountLimit = 2
  NoProc = noproc
PROPERTIES SignalAwakes
CHECK_DEADLOCK FALSE
