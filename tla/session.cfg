SPECIFICATION FairSpec
CONSTANTS
  cmd = cmd
  notepad = notepad
  Sessions = {cmd, notepad}
  Consoles = {cmd}
  PipeSize = 1
  MaxWrites <- TwoOrOne
  MaxJobs = 1
CHECK_DEADLOCK FALSE
INVARIANTS
  TypeOK
  AccountedFor
  
  ExitCodeShown
PROPERTIES
  OutputArrives
