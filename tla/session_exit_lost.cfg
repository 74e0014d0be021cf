SPECIFICATION FairSpec
CONSTANTS
  cmd = cmd
  notepad = notepad
  Sessions = {cmd, notepad}
  Consoles = {cmd}
  PipeSize = 2
  MaxWrites <- TwoOrOne
  MaxJobs = 1
CHECK_DEADLOCK FALSE
PROPERTY ExitReported
