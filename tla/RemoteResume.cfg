CONSTANTS
  Dir = Dir NoFile = NoFile EmptyFile = EmptyFile Garbage = Garbage
  ServerBuffer = 2
  LocalDirExists = TRUE
  MaxSessions = 2
  MaxCuts = 0
  MaxKills = 1
  MaxErrors = 0
  Tasks <- DirAndFile
  ResumeModes <- OnlyResume
SPECIFICATION FairSpec
PROPERTY ResumeRunEnds
CHECK_DEADLOCK FALSE
