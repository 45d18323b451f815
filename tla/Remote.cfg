CONSTANTS
  Dir = Dir NoFile = NoFile EmptyFile = EmptyFile Garbage = Garbage
  ServerBuffer = 1
  LocalDirExists = TRUE
  MaxSessions = 2
  MaxCuts = 1
  MaxKills = 1
  MaxErrors = 1
  Tasks <- DirAndFile
  ResumeModes <- FullOrResume
SPECIFICATION FairSpec
INVARIANTS TypeOK AckSound StoredIsBeginning
PROPERTIES RunEnds WorkersFreed
CHECK_DEADLOCK FALSE
