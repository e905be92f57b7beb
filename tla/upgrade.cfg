CONSTANTS
  Libs = {lib}
  Execs = {cli, executor}
  Cli = cli
  Scripts = {p1, p2}
  MaxJournal = 2
  Unfinished = {1}
  MaxCrashes = 2
  None = None
SPECIFICATION FairSpec
INVARIANTS TypeOK PublicationIsOrdered JournalsFollow
PROPERTIES KeepsContract Completes
CHECK_DEADLOCK FALSE
