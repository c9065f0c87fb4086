\* Two processes, two workers each; a cutover and its rollback or recovery, or
\* one of them and a write by hand.
SPECIFICATION FairSpec
CONSTANTS
  Processes = {s1, s2}
  Ops = {o1, o2}
  Script = script
  Nobody = nobody
  NoDoc = noDoc
  MaxEdition = 2
INVARIANTS TypeOK LockCoversDatabase StartsFresh
PROPERTIES DocumentStill LockReleased
