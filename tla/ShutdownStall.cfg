SPECIFICATION FairSpec
CONSTANTS
  Threads = {t1, t2, t3}
  Main = main
PROPERTY
  RunningThreadsStop
CHECK_DEADLOCK FALSE
