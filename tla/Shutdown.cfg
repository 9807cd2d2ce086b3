SPECIFICATION FairSpec
CONSTANTS
  Threads = {t1, t2, t3}
  Main = main
INVARIANTS
  TypeOK CountExact QuietBeforeClose CrashNeedsLateThread StallNeedsThirdThread
PROPERTIES
  StallIsPermanent StopConverges
CHECK_DEADLOCK FALSE
