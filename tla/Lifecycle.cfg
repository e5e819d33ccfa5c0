CONSTANT Loops = {l1, l2, l3}
SPECIFICATION FairSpec
INVARIANTS TypeOK OneWatchdog CrashNeedsRestart
PROPERTY ToldLoopsEnd
CHECK_DEADLOCK FALSE
