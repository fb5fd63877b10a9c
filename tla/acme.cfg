\* Workers of one cluster share the cache directory; the CA, the disk and a process fail once.
SPECIFICATION FairSpec
CONSTANTS
  w1 = w1  w2 = w2  w3 = w3
  Workers = {w1, w2}
  Nobody = Nobody
  MaxFailures = 1
  MaxFaults = 2
  MaxCrashes = 1
INVARIANTS FirstOrderNeeded SleepsUnlocked
PROPERTIES AccountKept EveryoneServed
