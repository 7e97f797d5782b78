CONSTANTS
  Threads = {t1, t2, t3, t4}
  Resources = {r1, r2}
  NoThread = NoThread
SPECIFICATION FairSpec
INVARIANT LockIsSafe
PROPERTY SomeoneIsServed
