SPECIFICATION FairSpec
CONSTANTS t1 = t1
          t2 = t2
          Timeouts = {t1, t2}
          Runnables = {r1, r2}
          CallerOf <- LowAndOwn
          NoTimeout = NoTimeout
          Modulus = 8
          MaxDelay = 2
          MaxLate = 1
          MaxClock = 8
          TickLength = 2
          WaitTicks = 2
          MaxCalls = 3
INVARIANTS NoLostRunnable WakesForTimeout
PROPERTIES RunnableIsExecuted TimeoutIsServed
CHECK_DEADLOCK FALSE
