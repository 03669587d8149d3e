SPECIFICATION Spec
CONSTANTS t1 = t1
          t2 = t2
          Timeouts = {t1}
          Runnables = {r1}
          CallerOf <- AllHigh
          NoTimeout = NoTimeout
          Modulus = 14
          MaxDelay = 2
          MaxLate = 2
          MaxClock = 11
          TickLength = 2
          WaitTicks = 2
          MaxCalls = 2
INVARIANT CancelledIsInactive
CHECK_DEADLOCK FALSE
