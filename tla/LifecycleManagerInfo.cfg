\* Two components of one level, in contexts that preempt each other.
SPECIFICATION Spec
CONSTANTS MaxComponents = 2
          MaxLevels = 1
          MaxPerLevel = 2
          InManagerContext = {}
INVARIANT InfoMatchesExecutors
