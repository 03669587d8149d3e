SPECIFICATION FairSpec
CONSTANTS MaxComponents = 3
          MaxLevels = 2
          MaxPerLevel = 2
          InManagerContext = {1}
INVARIANTS ReportedLevelIsReached TransitionsInOrder OneLevelAtATime ExecutorsFit NothingForgotten
PROPERTIES ImplementsLevels TargetReached
