------------------------ MODULE LifecycleManagerProofs ------------------------
(***************************************************************************)
(* The safety properties of LifecycleManager, for every number of          *)
(* components and levels and every assignment of components to contexts.   *)
(***************************************************************************)
EXTENDS LifecycleManager, TLAPS

\* addComponent() leaves ascending indices; the levels above the last
\* registered one have the index 0 and hence no components.
RegistryInv ==
  /\ levelIndices[0] = 0
  /\ levelIndices[levelCount] = componentCount
  /\ \A a, b \in 0 .. levelCount : a <= b => levelIndices[a] <= levelIndices[b]
  /\ \A l \in 0 .. MaxLevels : l > levelCount => levelIndices[l] = 0
  /\ \A l \in Levels : levelIndices[l] - levelIndices[l - 1] <= MaxPerLevel

\* How the level counters and the place in execute() determine each other.
ControlInv ==
  /\ currentLevel <= initLevelCount
  /\ isTransitionPending =>
       /\ transitionLevel \in Levels
       /\ transition = "INIT" => transitionLevel = initLevelCount /\ currentLevel + 1 = initLevelCount
       /\ transition = "RUN" => transitionLevel = currentLevel
       /\ transition = "SHUTDOWN" => transitionLevel = currentLevel + 1 /\ currentLevel < initLevelCount
  /\ pc = "start" => isTransitionPending
  /\ pc \in {"notify", "choose"} => ~isTransitionPending
  /\ pc = "notify" => reported # "INIT"
  /\ ~isTransitionPending => size = 0
  /\ ~started => /\ pc = "idle" /\ ~isTransitionPending /\ ~enqueued
                 /\ initLevelCount = 0 /\ currentLevel = 0 /\ targetLevel = 0
                 /\ calls = {}
                 /\ \A c \in Components : life[c] = "none"

\* The executors stand for the first components of the level, in order, and for
\* all of them once the loop of execute() has ended.
ExecutorInv ==
  /\ \A k \in 1 .. size :
       /\ slot[k].component = levelIndices[transitionLevel - 1] + k - 1
       /\ slot[k].component < levelIndices[transitionLevel]
       /\ slot[k].transition = transition
  /\ isTransitionPending /\ pc # "start" =>
       levelIndices[transitionLevel - 1] + size >= levelIndices[transitionLevel]

\* What a component must have completed to be asked for transition t.
Before(t) == CASE t = "INIT" -> {"none"}
               [] t = "RUN" -> {"initialized", "stopped"}
               [] t = "SHUTDOWN" -> {"running"}

\* Component c of the level in transition has answered.
Answered(c) ==
  LET k == c - levelIndices[transitionLevel - 1] + 1
  IN k <= size /\ ~slot[k].isPending

\* What the counters say of the components of a level: the levels up to
\* currentLevel are running, those above initLevelCount untouched; in the level in
\* transition the components that have answered are ahead of the others.
LifeInv ==
  \A l \in Levels : \A c \in Members(l) :
    IF isTransitionPending /\ l = transitionLevel
    THEN /\ Answered(c) => life[c] = Completed(transition)
         /\ ~Answered(c) => life[c] \in Before(transition)
    ELSE /\ l <= currentLevel => life[c] = "running"
         /\ l > initLevelCount => life[c] = "none"
         /\ l > currentLevel /\ l <= initLevelCount => life[c] \in {"initialized", "stopped"}

\* A level whose components have all answered is going to be looked at.
WakeInv ==
  /\ isTransitionPending /\ size > 0 /\ AllExecutorsDone => enqueued \/ calls # {}
  /\ isTransitionPending /\ size = 0 /\ pc = "idle" => enqueued
  /\ NoLostRequest

IInv == TypeOK /\ RegistryInv /\ ControlInv /\ ExecutorInv /\ LifeInv /\ WakeInv

-------------------------------------------------------------------------------
\* The integers of the state and of the constants.
Numbers ==
  /\ MaxComponents \in Nat /\ MaxLevels \in Nat /\ MaxPerLevel \in Nat
  /\ levelIndices \in [0 .. MaxLevels -> 0 .. MaxComponents]
  /\ levelCount \in 0 .. MaxLevels
  /\ componentCount \in 0 .. MaxComponents
  /\ size \in 0 .. MaxPerLevel
  /\ transitionLevel \in 0 .. MaxLevels
  /\ initLevelCount \in 0 .. MaxLevels
  /\ currentLevel \in 0 .. MaxLevels
  /\ targetLevel \in 0 .. MaxLevels

\* The counters are natural numbers within their bounds.
LEMMA TypedNumbers == TypeOK => Numbers
  BY ConstantsAssumption DEF TypeOK, Numbers

\* Only registered levels have components.
LEMMA MembersRegistered ==
  ASSUME Numbers, RegistryInv, NEW l \in Levels, NEW c \in Members(l)
  PROVE  l <= levelCount
  BY DEF Numbers, RegistryInv, Levels, Members, Components

\* A component belongs to at most one level (the ranges of the indices are disjoint).
LEMMA MembersDisjoint ==
  ASSUME Numbers, RegistryInv,
         NEW l \in Levels, NEW m \in Levels, NEW c \in Members(l), c \in Members(m)
  PROVE  l = m
<1>1. l <= levelCount /\ m <= levelCount
  BY MembersRegistered
<1>2. l \in Int /\ m \in Int
  BY DEF Numbers, Levels
<1>3. ASSUME NEW a \in Levels, NEW b \in Levels, b <= levelCount, a < b,
             c \in Members(a), c \in Members(b)
      PROVE FALSE
  <2>1. a \in 0 .. levelCount /\ b - 1 \in 0 .. levelCount /\ a <= b - 1
    BY <1>3 DEF Numbers, Levels
  <2>2. levelIndices[a] <= levelIndices[b - 1]
    BY <2>1 DEF RegistryInv
  <2>3. levelIndices[a] \in Int /\ levelIndices[b - 1] \in Int
    BY <2>1 DEF Numbers
  <2> QED BY <1>3, <2>2, <2>3 DEF Members, Components, Numbers
<1> QED BY <1>1, <1>2, <1>3

\* The executors of a level fit into the vector (the capacity addComponent() checks).
LEMMA SlotBound ==
  ASSUME Numbers, RegistryInv, transitionLevel \in Levels,
         NextComponent < levelIndices[transitionLevel]
  PROVE  /\ size + 1 \in Slots
         /\ NextComponent \in Components
<1>1. /\ levelIndices[transitionLevel - 1] \in 0 .. MaxComponents
      /\ levelIndices[transitionLevel] \in 0 .. MaxComponents
      /\ levelIndices[transitionLevel] - levelIndices[transitionLevel - 1] <= MaxPerLevel
  BY DEF Numbers, RegistryInv, Levels
<1> QED BY SMTT(60), <1>1 DEF Numbers, NextComponent, Slots, Components

\* The invariant holds initially.
LEMMA InitIInv == Init => IInv
<1> SUFFICES ASSUME Init PROVE IInv
  OBVIOUS
<1> USE ConstantsAssumption
<1>1. TypeOK
  <2>1. NoExecutor \in Executor
    BY DEF NoExecutor, Executor, Components, Transitions
  <2>2. slot \in [Slots -> Executor]
    BY <2>1 DEF Init
  <2>3. levelIndices \in [0 .. MaxLevels -> 0 .. MaxComponents]
    BY DEF Init
  <2>4. infoPending \in [Components -> BOOLEAN] /\ life \in [Components -> LifeStates]
    BY DEF Init, LifeStates
  <2>5. Numbers
    BY <2>3 DEF Init, Numbers
  <2>6. /\ calls \in SUBSET Call
        /\ isTransitionPending \in BOOLEAN /\ enqueued \in BOOLEAN /\ started \in BOOLEAN
        /\ transition \in Transitions /\ reported \in Transitions
        /\ pc \in {"idle", "notify", "choose", "start"}
    BY Zenon DEF Init, Transitions
  <2> QED BY <2>2, <2>4, <2>5, <2>6 DEF TypeOK, Numbers
<1>2. RegistryInv
  BY DEF Init, RegistryInv, Levels
<1>3. ControlInv
  BY DEF Init, ControlInv, Components
<1>4. ExecutorInv
  BY DEF Init, ExecutorInv
<1>5. LifeInv
  BY DEF Init, LifeInv, Members, Levels, Components
<1>6. WakeInv
  BY DEF Init, WakeInv, NoLostRequest, AtTarget
<1> QED BY <1>1, <1>2, <1>3, <1>4, <1>5, <1>6 DEF IInv

-------------------------------------------------------------------------------
\* The steps that only move the manager through execute(), with no effect on the
\* registry, the executors, the levels or the components.
LEMMA StepControl ==
  ASSUME IInv, ExecutePending \/ ExecuteIdle \/ NotifyDone \/ ChooseNothing \/ EndStart
  PROVE  IInv'
<1> USE DEF IInv
<1>0. UNCHANGED <<registryVars, infoPending, slot, size, levelVars, targetLevel,
                  started, calls, life, reported>>
  BY DEF ExecutePending, ExecuteIdle, NotifyDone, ChooseNothing, EndStart
<1> USE <1>0 DEF registryVars, levelVars
<1>1. TypeOK'
  <2>1. enqueued' \in BOOLEAN /\ pc' \in {"idle", "notify", "choose", "start"}
    BY DEF ExecutePending, ExecuteIdle, NotifyDone, ChooseNothing, EndStart, TypeOK
  <2> QED BY <2>1 DEF TypeOK
<1>2. RegistryInv'
  BY DEF RegistryInv
<1>3. ControlInv'
  BY DEF ControlInv, ExecutePending, ExecuteIdle, NotifyDone, ChooseNothing, EndStart
<1>4. ExecutorInv'
  <2> USE DEF Numbers
  <2>1. CASE EndStart
    BY <2>1, TypedNumbers DEF ExecutorInv, EndStart, NextComponent
  <2>2. CASE ~EndStart
    BY <2>2 DEF ExecutorInv, ControlInv, ExecutePending, ExecuteIdle, NotifyDone, ChooseNothing
  <2> QED BY <2>1, <2>2
<1>5. LifeInv'
  BY DEF LifeInv, Members, Answered
<1>6. WakeInv'
  <2>1. CASE ExecutePending
    BY <2>1, TypedNumbers DEF WakeInv, NoLostRequest, AllExecutorsDone, Numbers, ExecutePending
  <2>2. CASE ExecuteIdle
    BY <2>2 DEF WakeInv, NoLostRequest, ExecuteIdle
  <2>3. CASE NotifyDone
    BY <2>3 DEF WakeInv, NoLostRequest, AllExecutorsDone, NotifyDone
  <2>4. CASE ChooseNothing
    BY <2>4 DEF WakeInv, NoLostRequest, AtTarget, ControlInv, ChooseNothing
  <2>5. CASE EndStart
    <3>1. (size = 0 => enqueued') /\ (enqueued => enqueued') /\ isTransitionPending'
      BY <2>5 DEF EndStart, ControlInv
    <3>2. size > 0 /\ AllExecutorsDone' => enqueued' \/ calls' # {}
      BY <2>5, <3>1 DEF WakeInv, AllExecutorsDone
    <3> QED BY <3>1, <3>2 DEF WakeInv, NoLostRequest
  <2> QED BY <2>1, <2>2, <2>3, <2>4, <2>5
<1> QED BY <1>1, <1>2, <1>3, <1>4, <1>5, <1>6

\* A call of transitionToLevel().
LEMMA StepTransitionToLevel ==
  ASSUME IInv, NEW level \in 0 .. MaxLevels + 1, TransitionToLevel(level)
  PROVE  IInv'
<1> USE DEF IInv
<1>0. /\ UNCHANGED <<registryVars, infoPending, slot, size, levelVars, pc, reported, calls, life>>
      /\ enqueued' = TRUE /\ started' = TRUE
      /\ targetLevel' = IF level <= MaxLevels THEN level ELSE MaxLevels
  BY DEF TransitionToLevel
<1> USE <1>0 DEF registryVars, levelVars
<1>1. TypeOK'
  <2>1. targetLevel' \in 0 .. MaxLevels
    BY ConstantsAssumption
  <2> HIDE <1>0
  <2> QED BY <1>0, <2>1 DEF TypeOK
<1>2. RegistryInv'
  BY DEF RegistryInv
<1>3. ControlInv'
  BY DEF ControlInv
<1>4. ExecutorInv'
  BY DEF ExecutorInv
<1>5. LifeInv'
  BY DEF LifeInv, Members, Answered
<1>6. WakeInv'
  BY DEF WakeInv, NoLostRequest
<1> QED BY <1>1, <1>2, <1>3, <1>4, <1>5, <1>6

\* The end of a level: all executors have answered and are cleared.
LEMMA StepLevelDone ==
  ASSUME IInv, ExecuteLevelDone
  PROVE  IInv'
<1> USE DEF IInv
<1>0. /\ UNCHANGED <<registryVars, infoPending, slot, transitionLevel, initLevelCount,
                     currentLevel, targetLevel, started, calls, life>>
      /\ enqueued' = FALSE /\ isTransitionPending' = FALSE /\ size' = 0
      /\ pc = "idle" /\ isTransitionPending /\ AllExecutorsDone
      /\ pc' = IF transition = "INIT" THEN "choose" ELSE "notify"
      /\ reported' = transition /\ transition' = "INIT"
  BY DEF ExecuteLevelDone
<1>00. Numbers
  BY TypedNumbers
<1> USE <1>0 DEF registryVars
<1>1. TypeOK'
  <2>1. size' \in 0 .. MaxPerLevel
    BY <1>00 DEF Numbers
  <2>2. transition' \in Transitions
    BY DEF Transitions
  <2>3. pc' \in {"idle", "notify", "choose", "start"} /\ enqueued' \in BOOLEAN /\ isTransitionPending' \in BOOLEAN
    OBVIOUS
  <2> QED BY <2>1, <2>2, <2>3 DEF TypeOK
<1>2. RegistryInv'
  BY DEF RegistryInv
<1>3. ControlInv'
  BY DEF ControlInv
<1>4. ExecutorInv'
  BY DEF ExecutorInv
<1>5. LifeInv'
  <2> SUFFICES ASSUME NEW l \in Levels, NEW c \in Members(l)
               PROVE  /\ l <= currentLevel => life[c] = "running"
                      /\ l > initLevelCount => life[c] = "none"
                      /\ l > currentLevel /\ l <= initLevelCount => life[c] \in {"initialized", "stopped"}
    BY DEF LifeInv, Members
  <2>1. CASE l # transitionLevel
    BY <2>1 DEF LifeInv
  <2>2. CASE l = transitionLevel
    <3>1. Answered(c)
      <4>1. levelIndices[l - 1] + size >= levelIndices[l]
        BY <2>2 DEF ExecutorInv
      <4>2. /\ levelIndices[l - 1] \in Int /\ levelIndices[l] \in Int /\ c \in Int /\ size \in Int
            /\ levelIndices[l - 1] <= c /\ c < levelIndices[l]
        BY <1>00 DEF Numbers, Levels, Members, Components
      <4>3. c - levelIndices[l - 1] + 1 \in 1 .. size
        BY <4>1, <4>2
      <4> QED BY <4>3, <4>2, <2>2 DEF Answered, AllExecutorsDone
    <3>2. life[c] = Completed(transition)
      BY <3>1, <2>2 DEF LifeInv
    <3>3. CASE transition = "INIT"
      BY <3>2, <3>3, <2>2, <1>00 DEF Completed, ControlInv, Numbers
    <3>4. CASE transition = "RUN"
      BY <3>2, <3>4, <2>2, <1>00 DEF Completed, ControlInv, Numbers
    <3>5. CASE transition = "SHUTDOWN"
      BY SMTT(60), <3>2, <3>5, <2>2, <1>00 DEF Completed, ControlInv, Numbers
    <3> QED BY <3>3, <3>4, <3>5 DEF TypeOK, Transitions
  <2> QED BY <2>1, <2>2
<1>6. WakeInv'
  BY DEF WakeInv, NoLostRequest
<1> QED BY <1>1, <1>2, <1>3, <1>4, <1>5, <1>6

\* The choice of the next transition; the executors of the last level are gone.
LEMMA StepBegin ==
  ASSUME IInv, ChooseShutdown \/ ChooseInit \/ ChooseRun
  PROVE  IInv'
<1> USE DEF IInv
<1>0. /\ UNCHANGED <<registryVars, infoPending, slot, size, targetLevel, enqueued,
                     reported, started, calls, life>>
      /\ isTransitionPending' = TRUE /\ pc' = "start"
      /\ transition' \in Transitions
      /\ pc = "choose" /\ ~AtTarget
  BY DEF ChooseShutdown, ChooseInit, ChooseRun, BeginTransition, Transitions
<1>00. Numbers
  BY TypedNumbers
<1>a. size = 0 /\ ~isTransitionPending /\ currentLevel <= initLevelCount /\ started
  BY <1>0 DEF ControlInv
<1> USE <1>0 DEF registryVars
\* no component of the chosen level has answered yet
<1>e. ASSUME NEW l \in Levels, NEW c \in Members(l), l = transitionLevel'
      PROVE  ~Answered(c)'
  <2>1. levelIndices[l - 1] \in Int /\ c \in Int /\ levelIndices[l - 1] <= c
    BY <1>00 DEF Numbers, Levels, Members, Components
  <2>2. ~(c - levelIndices[l - 1] + 1 <= 0)
    BY <2>1
  <2> QED BY <2>2, <1>a, <1>e DEF Answered
<1>f. \A l \in Levels : Members(l)' = Members(l)
  BY DEF Members
\* the counters after the choice
<1>b. CASE ChooseShutdown
  <2>1. /\ transition' = "SHUTDOWN" /\ transitionLevel' = currentLevel
        /\ currentLevel' = currentLevel - 1 /\ initLevelCount' = initLevelCount
        /\ targetLevel < currentLevel
    BY <1>b DEF ChooseShutdown, BeginTransition
  <2>2. /\ currentLevel' \in 0 .. MaxLevels /\ transitionLevel' \in Levels
        /\ currentLevel' < initLevelCount
    BY <2>1, <1>00, <1>a DEF Numbers, Levels
  <2>3. TypeOK'
    BY <2>1, <2>2 DEF TypeOK, Levels
  <2>4. ControlInv'
    BY <2>1, <2>2, <1>00, <1>a DEF ControlInv, Numbers, Levels
  <2>5. LifeInv'
    <3> SUFFICES ASSUME NEW l \in Levels, NEW c \in Members(l)
                 PROVE  IF l = currentLevel THEN life[c] = "running"
                        ELSE /\ l <= currentLevel - 1 => life[c] = "running"
                             /\ l > initLevelCount => life[c] = "none"
                             /\ l > currentLevel - 1 /\ l <= initLevelCount
                                  => life[c] \in {"initialized", "stopped"}
      BY <2>1, <1>e, <1>f DEF LifeInv, Before
    <3> QED BY <1>a, <1>00 DEF LifeInv, Numbers, Levels
  <2> QED BY <2>3, <2>4, <2>5, <1>a, <1>00 DEF RegistryInv, ExecutorInv, WakeInv, NoLostRequest, Numbers
<1>c. CASE ChooseInit
  <2>1. /\ transition' = "INIT" /\ transitionLevel' = initLevelCount + 1
        /\ currentLevel' = currentLevel /\ initLevelCount' = initLevelCount + 1
        /\ initLevelCount < targetLevel /\ initLevelCount = currentLevel
    BY <1>c DEF ChooseInit, BeginTransition, InitDue
  <2>2. initLevelCount' \in 0 .. MaxLevels /\ transitionLevel' \in Levels
    BY <2>1, <1>00 DEF Numbers, Levels
  <2>3. TypeOK'
    BY <2>1, <2>2 DEF TypeOK, Levels
  <2>4. ControlInv'
    BY <2>1, <2>2, <1>00, <1>a DEF ControlInv, Numbers, Levels
  <2>5. LifeInv'
    <3> SUFFICES ASSUME NEW l \in Levels, NEW c \in Members(l)
                 PROVE  IF l = initLevelCount + 1 THEN life[c] = "none"
                        ELSE /\ l <= currentLevel => life[c] = "running"
                             /\ l > initLevelCount + 1 => life[c] = "none"
                             /\ ~(l > currentLevel /\ l <= initLevelCount + 1)
      BY <2>1, <1>e, <1>f DEF LifeInv, Before
    <3> QED BY <2>1, <1>a, <1>00 DEF LifeInv, Numbers, Levels
  <2> QED BY <2>3, <2>4, <2>5, <1>a, <1>00 DEF RegistryInv, ExecutorInv, WakeInv, NoLostRequest, Numbers
<1>d. CASE ChooseRun
  <2>1. /\ transition' = "RUN" /\ transitionLevel' = currentLevel + 1
        /\ currentLevel' = currentLevel + 1 /\ initLevelCount' = initLevelCount
        /\ targetLevel >= currentLevel
        /\ ~(initLevelCount < targetLevel /\ initLevelCount = currentLevel)
    BY <1>d DEF ChooseRun, BeginTransition, InitDue
  <2>2. /\ currentLevel + 1 <= initLevelCount
        /\ currentLevel' \in 0 .. MaxLevels /\ transitionLevel' \in Levels
    BY <2>1, <1>00, <1>a DEF Numbers, Levels, AtTarget
  <2>3. TypeOK'
    BY <2>1, <2>2 DEF TypeOK, Levels
  <2>4. ControlInv'
    BY <2>1, <2>2, <1>00, <1>a DEF ControlInv, Numbers, Levels
  <2>5. LifeInv'
    <3> SUFFICES ASSUME NEW l \in Levels, NEW c \in Members(l)
                 PROVE  IF l = currentLevel + 1 THEN life[c] \in {"initialized", "stopped"}
                        ELSE /\ l <= currentLevel + 1 => life[c] = "running"
                             /\ l > initLevelCount => life[c] = "none"
                             /\ l > currentLevel + 1 /\ l <= initLevelCount
                                  => life[c] \in {"initialized", "stopped"}
      BY <2>1, <1>e, <1>f DEF LifeInv, Before
    <3> QED BY <2>2, <1>a, <1>00 DEF LifeInv, Numbers, Levels
  <2> QED BY <2>3, <2>4, <2>5, <1>a, <1>00 DEF RegistryInv, ExecutorInv, WakeInv, NoLostRequest, Numbers
<1> QED BY <1>b, <1>c, <1>d

\* One round of the loop in execute(): the next component gets an executor.
LEMMA StepStartExecutor ==
  ASSUME IInv, StartExecutor
  PROVE  IInv'
<1> USE DEF IInv
<1> DEFINE e == [component |-> NextComponent, transition |-> transition,
                 isPending |-> TRUE, started |-> FALSE]
<1>0. /\ UNCHANGED <<registryVars, levelVars, targetLevel, enqueued, pc, reported,
                     started, calls, life>>
      /\ slot' = [slot EXCEPT ![size + 1] = e]
      /\ size' = size + 1
      /\ infoPending' = [infoPending EXCEPT ![NextComponent] = TRUE]
      /\ pc = "start" /\ NextComponent < levelIndices[transitionLevel]
  BY DEF StartExecutor
<1>00. Numbers
  BY TypedNumbers
<1>a. isTransitionPending /\ transitionLevel \in Levels /\ started
  BY <1>0 DEF ControlInv
<1>b. size + 1 \in Slots /\ NextComponent \in Components
  BY <1>0, <1>00, <1>a, SlotBound
<1>c. /\ slot'[size + 1] = e
      /\ \A k \in 1 .. size : slot'[k] = slot[k]
  BY <1>0, <1>b, <1>00 DEF TypeOK, Slots, Numbers
<1>d. /\ levelIndices[transitionLevel - 1] \in Int /\ levelIndices[transitionLevel] \in Int
      /\ size \in Nat
  BY <1>00, <1>a DEF Numbers, Levels
<1> USE DEF registryVars, levelVars
<1>1. TypeOK'
  <2>1. e \in Executor
    BY <1>b DEF Executor, TypeOK
  <2>2. slot' \in [Slots -> Executor]
    BY <2>1, <1>0 DEF TypeOK
  <2>3. size' \in 0 .. MaxPerLevel
    BY <1>0, <1>b, <1>d DEF Slots
  <2>4. infoPending' \in [Components -> BOOLEAN]
    BY <1>0 DEF TypeOK
  <2> HIDE DEF e
  <2> QED BY <1>0, <2>2, <2>3, <2>4 DEF TypeOK
<1>2. RegistryInv'
  BY <1>0 DEF RegistryInv
<1>3. ControlInv'
  BY <1>0, <1>a DEF ControlInv
<1>4. ExecutorInv'
  <2> SUFFICES ASSUME NEW k \in 1 .. size + 1
               PROVE  /\ slot'[k].component = levelIndices[transitionLevel - 1] + k - 1
                      /\ slot'[k].component < levelIndices[transitionLevel]
                      /\ slot'[k].transition = transition
    BY <1>0 DEF ExecutorInv
  <2>1. CASE k = size + 1
    BY <2>1, <1>c, <1>d, <1>0 DEF NextComponent
  <2>2. CASE k # size + 1
    BY <2>2, <1>c, <1>d DEF ExecutorInv
  <2> QED BY <2>1, <2>2
<1>5. LifeInv'
  <2>1. ASSUME NEW c \in Members(transitionLevel)
        PROVE  Answered(c)' <=> Answered(c)
    <3>1. c \in Int /\ c - levelIndices[transitionLevel - 1] + 1 >= 1
      BY <1>d DEF Members, Components
    <3>2. CASE c - levelIndices[transitionLevel - 1] + 1 = size + 1
      BY <3>1, <3>2, <1>c, <1>d, <1>0 DEF Answered
    <3>3. CASE c - levelIndices[transitionLevel - 1] + 1 # size + 1
      BY <3>1, <3>3, <1>c, <1>d, <1>0 DEF Answered
    <3> QED BY <3>2, <3>3
  <2>2. \A l \in Levels : Members(l)' = Members(l)
    BY <1>0 DEF Members
  <2>3. UNCHANGED <<isTransitionPending, transitionLevel, transition, life, currentLevel, initLevelCount>>
    BY <1>0
  <2> QED BY <2>1, <2>2, <2>3 DEF LifeInv
<1>6. WakeInv'
  <2>1. ~AllExecutorsDone'
    BY <1>0, <1>c, <1>d DEF AllExecutorsDone
  <2> QED BY <2>1, <1>0, <1>a, <1>d DEF WakeInv, NoLostRequest
<1> QED BY <1>1, <1>2, <1>3, <1>4, <1>5, <1>6

\* A component begins its transition.
LEMMA StepStartTransition ==
  ASSUME IInv, NEW k \in Slots, StartTransition(k)
  PROVE  IInv'
<1> USE DEF IInv
<1>0. /\ UNCHANGED <<registryVars, infoPending, size, levelVars, targetLevel, enqueued,
                     pc, reported, started, calls, life>>
      /\ slot' = [slot EXCEPT ![k].started = TRUE]
  BY DEF StartTransition
<1>1. slot' \in [Slots -> Executor]
  BY <1>0 DEF TypeOK, Executor
<1>2. \A j \in Slots : /\ slot'[j].component = slot[j].component
                       /\ slot'[j].transition = slot[j].transition
                       /\ slot'[j].isPending = slot[j].isPending
  BY <1>0 DEF TypeOK, Executor
<1>00. Numbers
  BY TypedNumbers
<1>3. 1 .. size \subseteq Slots
  BY <1>00 DEF Numbers, Slots
<1> USE DEF registryVars, levelVars
<1>4. TypeOK'
  <2>1. UNCHANGED <<levelIndices, levelCount, componentCount, infoPending, size, isTransitionPending,
                    transition, transitionLevel, initLevelCount, currentLevel, targetLevel, enqueued,
                    pc, reported, started, calls, life>>
    BY <1>0
  <2> QED BY <1>1, <2>1 DEF TypeOK
<1>5. RegistryInv' /\ ControlInv'
  BY <1>0 DEF RegistryInv, ControlInv
<1>6. ExecutorInv'
  BY <1>0, <1>2, <1>3 DEF ExecutorInv
<1>7. LifeInv'
  <2>1. \A c \in Members(transitionLevel) : transitionLevel \in Levels => (Answered(c)' <=> Answered(c))
    <3> SUFFICES ASSUME NEW c \in Members(transitionLevel), transitionLevel \in Levels
                 PROVE  Answered(c)' <=> Answered(c)
      OBVIOUS
    <3> DEFINE j == c - levelIndices[transitionLevel - 1] + 1
    <3>1. j \in Int /\ j >= 1
      BY <1>00 DEF Members, Components, Numbers, Levels
    <3>2. j <= size => j \in Slots
      BY <3>1, <1>00 DEF Numbers, Slots
    <3> QED BY <3>2, <1>2, <1>0 DEF Answered
  <2>2. \A l \in Levels : Members(l)' = Members(l)
    BY <1>0 DEF Members
  <2>3. UNCHANGED <<isTransitionPending, transitionLevel, transition, life, currentLevel, initLevelCount>>
    BY <1>0
  <2> QED BY <2>1, <2>2, <2>3 DEF LifeInv
<1>8. WakeInv'
  <2>1. AllExecutorsDone' <=> AllExecutorsDone
    BY <1>0, <1>2, <1>3 DEF AllExecutorsDone
  <2> QED BY <2>1, <1>0 DEF WakeInv, NoLostRequest, AtTarget
<1> QED BY <1>4, <1>5, <1>6, <1>7, <1>8

\* What the invariant says of an executor that is still pending.
LEMMA PendingExecutor ==
  ASSUME IInv, NEW k \in 1 .. size, slot[k].isPending
  PROVE  /\ isTransitionPending /\ transitionLevel \in Levels /\ started
         /\ k \in Slots
         /\ slot[k].transition = transition
         /\ slot[k].component \in Members(transitionLevel)
         /\ slot[k].component - levelIndices[transitionLevel - 1] + 1 = k
         /\ life[slot[k].component] \in Before(transition)
<1> USE DEF IInv
<1>00. Numbers
  BY TypedNumbers
<1>1. isTransitionPending /\ transitionLevel \in Levels /\ started
  BY <1>00 DEF ControlInv, Numbers
<1>2. k \in Slots /\ slot[k] \in Executor
  BY <1>00 DEF Numbers, Slots, TypeOK
<1>3. /\ slot[k].component \in Components
      /\ slot[k].component = levelIndices[transitionLevel - 1] + k - 1
      /\ slot[k].component < levelIndices[transitionLevel]
      /\ slot[k].transition = transition
  BY <1>2 DEF ExecutorInv, Executor
<1>4. levelIndices[transitionLevel - 1] \in Int /\ k \in Int /\ k >= 1 /\ size \in Int /\ k <= size
  BY <1>1, <1>00 DEF Numbers, Levels
<1>5. slot[k].component \in Members(transitionLevel)
  BY <1>3, <1>4 DEF Members
<1>6. slot[k].component - levelIndices[transitionLevel - 1] + 1 = k
  BY <1>3, <1>4
<1>7. ~Answered(slot[k].component)
  BY <1>6 DEF Answered
<1>8. life[slot[k].component] \in Before(transition)
  BY <1>1, <1>5, <1>7 DEF LifeInv
<1> QED BY <1>1, <1>2, <1>3, <1>5, <1>6, <1>8

\* Around a level in transition: the levels below run, the levels above do not.
LEMMA AroundTransition ==
  ASSUME IInv, isTransitionPending, NEW l \in Levels, NEW c \in Members(l)
  PROVE  /\ l < transitionLevel => life[c] = "running"
         /\ l > transitionLevel => life[c] # "running"
<1>1. Numbers
  BY TypedNumbers DEF IInv
<1>2. transitionLevel = currentLevel \/ transitionLevel = currentLevel + 1
  BY <1>1 DEF IInv, ControlInv, TypeOK, Transitions, Numbers
<1> QED BY <1>1, <1>2 DEF IInv, LifeInv, Numbers, Levels

\* A component has completed its transition.
LEMMA StepTransitionDone ==
  ASSUME IInv, NEW k \in Slots, TransitionDone(k)
  PROVE  IInv'
<1> USE DEF IInv
<1>p. PICK d \in Components : d = slot[k].component
  BY DEF TypeOK, Executor
<1> DEFINE j(c) == c - levelIndices[transitionLevel - 1] + 1
           newCall == [component |-> d, slot |-> k, step |-> "info"]
<1>0. /\ UNCHANGED <<registryVars, infoPending, size, levelVars, targetLevel, enqueued,
                     pc, reported, started>>
      /\ slot' = [slot EXCEPT ![k].isPending = FALSE]
      /\ calls' = calls \cup {newCall}
      /\ life' = [life EXCEPT ![d] = Completed(slot[k].transition)]
      /\ k <= size /\ slot[k].isPending
  BY <1>p DEF TransitionDone
<1>00. Numbers
  BY TypedNumbers
<1>a. k \in 1 .. size
  BY <1>0, <1>00 DEF Slots, Numbers
<1>b. /\ isTransitionPending /\ transitionLevel \in Levels /\ started
      /\ slot[k].transition = transition /\ d \in Members(transitionLevel)
      /\ j(d) = k
      /\ life[d] \in Before(transition)
  BY <1>0, <1>a, <1>p, PendingExecutor
<1>c. d \in Components /\ slot[k] \in Executor /\ transition \in Transitions
  BY <1>b DEF TypeOK, Members
<1>1. slot' \in [Slots -> Executor]
  BY <1>0 DEF TypeOK, Executor
<1>2. /\ \A i \in Slots : /\ slot'[i].component = slot[i].component
                          /\ slot'[i].transition = slot[i].transition
                          /\ i # k => slot'[i].isPending = slot[i].isPending
      /\ ~slot'[k].isPending
  BY <1>0 DEF TypeOK, Executor
<1>3. 1 .. size \subseteq Slots
  BY <1>00 DEF Numbers, Slots
<1>4. /\ life' = [life EXCEPT ![d] = Completed(transition)]
      /\ life' \in [Components -> LifeStates]
      /\ life'[d] = Completed(transition)
      /\ \A c \in Components : c # d => life'[c] = life[c]
  BY <1>0, <1>b, <1>c DEF TypeOK, LifeStates, Completed, Transitions
<1> USE DEF registryVars, levelVars
<1>5. TypeOK'
  <2>1. newCall \in Call
    BY <1>c DEF Call
  <2>2. calls' \in SUBSET Call
    BY <1>0, <2>1 DEF TypeOK
  <2>3. UNCHANGED <<levelIndices, levelCount, componentCount, infoPending, size, isTransitionPending,
                    transition, transitionLevel, initLevelCount, currentLevel, targetLevel, enqueued,
                    pc, reported, started>>
    BY <1>0
  <2> QED BY <1>1, <1>4, <2>2, <2>3 DEF TypeOK
<1>6. RegistryInv' /\ ControlInv'
  BY <1>0, <1>b DEF RegistryInv, ControlInv
<1>7. ExecutorInv'
  BY <1>0, <1>2, <1>3 DEF ExecutorInv
<1>8. LifeInv'
  <2>1. ASSUME NEW c \in Members(transitionLevel), c # d
        PROVE  (Answered(c)' <=> Answered(c)) /\ life'[c] = life[c]
    <3>1. c \in Components /\ j(c) \in Int /\ j(c) >= 1 /\ j(c) # k
      BY <2>1, <1>b, <1>c, <1>00 DEF Members, Components, Numbers, Levels
    <3>2. j(c) <= size => j(c) \in Slots
      BY <3>1, <1>00 DEF Numbers, Slots
    <3> QED BY <2>1, <3>1, <3>2, <1>2, <1>4, <1>0 DEF Answered
  <2>2. Answered(d)' /\ life'[d] = Completed(transition)
    BY <1>0, <1>2, <1>4, <1>b, <1>a DEF Answered
  <2>3. \A l \in Levels : \A c \in Members(l) : l # transitionLevel => life'[c] = life[c]
    <3>1. \A l \in Levels : \A c \in Members(l) : l # transitionLevel => c # d /\ c \in Components
      BY <1>b, <1>00, MembersDisjoint DEF Members
    <3> QED BY <3>1, <1>4
  <2>4. \A l \in Levels : Members(l)' = Members(l)
    BY <1>0 DEF Members
  <2>5. UNCHANGED <<isTransitionPending, transitionLevel, transition, currentLevel, initLevelCount>>
    BY <1>0
  <2>6. Completed(transition)' = Completed(transition) /\ Before(transition)' = Before(transition)
    BY <2>5
  <2> SUFFICES ASSUME NEW l \in Levels, NEW c \in Members(l)
               PROVE IF isTransitionPending /\ l = transitionLevel
                     THEN /\ Answered(c)' => life'[c] = Completed(transition)
                          /\ ~Answered(c)' => life'[c] \in Before(transition)
                     ELSE /\ l <= currentLevel => life'[c] = "running"
                          /\ l > initLevelCount => life'[c] = "none"
                          /\ l > currentLevel /\ l <= initLevelCount => life'[c] \in {"initialized", "stopped"}
    BY <2>4, <2>5, <2>6 DEF LifeInv
  <2>7. CASE l = transitionLevel
    BY <2>1, <2>2, <2>7, <1>b DEF LifeInv
  <2>8. CASE l # transitionLevel
    BY <2>3, <2>8 DEF LifeInv
  <2> QED BY <2>7, <2>8
<1>9. WakeInv'
  <2>1. calls' # {}
    BY <1>0
  <2> QED BY <2>1, <1>0, <1>a, <1>b, <1>00 DEF WakeInv, NoLostRequest, Numbers
<1> QED BY <1>5, <1>6, <1>7, <1>8, <1>9

\* transitionDone() goes on: the component info, then the manager's runnable.
LEMMA StepCall ==
  ASSUME IInv, NEW call \in calls, TransitionDoneInfo(call) \/ TransitionDoneExecute(call)
  PROVE  IInv'
<1> USE DEF IInv
<1>0. UNCHANGED <<registryVars, slot, size, levelVars, targetLevel, pc, reported, started, life>>
  BY DEF TransitionDoneInfo, TransitionDoneExecute
<1>1. calls \in SUBSET Call /\ call \in Call
  BY DEF TypeOK
<1>2. started
  BY DEF ControlInv
<1> USE DEF registryVars, levelVars
<1>3. CASE TransitionDoneInfo(call)
  <2>1. /\ enqueued' = enqueued
        /\ calls' = (calls \ {call}) \cup {[call EXCEPT !.step = "execute"]}
        /\ infoPending' = [infoPending EXCEPT ![slot[call.slot].component] = FALSE]
    BY <1>3 DEF TransitionDoneInfo
  <2>2. [call EXCEPT !.step = "execute"] \in Call
    BY <1>1 DEF Call
  <2>3. calls' \in SUBSET Call /\ calls' # {}
    BY <2>1, <2>2, <1>1
  <2>4. infoPending' \in [Components -> BOOLEAN]
    BY <2>1 DEF TypeOK
  <2>5. TypeOK'
    BY <2>1, <2>3, <2>4, <1>0 DEF TypeOK
  <2>6. RegistryInv' /\ ControlInv' /\ ExecutorInv'
    BY <2>1, <1>0, <1>2 DEF RegistryInv, ControlInv, ExecutorInv
  <2>7. LifeInv'
    BY <1>0 DEF LifeInv, Members, Answered
  <2>8. WakeInv'
    BY <2>1, <2>3, <1>0 DEF WakeInv, NoLostRequest, AtTarget
  <2> QED BY <2>5, <2>6, <2>7, <2>8
<1>4. CASE TransitionDoneExecute(call)
  <2>1. enqueued' = TRUE /\ calls' = calls \ {call} /\ infoPending' = infoPending
    BY <1>4 DEF TransitionDoneExecute
  <2>5. TypeOK'
    BY <2>1, <1>0 DEF TypeOK
  <2>6. RegistryInv' /\ ControlInv' /\ ExecutorInv'
    BY <2>1, <1>0, <1>2 DEF RegistryInv, ControlInv, ExecutorInv
  <2>7. LifeInv'
    BY <1>0 DEF LifeInv, Members, Answered
  <2>8. WakeInv'
    BY <2>1, <1>0 DEF WakeInv, NoLostRequest
  <2> QED BY <2>5, <2>6, <2>7, <2>8
<1> QED BY <1>3, <1>4

\* How addComponent() changes the ranges of the levels: the new component, whose
\* index is the old count, joins `level' and no other level changes.
LEMMA AddComponentMembers ==
  ASSUME IInv, NEW level \in Levels, AddComponent(level)
  PROVE  /\ componentCount \in Components
         /\ RegistryInv'
         /\ levelIndices' \in [0 .. MaxLevels -> 0 .. MaxComponents]
         /\ \A l \in Levels : componentCount \notin Members(l)
         /\ \A l \in Levels : Members(l)' = IF l = level THEN Members(l) \cup {componentCount}
                                            ELSE Members(l)
<1> USE DEF IInv
<1>00. Numbers
  BY TypedNumbers
<1> USE <1>00 DEF Numbers
<1>0. /\ levelIndices' = [l \in 0 .. MaxLevels |->
                            IF l > levelCount /\ l < level THEN levelIndices[levelCount]
                            ELSE IF l = level THEN levelIndices[levelCount] + 1
                            ELSE levelIndices[l]]
      /\ levelCount' = level /\ componentCount' = componentCount + 1
      /\ componentCount < MaxComponents /\ level >= levelCount
      /\ (level = levelCount) => levelIndices[level] - levelIndices[level - 1] < MaxPerLevel
  BY DEF AddComponent
<1>1. levelIndices[levelCount] = componentCount /\ level \in 1 .. MaxLevels
  BY DEF RegistryInv, Levels
<1>2. componentCount \in Components
  BY <1>0 DEF Components
<1>3. levelIndices' \in [0 .. MaxLevels -> 0 .. MaxComponents]
  BY <1>0, <1>1
<1>4. ASSUME NEW l \in 0 .. MaxLevels
      PROVE  levelIndices'[l] = IF l > levelCount /\ l < level THEN componentCount
                                ELSE IF l = level THEN componentCount + 1
                                ELSE levelIndices[l]
  BY <1>0, <1>1
<1>5. ASSUME NEW l \in 0 .. levelCount
      PROVE  levelIndices[l] <= componentCount /\ l \in 0 .. MaxLevels
  BY <1>1 DEF RegistryInv
<1>6. ASSUME NEW l \in 0 .. MaxLevels, l > levelCount
      PROVE  levelIndices[l] = 0
  BY <1>6 DEF RegistryInv
<1>7. RegistryInv'
  <2>1. levelIndices'[0] = 0
    BY <1>1, <1>0, <1>4 DEF RegistryInv
  <2>2. levelIndices'[level] = componentCount + 1
    BY <1>4, <1>1, <1>0
  <2>3. ASSUME NEW a \in 0 .. level, NEW b \in 0 .. level, a <= b
        PROVE  levelIndices'[a] <= levelIndices'[b]
    <3>1. a \in 0 .. MaxLevels /\ b \in 0 .. MaxLevels
      BY <1>1
    <3>2. CASE b <= levelCount /\ b < level
      BY SMTT(60), <3>1, <3>2, <2>3, <1>4, <1>1 DEF RegistryInv
    <3>3. CASE b > levelCount /\ b < level
      BY SMTT(60), <3>1, <3>3, <2>3, <1>4, <1>5, <1>1
    <3>4. CASE b = level
      BY <3>1, <3>4, <2>3, <1>4, <1>5, <1>1, <1>0
    <3> QED BY <3>2, <3>3, <3>4, <1>1
  <2>4. ASSUME NEW l \in 0 .. MaxLevels, l > level
        PROVE  levelIndices'[l] = 0
    BY <2>4, <1>4, <1>6, <1>0, <1>1
  <2>5. ASSUME NEW l \in Levels
        PROVE  levelIndices'[l] - levelIndices'[l - 1] <= MaxPerLevel
    <3>1. l \in 0 .. MaxLevels /\ l - 1 \in 0 .. MaxLevels /\ l \in Int
      BY DEF Levels
    <3>2. levelIndices[l] - levelIndices[l - 1] <= MaxPerLevel
      BY DEF RegistryInv
    <3>3. levelIndices[l] \in Int /\ levelIndices[l - 1] \in Int
      BY <3>1
    <3>4. CASE l <= levelCount /\ l < level
      BY <3>1, <3>2, <3>4, <1>4
    <3>5. CASE l > levelCount /\ l < level
      <4>1. levelIndices'[l] = componentCount
        BY <3>1, <3>5, <1>4
      <4>2. levelIndices'[l - 1] = componentCount
        BY SMTT(60), <3>1, <3>5, <1>4, <1>1
      <4> QED BY <4>1, <4>2
    <3>6. CASE l = level /\ level = levelCount
      BY <3>1, <3>3, <3>6, <1>4, <1>0, <1>1
    <3>7. CASE l = level /\ level > levelCount
      <4>1. levelIndices'[l] = componentCount + 1
        BY <3>1, <3>7, <1>4, <1>1
      <4>2. levelIndices'[l - 1] = componentCount
        BY SMTT(60), <3>1, <3>7, <1>4, <1>1
      <4> QED BY <4>1, <4>2, ConstantsAssumption
    <3>8. CASE l > level
      <4>1. levelIndices'[l] = 0
        BY <2>4, <3>1, <3>8
      <4>2. levelIndices'[l - 1] >= 0 /\ levelIndices'[l - 1] \in Int
        BY <1>3, <3>1
      <4> QED BY <4>1, <4>2
    <3> QED BY <3>1, <3>4, <3>5, <3>6, <3>7, <3>8, <1>0, <1>1
  <2> QED BY <2>1, <2>2, <2>3, <2>4, <2>5, <1>0 DEF RegistryInv
<1>8. ASSUME NEW l \in Levels
      PROVE  componentCount \notin Members(l)
  <2>1. l <= levelCount => levelIndices[l] <= componentCount
    BY <1>5 DEF Levels
  <2>2. l > levelCount => levelIndices[l] = 0
    BY <1>6 DEF Levels
  <2> QED BY <2>1, <2>2 DEF Members, Levels
<1>9. ASSUME NEW l \in Levels, NEW c \in Components
      PROVE  c \in Members(l)' <=> c \in Members(l) \/ (l = level /\ c = componentCount)
  <2>1. l \in 1 .. MaxLevels /\ l \in 0 .. MaxLevels /\ l - 1 \in 0 .. MaxLevels /\ c \in Nat
    BY DEF Levels, Components
  <2>2. /\ c \in Members(l)' <=> levelIndices'[l - 1] <= c /\ c < levelIndices'[l]
        /\ c \in Members(l) <=> levelIndices[l - 1] <= c /\ c < levelIndices[l]
    BY DEF Members
  <2>3. CASE l <= levelCount /\ l < level
    BY <2>1, <2>2, <2>3, <1>4
  <2>4. CASE l > levelCount /\ l < level
    <3>1. levelIndices'[l] = componentCount /\ levelIndices'[l - 1] = componentCount
      BY SMTT(60), <2>1, <2>4, <1>4, <1>1
    <3>2. levelIndices[l] = 0
      BY <2>1, <2>4, <1>6
    <3> QED BY <2>1, <2>2, <2>4, <3>1, <3>2
  <2>5. CASE l = level /\ level = levelCount
    <3>1. levelIndices'[l] = componentCount + 1 /\ levelIndices[l] = componentCount
      BY <2>1, <2>5, <1>4, <1>1
    <3>2. levelIndices'[l - 1] = levelIndices[l - 1] /\ levelIndices[l - 1] <= componentCount
      BY <2>1, <2>5, <1>4, <1>5, <1>1
    <3>3. levelIndices[l - 1] \in Int
      BY <2>1
    <3> QED BY <2>1, <2>2, <2>5, <3>1, <3>2, <3>3
  <2>6. CASE l = level /\ level > levelCount
    <3>1. levelIndices'[l] = componentCount + 1 /\ levelIndices[l] = 0
      BY <2>1, <2>6, <1>4, <1>6
    <3>2. levelIndices'[l - 1] = componentCount
      BY <2>1, <2>6, <1>4, <1>1
    <3> QED BY <2>1, <2>2, <2>6, <3>1, <3>2
  <2>7. CASE l > level
    <3>1. levelIndices'[l] = 0 /\ levelIndices[l] = 0
      BY <2>1, <2>7, <1>4, <1>6, <1>0, <1>1
    <3> QED BY <2>1, <2>2, <2>7, <3>1, <1>1
  <2> QED BY <2>1, <2>3, <2>4, <2>5, <2>6, <2>7, <1>0, <1>1
<1>10. ASSUME NEW l \in Levels
       PROVE  Members(l)' = IF l = level THEN Members(l) \cup {componentCount} ELSE Members(l)
  <2>1. Members(l) \subseteq Components /\ Members(l)' \subseteq Components
    BY DEF Members, Components
  <2> QED BY <1>9, <1>2, <2>1
<1> QED BY <1>2, <1>3, <1>7, <1>8, <1>10

\* A component is registered.
LEMMA StepAddComponent ==
  ASSUME IInv, NEW level \in Levels, AddComponent(level)
  PROVE  IInv'
<1> USE DEF IInv
<1>0. /\ UNCHANGED <<infoPending, slot, size, levelVars, targetLevel, enqueued, pc,
                     reported, started, calls, life>>
      /\ levelCount' = level /\ componentCount' = componentCount + 1
      /\ componentCount < MaxComponents /\ ~started
  BY DEF AddComponent
<1>00. Numbers
  BY TypedNumbers
<1>1. /\ RegistryInv' /\ levelIndices' \in [0 .. MaxLevels -> 0 .. MaxComponents]
      /\ \A l \in Levels : Members(l)' \subseteq Components
  BY AddComponentMembers DEF Members, Components
<1>2. /\ ~isTransitionPending /\ size = 0 /\ initLevelCount = 0 /\ currentLevel = 0
      /\ \A c \in Components : life[c] = "none"
  BY <1>0 DEF ControlInv
<1> USE DEF levelVars
<1>3. TypeOK'
  <2>1. levelCount' \in 0 .. MaxLevels /\ componentCount' \in 0 .. MaxComponents
    BY <1>0, <1>00 DEF Numbers, Levels
  <2> QED BY <1>0, <1>1, <2>1 DEF TypeOK
<1>4. ControlInv'
  BY <1>0 DEF ControlInv
<1>5. ExecutorInv'
  BY <1>0, <1>2 DEF ExecutorInv
<1>6. LifeInv'
  <2>1. \A l \in Levels : ~(l <= currentLevel) /\ ~(l <= initLevelCount)
    BY <1>2 DEF Levels
  <2> QED BY <1>0, <1>1, <1>2, <2>1 DEF LifeInv
<1>7. WakeInv'
  BY <1>0, <1>2 DEF WakeInv, NoLostRequest, AtTarget
<1> QED BY <1>1, <1>3, <1>4, <1>5, <1>6, <1>7

\* Every step preserves the invariant.
LEMMA NextIInv == IInv /\ [Next]_vars => IInv'
<1> SUFFICES ASSUME IInv, [Next]_vars PROVE IInv'
  OBVIOUS
<1>1. CASE UNCHANGED vars
  <2>1. UNCHANGED <<levelIndices, levelCount, componentCount, infoPending, slot, size,
                    isTransitionPending, transition, transitionLevel, initLevelCount,
                    currentLevel, targetLevel, enqueued, pc, reported, started, calls, life>>
    BY <1>1 DEF vars, managerVars, registryVars, levelVars
  <2>2. TypeOK'
    BY <2>1 DEF IInv, TypeOK
  <2>3. RegistryInv' /\ ControlInv' /\ ExecutorInv'
    BY <2>1 DEF IInv, RegistryInv, ControlInv, ExecutorInv
  <2>4. LifeInv'
    BY <2>1 DEF IInv, LifeInv, Members, Answered
  <2>5. WakeInv'
    BY <2>1 DEF IInv, WakeInv, NoLostRequest, AtTarget, AllExecutorsDone
  <2> QED BY <2>2, <2>3, <2>4, <2>5 DEF IInv
<1>2. CASE \E level \in Levels : AddComponent(level)
  BY <1>2, StepAddComponent
<1>3. CASE \E level \in 0 .. MaxLevels + 1 : TransitionToLevel(level)
  BY <1>3, StepTransitionToLevel
<1>4. CASE ManagerStep
  BY <1>4, StepControl, StepLevelDone, StepBegin, StepStartExecutor DEF ManagerStep
<1>5. CASE ComponentStep
  BY <1>5, StepStartTransition, StepTransitionDone, StepCall DEF ComponentStep
<1> QED BY <1>1, <1>2, <1>3, <1>4, <1>5 DEF Next

\* IInv is an invariant of the manager.
THEOREM Invariant == Spec => []IInv
  BY InitIInv, NextIInv, PTL DEF Spec

-------------------------------------------------------------------------------
\* All variables of the manager keep their types; in particular an executor is
\* never constructed beyond the capacity of the vector and no counter leaves the
\* range of the levels.
THEOREM TypeCorrect == Spec => []TypeOK
<1>1. IInv => TypeOK
  BY DEF IInv
<1> QED BY Invariant, <1>1, PTL

\* A listener is told the truth about the level that was reached.
THEOREM ListenersToldTheTruth == Spec => []ReportedLevelIsReached
<1>1. ASSUME IInv PROVE ReportedLevelIsReached
  <2> SUFFICES ASSUME pc = "notify", NEW l \in Levels, NEW c \in Members(l)
               PROVE  (life[c] = "running") <=> (l <= currentLevel)
    BY <1>1 DEF ReportedLevelIsReached, IInv, ControlInv
  <2>1. ~isTransitionPending
    BY <1>1 DEF IInv, ControlInv
  <2>2. Numbers
    BY <1>1, TypedNumbers DEF IInv
  <2> QED BY <1>1, <2>1, <2>2 DEF IInv, LifeInv, Numbers, Levels
<1> QED BY Invariant, <1>1, PTL

\* A component is asked only for transitions it is ready for.
THEOREM OrderedTransitions == Spec => []TransitionsInOrder
<1>1. ASSUME IInv PROVE TransitionsInOrder
  <2> SUFFICES ASSUME NEW k \in 1 .. size, slot[k].isPending
               PROVE  life[slot[k].component] \in Before(slot[k].transition)
    BY DEF TransitionsInOrder, PendingSlots, Before
  <2> QED BY <1>1, PendingExecutor
<1> QED BY Invariant, <1>1, PTL

\* Levels are brought up and taken down one at a time, in order.
THEOREM LevelsInOrder == Spec => []OneLevelAtATime
<1>1. ASSUME IInv PROVE OneLevelAtATime
  <2> SUFFICES ASSUME NEW k \in 1 .. size, slot[k].isPending
               PROVE  /\ slot[k].component \in Members(transitionLevel)
                      /\ \A l \in Levels : \A c \in Members(l) :
                           /\ l < transitionLevel => life[c] = "running"
                           /\ l > transitionLevel => life[c] # "running"
    BY DEF OneLevelAtATime, PendingSlots
  <2>1. isTransitionPending /\ slot[k].component \in Members(transitionLevel)
    BY <1>1, PendingExecutor
  <2> QED BY <1>1, <2>1, AroundTransition
<1> QED BY Invariant, <1>1, PTL

\* The executors of a level always fit into their vector.
THEOREM ExecutorCapacity == Spec => []ExecutorsFit
<1>1. IInv => ExecutorsFit
  BY DEF IInv, ExecutorsFit, RegistryInv, ControlInv
<1> QED BY Invariant, <1>1, PTL

\* The last transitionDone() of a level is never missed, and neither is a request
\* for another level.
THEOREM NothingLost == Spec => []NothingForgotten
<1>1. ASSUME IInv PROVE NothingForgotten
  <2>1. size = 0 \/ size > 0
    BY <1>1, TypedNumbers DEF IInv, Numbers
  <2> QED BY <1>1, <2>1 DEF IInv, WakeInv, NoLostWakeup, NothingForgotten
<1> QED BY Invariant, <1>1, PTL

\* The manager keeps the library's promise: only registrations and completed
\* transitions change what the promise speaks of, and each of them is a step the
\* promise allows.
THEOREM ManagerImplementsLevels == Spec => ImplementsLevels
<1> DEFINE M == [l \in Levels |-> Members(l)]
<1>1. ASSUME Init PROVE Promise!LevelsInit
  <2>1. \A l \in Levels : Members(l) = {}
    BY <1>1, ConstantsAssumption DEF Init, Members, Components, Levels
  <2> QED BY <1>1, <2>1 DEF Init, Promise!LevelsInit
<1>2. ASSUME IInv, IInv', [Next]_vars
      PROVE  [Promise!LevelsNext]_(Promise!levelVars)
  <2>0. Numbers
    BY <1>2, TypedNumbers DEF IInv
  <2>1. CASE UNCHANGED <<levelIndices, life>>
    <3>1. M' = M
      BY <2>1 DEF Members
    <3> QED BY <2>1, <3>1 DEF Promise!levelVars
  <2>2. ASSUME NEW level \in Levels, AddComponent(level)
        PROVE  Promise!LevelsNext
    <3>1. /\ componentCount \in Components
          /\ \A l \in Levels : componentCount \notin Members(l)
          /\ \A l \in Levels : Members(l)' = IF l = level THEN Members(l) \cup {componentCount}
                                             ELSE Members(l)
      BY <1>2, <2>2, AddComponentMembers
    <3>2. \A l \in Levels : M'[l] = IF l = level THEN M[l] \cup {componentCount} ELSE M[l]
      BY <3>1
    <3>3. M' = [M EXCEPT ![level] = @ \cup {componentCount}]
      BY <3>2
    <3>4. (\A d \in Components : life[d] = "none") /\ life' = life
      BY <1>2, <2>2 DEF AddComponent, IInv, ControlInv
    <3>5. Promise!Register(componentCount, level)
      BY <3>1, <3>3, <3>4 DEF Promise!Register
    <3> QED BY <3>1, <3>5 DEF Promise!LevelsNext
  <2>3. ASSUME NEW k \in Slots, TransitionDone(k)
        PROVE  Promise!LevelsNext
    <3>1. /\ k \in 1 .. size /\ slot[k].isPending
      BY <2>3, <2>0 DEF TransitionDone, Slots, Numbers
    <3> DEFINE d == slot[k].component
    <3>2. /\ isTransitionPending /\ transitionLevel \in Levels
          /\ slot[k].transition = transition /\ d \in Members(transitionLevel)
          /\ life[d] \in Before(transition)
      BY <1>2, <3>1, PendingExecutor
    <3>3. /\ M' = M /\ M[transitionLevel] = Members(transitionLevel)
          /\ d \in Components
          /\ life' = [life EXCEPT ![d] = Completed(transition)]
      BY <2>3, <3>2 DEF TransitionDone, Members, registryVars
    <3>4. \/ transition = "INIT" /\ currentLevel + 1 = transitionLevel /\ initLevelCount = transitionLevel
          \/ transition = "RUN" /\ currentLevel = transitionLevel
          \/ transition = "SHUTDOWN" /\ currentLevel + 1 = transitionLevel
      BY <1>2, <3>2 DEF IInv, ControlInv, TypeOK, Transitions
    <3>5. \A l \in Levels : \A c \in Members(l) :
            /\ l < transitionLevel => life[c] = "running"
            /\ l > transitionLevel => life[c] # "running"
      BY <1>2, <3>2, AroundTransition
    <3>6. Promise!BelowRunning(transitionLevel) /\ Promise!AboveDown(transitionLevel)
      BY <3>5 DEF Promise!BelowRunning, Promise!AboveDown
    <3>7. CASE transition = "INIT"
      <4>1. life[d] = "none" /\ Completed(transition) = "initialized"
        BY <3>2, <3>7 DEF Before, Completed
      <4>2. Promise!Initialize(transitionLevel, d)
        BY <4>1, <3>2, <3>3, <3>6 DEF Promise!Initialize
      <4> QED BY <4>2, <3>2, <3>3 DEF Promise!LevelsNext
    <3>8. CASE transition = "RUN"
      <4>1. life[d] \in {"initialized", "stopped"} /\ Completed(transition) = "running"
        BY <3>2, <3>8 DEF Before, Completed
      <4>2. \A c \in Members(transitionLevel) : life[c] # "none"
        BY <1>2, <3>2, <3>8 DEF IInv, LifeInv, Before, Completed
      <4>3. Promise!Run(transitionLevel, d)
        BY <4>1, <4>2, <3>2, <3>3, <3>6 DEF Promise!Run
      <4> QED BY <4>3, <3>2, <3>3 DEF Promise!LevelsNext
    <3>9. CASE transition = "SHUTDOWN"
      <4>1. life[d] = "running" /\ Completed(transition) = "stopped"
        BY <3>2, <3>9 DEF Before, Completed
      <4>2. Promise!Shutdown(transitionLevel, d)
        BY <4>1, <3>2, <3>3, <3>6 DEF Promise!Shutdown
      <4> QED BY <4>2, <3>2, <3>3 DEF Promise!LevelsNext
    <3> QED BY <3>4, <3>7, <3>8, <3>9
  <2>4. CASE UNCHANGED vars
    BY <2>1, <2>4 DEF vars, managerVars, registryVars
  <2>5. CASE \E level \in 0 .. MaxLevels + 1 : TransitionToLevel(level)
    BY <2>1, <2>5 DEF TransitionToLevel, registryVars
  <2>6. CASE ManagerStep
    BY <2>1, <2>6 DEF ManagerStep, ExecutePending, ExecuteIdle, ExecuteLevelDone, NotifyDone,
       ChooseNothing, ChooseShutdown, ChooseInit, ChooseRun, BeginTransition, StartExecutor,
       EndStart, registryVars
  <2>7. CASE ComponentStep
    BY <2>1, <2>3, <2>7 DEF ComponentStep, StartTransition, TransitionDoneInfo,
       TransitionDoneExecute, registryVars
  <2> QED BY <1>2, <2>2, <2>4, <2>5, <2>6, <2>7 DEF Next
<1> QED BY Invariant, <1>1, <1>2, PTL DEF Spec, ImplementsLevels, Promise!LevelsSpec
===============================================================================
