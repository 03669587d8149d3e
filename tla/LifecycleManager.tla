--------------------------- MODULE LifecycleManager ---------------------------
(***************************************************************************)
(* libs/bsw/lifecycle: the LifecycleManager brings the registered          *)
(* components of an application up and down level by level.  execute()     *)
(* runs in the manager's transition context; every component runs its      *)
(* transition in a context of its own choice and answers with              *)
(* transitionDone() from there, without a lock.  The steps of execute()    *)
(* and of transitionDone() are therefore separate actions.                 *)
(*                                                                         *)
(* transitionToLevel() is called by the code base in the transition        *)
(* context (app.cpp before the tasks start, LifecycleControlCommand        *)
(* through an AsyncCommandWrapper, listeners from their callback): it does *)
(* not run between two steps of execute() other than a callback.           *)
(***************************************************************************)
EXTENDS Integers, FiniteSets

CONSTANTS MaxComponents,   \* _componentInfos.size()
          MaxLevels,       \* _levelIndices.size() - 1
          MaxPerLevel,     \* _componentTransitionExecutors.max_size()
          InManagerContext \* components whose getTransitionContext() is CONTEXT_INVALID

Components == 0 .. MaxComponents - 1
Levels     == 1 .. MaxLevels
Slots      == 1 .. MaxPerLevel
Transitions == {"INIT", "RUN", "SHUTDOWN"}
LifeStates  == {"none", "initialized", "running", "stopped"}

ASSUME ConstantsAssumption == /\ MaxComponents \in Nat \ {0}
                              /\ MaxLevels \in Nat \ {0}
                              /\ MaxPerLevel \in Nat \ {0}
                              /\ InManagerContext \subseteq 0 .. MaxComponents - 1

VARIABLES
  \* the registry
  levelIndices, levelCount, componentCount,
  \* ComponentInfo::_isTransitionPending of every component
  infoPending,
  \* _componentTransitionExecutors: the vector's memory and its size
  slot, size,
  \* the progress of the manager
  isTransitionPending, transition, transitionLevel,
  initLevelCount, currentLevel, targetLevel,
  \* the manager's runnable: queued in the transition context, place in execute()
  enqueued, pc, reported,
  \* started: transitionToLevel() has been called
  started,
  \* calls of transitionDone() that have cleared an executor and not returned
  calls,
  \* what every component has completed
  life

registryVars == <<levelIndices, levelCount, componentCount>>
levelVars    == <<isTransitionPending, transition, transitionLevel,
                  initLevelCount, currentLevel>>
managerVars  == <<registryVars, infoPending, slot, size, levelVars, targetLevel,
                  enqueued, pc, reported, started>>
vars         == <<managerVars, calls, life>>

\* A ComponentTransitionExecutor; `started' is FALSE while it waits in the queue
\* of its component's context.
Executor == [component : Components, transition : Transitions,
             isPending : BOOLEAN, started : BOOLEAN]

\* A call of transitionDone() that holds a reference to the executor in `slot'.
Call == [component : Components, slot : Slots, step : {"info", "execute"}]

TypeOK ==
  /\ levelIndices \in [0 .. MaxLevels -> 0 .. MaxComponents]
  /\ levelCount \in 0 .. MaxLevels
  /\ componentCount \in 0 .. MaxComponents
  /\ infoPending \in [Components -> BOOLEAN]
  /\ slot \in [Slots -> Executor]
  /\ size \in 0 .. MaxPerLevel
  /\ isTransitionPending \in BOOLEAN
  /\ transition \in Transitions
  /\ transitionLevel \in 0 .. MaxLevels
  /\ initLevelCount \in 0 .. MaxLevels
  /\ currentLevel \in 0 .. MaxLevels
  /\ targetLevel \in 0 .. MaxLevels
  /\ enqueued \in BOOLEAN
  /\ pc \in {"idle", "notify", "choose", "start"}
  /\ reported \in Transitions
  /\ started \in BOOLEAN
  /\ calls \in SUBSET Call
  /\ life \in [Components -> LifeStates]

\* The components of level l: the range the loop in execute() runs over.
Members(l) == {c \in Components : levelIndices[l - 1] <= c /\ c < levelIndices[l]}

\* The memory of the executors before the first emplace_back (never read).
NoExecutor == [component |-> 0, transition |-> "INIT",
               isPending |-> FALSE, started |-> FALSE]

Init ==
  /\ levelIndices = [l \in 0 .. MaxLevels |-> 0]
  /\ levelCount = 0 /\ componentCount = 0
  /\ infoPending = [c \in Components |-> FALSE]
  /\ slot = [k \in Slots |-> NoExecutor] /\ size = 0
  /\ isTransitionPending = FALSE /\ transition = "INIT" /\ transitionLevel = 0
  /\ initLevelCount = 0 /\ currentLevel = 0 /\ targetLevel = 0
  /\ enqueued = FALSE /\ pc = "idle" /\ reported = "INIT" /\ started = FALSE
  /\ calls = {}
  /\ life = [c \in Components |-> "none"]

\* Mutant: the number of components of a level is not limited.
AddComponentUnlimited(level) ==
  /\ ~started
  /\ componentCount < MaxComponents
  /\ level >= levelCount
  /\ levelIndices' = [l \in 0 .. MaxLevels |->
                        IF l > levelCount /\ l < level THEN levelIndices[levelCount]
                        ELSE IF l = level THEN levelIndices[levelCount] + 1
                        ELSE levelIndices[l]]
  /\ levelCount' = level
  /\ componentCount' = componentCount + 1
  /\ UNCHANGED <<infoPending, slot, size, levelVars, targetLevel, enqueued, pc,
                 reported, started, calls, life>>

\* addComponent(): the assertions are the guard, the while loop fills the
\* indices of the levels without components.
AddComponent(level) ==
  /\ ~started
  /\ componentCount < MaxComponents
  /\ level >= levelCount
  /\ (level = levelCount) =>
       levelIndices[level] - levelIndices[level - 1] < MaxPerLevel
  /\ levelIndices' = [l \in 0 .. MaxLevels |->
                        IF l > levelCount /\ l < level THEN levelIndices[levelCount]
                        ELSE IF l = level THEN levelIndices[levelCount] + 1
                        ELSE levelIndices[l]]
  /\ levelCount' = level
  /\ componentCount' = componentCount + 1
  /\ UNCHANGED <<infoPending, slot, size, levelVars, targetLevel, enqueued, pc,
                 reported, started, calls, life>>

\* No component that shares the manager's context is inside transitionDone().
ManagerContextFree == \A call \in calls : call.component \notin InManagerContext

\* transitionToLevel(): clamps the level and schedules execute().
TransitionToLevel(level) ==
  /\ \/ pc = "idle" /\ ManagerContextFree
     \/ pc = "notify"
  /\ targetLevel' = IF level <= MaxLevels THEN level ELSE MaxLevels
  /\ enqueued' = TRUE
  /\ started' = TRUE
  /\ UNCHANGED <<registryVars, infoPending, slot, size, levelVars, pc, reported,
                 calls, life>>

\* Mutant: the pending executors are not looked at.
AllExecutorsIgnored == TRUE

\* The loop over the executors in checkLevelTransitionDone().
AllExecutorsDone == \A k \in 1 .. size : ~slot[k].isPending

\* execute() up to the end of a level: the runnable leaves its queue, and
\* checkLevelTransitionDone() returns FALSE while an executor is pending.
ExecutePending ==
  /\ pc = "idle" /\ enqueued /\ ManagerContextFree
  /\ isTransitionPending /\ ~AllExecutorsDone
  /\ enqueued' = FALSE
  /\ UNCHANGED <<registryVars, infoPending, slot, size, levelVars, targetLevel,
                 pc, reported, started, calls, life>>

\* checkLevelTransitionDone() with nothing pending returns TRUE at once.
ExecuteIdle ==
  /\ pc = "idle" /\ enqueued /\ ManagerContextFree
  /\ ~isTransitionPending
  /\ enqueued' = FALSE /\ pc' = "choose"
  /\ UNCHANGED <<registryVars, infoPending, slot, size, levelVars, targetLevel,
                 reported, started, calls, life>>

\* checkLevelTransitionDone() with all executors done: clear() the vector and,
\* except after INIT, reset _transition and report the level to the listeners.
ExecuteLevelDone ==
  /\ pc = "idle" /\ enqueued /\ ManagerContextFree
  /\ isTransitionPending /\ AllExecutorsDone
  /\ enqueued' = FALSE
  /\ isTransitionPending' = FALSE
  /\ size' = 0
  /\ pc' = IF transition = "INIT" THEN "choose" ELSE "notify"
  /\ reported' = transition
  /\ transition' = "INIT"
  /\ UNCHANGED <<registryVars, infoPending, slot, transitionLevel, initLevelCount,
                 currentLevel, targetLevel, started, calls, life>>

\* The loop over the listeners, lifecycleLevelReached(_currentLevel, reported),
\* has ended.  While pc = "notify" a listener may call transitionToLevel().
NotifyDone ==
  /\ pc = "notify"
  /\ pc' = "choose"
  /\ UNCHANGED <<registryVars, infoPending, slot, size, levelVars, targetLevel,
                 enqueued, reported, started, calls, life>>

\* execute() returns: the target is reached.
AtTarget == currentLevel = targetLevel /\ initLevelCount >= targetLevel

ChooseNothing ==
  /\ pc = "choose" /\ AtTarget
  /\ pc' = "idle"
  /\ UNCHANGED <<registryVars, infoPending, slot, size, levelVars, targetLevel,
                 enqueued, reported, started, calls, life>>

\* The part of execute() common to the three kinds of transition.
BeginTransition(t) ==
  /\ pc = "choose" /\ ~AtTarget
  /\ transition' = t
  /\ isTransitionPending' = TRUE
  /\ pc' = "start"
  /\ UNCHANGED <<registryVars, infoPending, slot, size, targetLevel, enqueued,
                 reported, started, calls, life>>

\* Mutant: the level is left before its components are shut down.
ChooseShutdownBelow ==
  /\ targetLevel < currentLevel
  /\ transitionLevel' = IF currentLevel > 1 THEN currentLevel - 1 ELSE currentLevel
  /\ currentLevel' = currentLevel - 1
  /\ BeginTransition("SHUTDOWN")
  /\ UNCHANGED initLevelCount

ChooseShutdown ==
  /\ targetLevel < currentLevel
  /\ transitionLevel' = currentLevel
  /\ currentLevel' = currentLevel - 1
  /\ BeginTransition("SHUTDOWN")
  /\ UNCHANGED initLevelCount

\* Mutant: every bring-up begins with INIT.
InitWanted == initLevelCount < targetLevel

InitDue == initLevelCount < targetLevel /\ initLevelCount = currentLevel

ChooseInit ==
  /\ targetLevel >= currentLevel /\ InitDue
  /\ initLevelCount' = initLevelCount + 1
  /\ transitionLevel' = initLevelCount + 1
  /\ BeginTransition("INIT")
  /\ UNCHANGED currentLevel

ChooseRun ==
  /\ targetLevel >= currentLevel /\ ~InitDue
  /\ currentLevel' = currentLevel + 1
  /\ transitionLevel' = currentLevel + 1
  /\ BeginTransition("RUN")
  /\ UNCHANGED initLevelCount

\* The next component of the loop in execute(); the executors hold the ones before.
NextComponent == levelIndices[transitionLevel - 1] + size

\* One round of the loop: emplace_back() the executor and queue it in the
\* context of its component, which may run before the loop goes on.
StartExecutor ==
  /\ pc = "start"
  /\ NextComponent < levelIndices[transitionLevel]
  /\ slot' = [slot EXCEPT ![size + 1] =
                [component |-> NextComponent, transition |-> transition,
                 isPending |-> TRUE, started |-> FALSE]]
  /\ size' = size + 1
  /\ infoPending' = [infoPending EXCEPT ![NextComponent] = TRUE]
  /\ UNCHANGED <<registryVars, levelVars, targetLevel, enqueued, pc, reported,
                 started, calls, life>>

\* Mutant: a level without components does not schedule execute() again.
EndStartQuiet ==
  /\ pc = "start"
  /\ NextComponent >= levelIndices[transitionLevel]
  /\ pc' = "idle"
  /\ UNCHANGED <<registryVars, infoPending, slot, size, levelVars, targetLevel,
                 enqueued, reported, started, calls, life>>

\* The end of execute(): a level without components goes on by itself.
EndStart ==
  /\ pc = "start"
  /\ NextComponent >= levelIndices[transitionLevel]
  /\ enqueued' = IF size = 0 THEN TRUE ELSE enqueued
  /\ pc' = "idle"
  /\ UNCHANGED <<registryVars, infoPending, slot, size, levelVars, targetLevel,
                 reported, started, calls, life>>

\* A component of the manager's context runs only while the manager does not,
\* and not inside another component's transitionDone() of that context.
MayRun(c) == c \in InManagerContext => pc = "idle"
MayEnter(c) == MayRun(c) /\ (c \in InManagerContext => ManagerContextFree)

\* ComponentTransitionExecutor::execute() calls startTransition().
StartTransition(k) ==
  /\ k <= size /\ ~slot[k].started
  /\ MayEnter(slot[k].component)
  /\ slot' = [slot EXCEPT ![k].started = TRUE]
  /\ UNCHANGED <<registryVars, infoPending, size, levelVars, targetLevel, enqueued,
                 pc, reported, started, calls, life>>

Completed(t) == CASE t = "INIT" -> "initialized"
                  [] t = "RUN" -> "running"
                  [] t = "SHUTDOWN" -> "stopped"

\* transitionDone(): the component's executor is found and no longer pending.
TransitionDone(k) ==
  /\ k <= size /\ slot[k].started /\ slot[k].isPending
  /\ MayEnter(slot[k].component)
  /\ slot' = [slot EXCEPT ![k].isPending = FALSE]
  /\ calls' = calls \cup {[component |-> slot[k].component, slot |-> k, step |-> "info"]}
  /\ life' = [life EXCEPT ![slot[k].component] = Completed(slot[k].transition)]
  /\ UNCHANGED <<registryVars, infoPending, size, levelVars, targetLevel, enqueued,
                 pc, reported, started>>

\* transitionDone() goes on to the ComponentInfo, by the index it reads through
\* its reference to the executor.
TransitionDoneInfo(call) ==
  /\ call.step = "info" /\ MayRun(call.component)
  /\ infoPending' = [infoPending EXCEPT ![slot[call.slot].component] = FALSE]
  /\ calls' = (calls \ {call}) \cup {[call EXCEPT !.step = "execute"]}
  /\ UNCHANGED <<registryVars, slot, size, levelVars, targetLevel, enqueued, pc,
                 reported, started, life>>

\* Mutant: transitionDone() forgets async::execute().
TransitionDoneNoExecute(call) ==
  /\ call.step = "execute" /\ MayRun(call.component)
  /\ calls' = calls \ {call}
  /\ UNCHANGED <<managerVars, life>>

\* transitionDone() ends by scheduling execute(), once if it is scheduled already.
TransitionDoneExecute(call) ==
  /\ call.step = "execute" /\ MayRun(call.component)
  /\ enqueued' = TRUE
  /\ calls' = calls \ {call}
  /\ UNCHANGED <<registryVars, infoPending, slot, size, levelVars, targetLevel, pc,
                 reported, started, life>>

\* The manager's runnable, in the transition context.
ManagerStep == \/ ExecutePending \/ ExecuteIdle \/ ExecuteLevelDone \/ NotifyDone
               \/ ChooseNothing \/ ChooseShutdown \/ ChooseInit \/ ChooseRun
               \/ StartExecutor \/ EndStart

\* A component's transition, in the context of the component.
ComponentStep == \/ \E k \in Slots : StartTransition(k) \/ TransitionDone(k)
                 \/ \E call \in calls : \/ TransitionDoneInfo(call)
                                        \/ TransitionDoneExecute(call)

Next == \/ \E level \in Levels : AddComponent(level)
        \/ \E level \in 0 .. MaxLevels + 1 : TransitionToLevel(level)
        \/ ManagerStep
        \/ ComponentStep

Spec == Init /\ [][Next]_vars

\* The transition context runs, every started transition calls transitionDone(),
\* and every context goes on.
Fairness == /\ WF_vars(ManagerStep)
            /\ \A k \in Slots : WF_vars(StartTransition(k)) /\ WF_vars(TransitionDone(k))
            /\ WF_vars(\E call \in calls : TransitionDoneInfo(call))
            /\ WF_vars(\E call \in calls : TransitionDoneExecute(call))

FairSpec == Spec /\ Fairness
-------------------------------------------------------------------------------
\* The executors that have not called transitionDone() yet.
PendingSlots == {k \in 1 .. size : slot[k].isPending}

\* lifecycleLevelReached(_currentLevel, t) tells the truth: while the listeners
\* are called no transition is under way, every component of a level up to
\* _currentLevel is running and no component of a higher level is.
ReportedLevelIsReached ==
  pc = "notify" =>
    /\ size = 0
    /\ \A l \in Levels : \A c \in Members(l) : (life[c] = "running") <=> (l <= currentLevel)
    /\ reported # "INIT"

\* A component is asked only for a transition it is ready for, whatever the order
\* of the calls of transitionToLevel(): INIT once and first, RUN after INIT or
\* SHUTDOWN, SHUTDOWN after RUN.
TransitionsInOrder ==
  \A k \in PendingSlots :
    life[slot[k].component] \in CASE slot[k].transition = "INIT" -> {"none"}
                                  [] slot[k].transition = "RUN" -> {"initialized", "stopped"}
                                  [] slot[k].transition = "SHUTDOWN" -> {"running"}

\* Components in transition at the same time belong to one level, the levels below
\* it run completely, and the levels above it do not run at all.
OneLevelAtATime ==
  \A k \in PendingSlots :
    /\ slot[k].component \in Members(transitionLevel)
    /\ \A l \in Levels : \A c \in Members(l) :
         /\ l < transitionLevel => life[c] = "running"
         /\ l > transitionLevel => life[c] # "running"

\* The vector of executors, whose capacity is checked only by addComponent(),
\* has room for every component the loop in execute() is going to start.
ExecutorsFit ==
  pc = "start" => levelIndices[transitionLevel] - levelIndices[transitionLevel - 1] <= MaxPerLevel

\* No wake-up is lost: when all components of a level have answered, execute() is
\* running, scheduled, or going to be scheduled by a transitionDone() under way.
NoLostWakeup ==
  isTransitionPending /\ AllExecutorsDone => enqueued \/ pc # "idle" \/ calls # {}

\* No request is lost: while the target is not reached something is still to come.
NoLostRequest ==
  ~AtTarget => enqueued \/ pc # "idle" \/ isTransitionPending

\* Neither the last answer of a level nor a request for another one is ever forgotten.
NothingForgotten == NoLostWakeup /\ NoLostRequest

\* ComponentInfo::_isTransitionPending "stores whether this component is currently
\* performing a transition": it is set as long as transitionDone() has not been called.
InfoMatchesExecutors ==
  \A k \in PendingSlots : infoPending[slot[k].component]

\* The library's promise, over the components' own view of their life.
Promise == INSTANCE LifecycleLevels
             WITH members <- [l \in Levels |-> Members(l)], life <- life

\* Every behaviour of the manager is one the promise allows.
ImplementsLevels == Promise!LevelsSpec

\* When the requested level stops changing the manager gets there and stays.
TargetReached ==
  \A l \in 0 .. MaxLevels :
    <>[](targetLevel = l) => <>[](currentLevel = l /\ ~isTransitionPending)
===============================================================================
