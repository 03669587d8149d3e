--------------------------- MODULE LifecycleLevels ---------------------------
(***************************************************************************)
(* What the lifecycle library promises to the components of an             *)
(* application, with nothing said about contexts, executors or callbacks:  *)
(* a component completes INIT once and before anything else, RUN and       *)
(* SHUTDOWN alternate afterwards, a level is brought up only on top of     *)
(* levels that are running completely, and taken down only when nothing    *)
(* above it is running (ILifecycleComponent.h, doc/index.rst and the       *)
(* comment on LifecycleManager::transitionToLevel).                        *)
(* LifecycleManager implements this specification.                         *)
(***************************************************************************)
EXTENDS Naturals

CONSTANTS Components,   \* the components that can be registered
          Levels        \* the run levels, a set of positive integers

VARIABLES members,      \* members[l]: the components registered at level l
          life          \* life[c]: what component c has completed

levelVars == <<members, life>>

LifeStates == {"none", "initialized", "running", "stopped"}

LevelsTypeOK == /\ members \in [Levels -> SUBSET Components]
                /\ life \in [Components -> LifeStates]

LevelsInit == /\ members = [l \in Levels |-> {}]
              /\ life = [c \in Components |-> "none"]

\* Every component of a level below l is running.
BelowRunning(l) == \A k \in Levels : k < l => \A c \in members[k] : life[c] = "running"

\* No component of a level above l is running.
AboveDown(l) == \A k \in Levels : k > l => \A c \in members[k] : life[c] # "running"

\* Registration happens before anything has been initialized, once per component.
Register(c, l) == /\ \A d \in Components : life[d] = "none"
                  /\ \A k \in Levels : c \notin members[k]
                  /\ members' = [members EXCEPT ![l] = @ \cup {c}]
                  /\ UNCHANGED life

Initialize(l, c) == /\ c \in members[l]
                    /\ life[c] = "none"
                    /\ BelowRunning(l) /\ AboveDown(l)
                    /\ life' = [life EXCEPT ![c] = "initialized"]
                    /\ UNCHANGED members

\* A level is run only once every component of it is initialized.
Run(l, c) == /\ c \in members[l]
             /\ life[c] \in {"initialized", "stopped"}
             /\ \A d \in members[l] : life[d] # "none"
             /\ BelowRunning(l) /\ AboveDown(l)
             /\ life' = [life EXCEPT ![c] = "running"]
             /\ UNCHANGED members

Shutdown(l, c) == /\ c \in members[l]
                  /\ life[c] = "running"
                  /\ BelowRunning(l) /\ AboveDown(l)
                  /\ life' = [life EXCEPT ![c] = "stopped"]
                  /\ UNCHANGED members

LevelsNext == \E c \in Components, l \in Levels :
                 Register(c, l) \/ Initialize(l, c) \/ Run(l, c) \/ Shutdown(l, c)

LevelsSpec == LevelsInit /\ [][LevelsNext]_levelVars
==============================================================================
