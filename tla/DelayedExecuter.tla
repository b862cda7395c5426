--------------------------- MODULE DelayedExecuter --------------------------
(***************************************************************************)
(* DelayedExecuter (helpers/delayed.cpp) runs a callback once the value it *)
(* belongs to has not changed for a while.  A thread looks for executions  *)
(* that are due and goes to sleep when none is active; Update is to wake   *)
(* it.  main creates one executer, and its thread runs, but nothing in the *)
(* program registers an execution: the calls modelled here are those the   *)
(* class offers, made by one thread.                                       *)
(*                                                                         *)
(* m_mutex_data is held while the thread looks through the executions and  *)
(* from the beginning to the end of every call, m_mutex_note only around   *)
(* m_suspended.                                                            *)
(***************************************************************************)
EXTENDS Integers

CONSTANTS
    Ids,      \* the executions
    Values,   \* what their values can be
    Never,    \* neither of them: no execution, no value yet
    Delay     \* delayDuration, in units of Tick

ASSUME NeverAssumption == Never \notin Values \cup Ids
ASSUME DelayAssumption == Delay \in Nat

VARIABLES
    registered,  \* the executions in m_delayedExecutions
    active,      \* those with active set
    value,       \* Execution::value
    age,         \* the time since lastTime, up to Delay
    pc,          \* where the thread is
    hasActive,   \* the local variable of _threadimpl
    suspended,   \* m_suspended
    caller,      \* the execution an Update under way is for; Never: none
    done,        \* history: what the callback was called with last
    raced        \* history: an Update found the thread on its way to sleep

dataVars == <<registered, active, value, age>>
threadVars == <<pc, hasActive>>
executerVars == <<dataVars, threadVars, suspended, caller, done, raced>>

DataMutexFree == caller = Never

ExecuterInit ==
    /\ registered = {} /\ active = {}
    /\ value = [id \in Ids |-> Never]
    /\ age = [id \in Ids |-> 0]
    /\ pc = "scan" /\ hasActive = FALSE /\ suspended = FALSE
    /\ caller = Never
    /\ done = [id \in Ids |-> Never]
    /\ raced = FALSE

-----------------------------------------------------------------------------
(***************************************************************************)
(* The calls.                                                              *)
(***************************************************************************)
\* The value of a new Execution is not initialized.
Register(id) ==
    /\ DataMutexFree /\ id \notin registered
    /\ registered' = registered \cup {id}
    /\ \E v \in Values : value' = [value EXCEPT ![id] = v]
    /\ age' = [age EXCEPT ![id] = 0]
    /\ UNCHANGED <<active, threadVars, suspended, caller, done, raced>>

\* Update, up to _maybe_wake.
Update(id, v) ==
    /\ DataMutexFree /\ id \in registered
    /\ \/ /\ value[id] = v
          /\ UNCHANGED <<value, age, active, caller>>
       \/ /\ value[id] # v
          /\ value' = [value EXCEPT ![id] = v]
          /\ age' = [age EXCEPT ![id] = 0]
          /\ active' = active \cup {id}
          /\ caller' = id
    /\ UNCHANGED <<registered, threadVars, suspended, done, raced>>

\* Definitions marked "mutant" carry a mistake on purpose; the mutation checks
\* put each in the place of the definition after it.

\* mutant: the thread is not woken
MaybeWakeNever ==
    /\ ~DataMutexFree
    /\ raced' = (raced \/ (pc = "decide" /\ ~hasActive))
    /\ caller' = Never
    /\ UNCHANGED <<dataVars, threadVars, suspended, done>>

\* _maybe_wake, the end of Update: a thread that is not suspended is not woken.
MaybeWake ==
    /\ ~DataMutexFree
    /\ suspended' = FALSE
    /\ raced' = (raced \/ (pc = "decide" /\ ~hasActive))
    /\ caller' = Never
    /\ UNCHANGED <<dataVars, threadVars, done>>

\* mutant: the callback is left to the thread
ForcedUpdateLeaves(id, v) ==
    /\ DataMutexFree /\ id \in registered
    /\ value' = [value EXCEPT ![id] = v]
    /\ UNCHANGED <<registered, active, age, threadVars, suspended, caller, done, raced>>

ForcedUpdate(id, v) ==
    /\ DataMutexFree /\ id \in registered
    /\ \/ /\ value[id] = v
          /\ UNCHANGED <<value, active, done>>
       \/ /\ value[id] # v
          /\ value' = [value EXCEPT ![id] = v]
          /\ active' = active \ {id}
          /\ done' = [done EXCEPT ![id] = v]
    /\ UNCHANGED <<registered, age, threadVars, suspended, caller, raced>>

-----------------------------------------------------------------------------
(***************************************************************************)
(* The thread.                                                             *)
(***************************************************************************)
\* One pass over the executions, under m_mutex_data.
Scan ==
    /\ pc = "scan" /\ DataMutexFree
    /\ LET due == {id \in active : age[id] = Delay}
       IN  /\ active' = active \ due
           /\ done' = [id \in Ids |-> IF id \in due THEN value[id] ELSE done[id]]
    /\ hasActive' = (active # {})
    /\ pc' = "decide"
    /\ raced' = FALSE
    /\ UNCHANGED <<registered, value, age, suspended, caller>>

\* mutant: m_suspended is set whether or not the thread goes to sleep
DecideSuspends ==
    /\ pc = "decide"
    /\ pc' = IF hasActive THEN "scan" ELSE "waiting"
    /\ suspended' = TRUE
    /\ UNCHANGED <<dataVars, hasActive, caller, done, raced>>

\* After 25 ms the thread looks again, or goes to sleep: _wait sets m_suspended.
Decide ==
    /\ pc = "decide"
    /\ IF hasActive THEN pc' = "scan" /\ UNCHANGED suspended
                    ELSE pc' = "waiting" /\ suspended' = TRUE
    /\ UNCHANGED <<dataVars, hasActive, caller, done, raced>>

\* mutant: notify_all is missing
WakeNever == FALSE

\* The thread is notified and finds m_suspended reset.
Wake ==
    /\ pc = "waiting" /\ ~suspended
    /\ pc' = "scan"
    /\ UNCHANGED <<dataVars, hasActive, suspended, caller, done, raced>>

Thread == Scan \/ Decide \/ Wake

Tick ==
    /\ \E id \in Ids : age[id] < Delay
    /\ age' = [id \in Ids |-> IF age[id] < Delay THEN age[id] + 1 ELSE Delay]
    /\ UNCHANGED <<registered, active, value, threadVars, suspended, caller, done, raced>>

ExecuterNext ==
    \/ \E id \in Ids : \/ Register(id)
                       \/ \E v \in Values : Update(id, v) \/ ForcedUpdate(id, v)
    \/ MaybeWake
    \/ Thread
    \/ Tick

ExecuterSpec == ExecuterInit /\ [][ExecuterNext]_executerVars

\* The thread runs, calls return and time passes; nobody has to call.
ExecuterFairSpec ==
    /\ ExecuterSpec
    /\ WF_executerVars(Thread) /\ WF_executerVars(MaybeWake) /\ WF_executerVars(Tick)

-----------------------------------------------------------------------------
(***************************************************************************)
(* The type invariant; only a registered execution is active.              *)
(***************************************************************************)
ExecuterTypeOK ==
    /\ registered \in SUBSET Ids /\ active \in SUBSET registered
    /\ value \in [Ids -> Values \cup {Never}]
    /\ \A id \in Ids : id \in registered <=> value[id] # Never
    /\ age \in [Ids -> 0..Delay]
    /\ pc \in {"scan", "decide", "waiting"}
    /\ hasActive \in BOOLEAN /\ suspended \in BOOLEAN /\ raced \in BOOLEAN
    /\ suspended => pc = "waiting"
    /\ caller \in active \cup {Never}
    /\ done \in [Ids -> Values \cup {Never}]

(***************************************************************************)
(* When nothing is pending for an execution, its callback has had the      *)
(* value it has now, or none at all: an update that was overtaken by a     *)
(* forced one never comes after it.                                        *)
(***************************************************************************)
DoneIsLatest ==
    \A id \in registered \ active : done[id] \in {value[id], Never}

(***************************************************************************)
(* The thread is asleep with an execution pending only if the Update came  *)
(* between its last pass and its going to sleep.                           *)
(***************************************************************************)
AsleepOnlyIfRaced ==
    suspended /\ DataMutexFree /\ active # {} => raced

(***************************************************************************)
(* Once nobody calls any more, everything pending is run, unless the       *)
(* thread went to sleep in that one race.                                  *)
(***************************************************************************)
EverythingRuns ==
    <>[]DataMutexFree => <>[](active = {} \/ (suspended /\ raced))
=============================================================================
