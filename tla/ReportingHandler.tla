-------------------------- MODULE ReportingHandler --------------------------
(***************************************************************************)
(* The ReportingHandler of an SFSClient: one logging callback, shared by   *)
(* all the threads that use the client, behind a mutex that is held while  *)
(* the callback runs.  A thread logs, or replaces the callback.  The names *)
(* are its own, so that its proofs can stand beside those of the clients.  *)
(***************************************************************************)
EXTENDS Naturals, FiniteSets

CONSTANTS
  Threads,    \* the threads that share the client
  Callbacks,  \* the callbacks that applications set
  NoCallback, \* an empty std::function
  Nobody      \* the holder of a free mutex

ASSUME NoCallbackAssumption == NoCallback \notin Callbacks
ASSUME NobodyAssumption     == Nobody \notin Threads

VARIABLES
  at,                   \* where each thread is
  m_loggingCallbackFn,  \* the callback that is set
  holder,               \* the thread that holds m_loggingCallbackFnMutex
  replacement,          \* the argument of each thread's SetLoggingCallback
  running,              \* the callback that each thread executes
  replaced              \* history: callbacks whose replacement has returned

handlerVars == <<at, m_loggingCallbackFn, holder, replacement, running, replaced>>

HandlerInit ==
  /\ at = [t \in Threads |-> "idle"]
  /\ m_loggingCallbackFn = NoCallback
  /\ holder = Nobody
  /\ replacement = [t \in Threads |-> NoCallback]
  /\ running = [t \in Threads |-> NoCallback]
  /\ replaced = {}

Advance(t, from, to) == at[t] = from /\ at' = [at EXCEPT ![t] = to]

Lock(t) == holder = Nobody /\ holder' = t

Unlock(t) == holder' = Nobody

-----------------------------------------------------------------------------
(* CallLoggingCallback. *)

Log(t) ==
  /\ Advance(t, "idle", "wantsToLog")
  /\ UNCHANGED <<m_loggingCallbackFn, holder, replacement, running, replaced>>

LockToLog(t) ==
  /\ Advance(t, "wantsToLog", "checks")
  /\ Lock(t)
  /\ UNCHANGED <<m_loggingCallbackFn, replacement, running, replaced>>

\* Nothing to call: the guard is destroyed.
SkipCall(t) ==
  /\ Advance(t, "checks", "idle")
  /\ m_loggingCallbackFn = NoCallback
  /\ Unlock(t)
  /\ UNCHANGED <<m_loggingCallbackFn, replacement, running, replaced>>

BugCallUnlocked(t) ==
  /\ Advance(t, "checks", "calls")
  /\ m_loggingCallbackFn # NoCallback
  /\ running' = [running EXCEPT ![t] = m_loggingCallbackFn]
  /\ Unlock(t)
  /\ UNCHANGED <<m_loggingCallbackFn, replacement, replaced>>

Call(t) ==
  /\ Advance(t, "checks", "calls")
  /\ m_loggingCallbackFn # NoCallback
  /\ running' = [running EXCEPT ![t] = m_loggingCallbackFn]
  /\ UNCHANGED <<m_loggingCallbackFn, holder, replacement, replaced>>

\* The callback returns or throws: the guard is destroyed either way.
EndCallback(t) ==
  /\ Advance(t, "calls", "idle")
  /\ running' = [running EXCEPT ![t] = NoCallback]
  /\ Unlock(t)
  /\ UNCHANGED <<m_loggingCallbackFn, replacement, replaced>>

-----------------------------------------------------------------------------
(* SetLoggingCallback. *)

SetLoggingCallback(t, callback) ==
  /\ Advance(t, "idle", "wantsToSet")
  /\ replacement' = [replacement EXCEPT ![t] = callback]
  /\ UNCHANGED <<m_loggingCallbackFn, holder, running, replaced>>

BugSetUnlocked(t) ==
  /\ Advance(t, "wantsToSet", "sets")
  /\ holder' = t
  /\ UNCHANGED <<m_loggingCallbackFn, replacement, running, replaced>>

LockToSet(t) ==
  /\ Advance(t, "wantsToSet", "sets")
  /\ Lock(t)
  /\ UNCHANGED <<m_loggingCallbackFn, replacement, running, replaced>>

BugForgetToUnlock(t) ==
  /\ Advance(t, "sets", "idle")
  /\ m_loggingCallbackFn' = replacement[t]
  /\ replacement' = [replacement EXCEPT ![t] = NoCallback]
  /\ replaced' = (replaced \cup {m_loggingCallbackFn}) \ {replacement[t]}
  /\ UNCHANGED <<running, holder>>

\* The old callback is destroyed by the assignment, and the call returns.
Assign(t) ==
  /\ Advance(t, "sets", "idle")
  /\ m_loggingCallbackFn' = replacement[t]
  /\ replacement' = [replacement EXCEPT ![t] = NoCallback]
  /\ replaced' = (replaced \cup {m_loggingCallbackFn}) \ {replacement[t]}
  /\ Unlock(t)
  /\ UNCHANGED running

-----------------------------------------------------------------------------

Finish(t) == LockToLog(t) \/ SkipCall(t) \/ Call(t) \/ EndCallback(t)
             \/ LockToSet(t) \/ Assign(t)

HandlerNext ==
  \E t \in Threads :
    \/ Log(t)
    \/ \E callback \in Callbacks \cup {NoCallback} : SetLoggingCallback(t, callback)
    \/ Finish(t)

\* A thread that can go on does, and callbacks return: API.md asks for
\* callbacks that do not block.  A mutex promises no turn to any one waiter.
Fairness == \A t \in Threads : WF_handlerVars(Finish(t))

HandlerSpec == HandlerInit /\ [][HandlerNext]_handlerVars /\ Fairness

-----------------------------------------------------------------------------
(* Correctness. *)

Inside == {"checks", "calls", "sets"}

HandlerTypeOK ==
  /\ at \in [Threads -> {"idle", "wantsToLog", "wantsToSet"} \cup Inside]
  /\ m_loggingCallbackFn \in Callbacks \cup {NoCallback}
  /\ holder \in Threads \cup {Nobody}
  /\ replacement \in [Threads -> Callbacks \cup {NoCallback}]
  /\ running \in [Threads -> Callbacks \cup {NoCallback}]
  /\ replaced \subseteq Callbacks \cup {NoCallback}

(* Only one thread at a time is in the callback (the class comment of          *)
(* ReportingHandler.h), whichever callback it is.                              *)
OneCallAtATime ==
  \A t, u \in Threads : at[t] = "calls" /\ at[u] = "calls" => t = u

(* SetLoggingCallback waits for a call in progress: once it has returned, the  *)
(* callback it replaced is not running, nor does it run later unless it is set *)
(* again.  So the application may destroy what that callback refers to.        *)
ReplacedCallbackIsOver ==
  \A t \in Threads : at[t] = "calls" => running[t] \notin replaced

(* The threads do not lock each other out: while some thread waits for the     *)
(* mutex, again and again one of them gets it.                                 *)
SomeoneGetsIn ==
  (\E t \in Threads : at[t] \in {"wantsToLog", "wantsToSet"})
    ~> (\E t \in Threads : at[t] \in Inside)

(* The mutex is free whenever no thread is inside, and otherwise held by the   *)
(* one thread that is: the inductive invariant behind the properties above.    *)
HolderIsInside ==
  /\ \A t \in Threads : at[t] \in Inside <=> holder = t
  /\ \A t \in Threads : at[t] = "calls" => running[t] = m_loggingCallbackFn
  /\ m_loggingCallbackFn \notin replaced

HandlerInv == HandlerTypeOK /\ HolderIsInside

=============================================================================
