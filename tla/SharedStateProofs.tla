------------------------ MODULE SharedStateProofs ------------------------
(***************************************************************************)
(* Proofs about what is shared: the process's libcurl, which clients share *)
(* (ClientLifetime), and a client's logging callback, which threads share  *)
(* (ReportingHandler).                                                     *)
(***************************************************************************)
EXTENDS ClientLifetime, ReportingHandler, FiniteSetTheorems, TLAPS

-----------------------------------------------------------------------------
(* Clients, for any finite set of them and any set of configurations.  The     *)
(* count that libcurl keeps is the number of managers plus the abandoned       *)
(* initialisations.  Each step of one client adds it to the managers, takes it *)
(* out, or leaves the set as it is, and changes the count accordingly, so that *)
(* no client can bring the count of another one down.                          *)

(* The managers are a finite set.                                              *)
LEMMA ManagersFinite == IsFiniteSet(Managers) /\ Cardinality(Managers) \in Nat
  BY ClientsAssumption, FS_Subset, FS_CardinalityType DEF Managers

(* In the initial state there are no managers.                                 *)
LEMMA InitInv == Init => IInv
  <1> SUFFICES ASSUME Init PROVE IInv
    OBVIOUS
  <1>1. Managers = {}
    BY DEF Init, Managers
  <1>2. TypeOK
    BY DEF Init, TypeOK
  <1>3. CountIsExact
    BY <1>1, FS_EmptySet DEF Init, CountIsExact
  <1>4. StagesFit
    BY DEF Init, StagesFit
  <1>5. ResultsFit
    BY NoValueAssumption DEF Init, ResultsFit
  <1> QED
    BY <1>2, <1>3, <1>4, <1>5 DEF IInv

(* Types are kept by every step.                                               *)
LEMMA TypeStep == IInv /\ [Next]_vars => TypeOK'
  <1> USE DEF TypeOK, Goto, Return, ThrowCodeIfLog, Codes, curl_global_cleanup
  <1> SUFFICES ASSUME IInv, [Next]_vars PROVE TypeOK'
    OBVIOUS
  <1>0. TypeOK
    BY DEF IInv
  <1>1. ASSUME NEW c \in Clients, NEW cfg \in Configs, Make(c, cfg) PROVE TypeOK'
    BY <1>0, <1>1 DEF Make
  <1>2. ASSUME NEW c \in Clients, Reset(c) PROVE TypeOK'
    BY <1>0, <1>2 DEF Reset
  <1>3. ASSUME NEW c \in Clients, Validate(c) PROVE TypeOK'
    BY <1>0, <1>3 DEF Validate
  <1>4. ASSUME NEW c \in Clients, InitializeCurl(c) PROVE TypeOK'
    BY <1>0, <1>4 DEF InitializeCurl
  <1>5. ASSUME NEW c \in Clients, CheckFeatures(c) PROVE TypeOK'
    BY <1>0, <1>5 DEF CheckFeatures
  <1>6. ASSUME NEW c \in Clients, LogOverrides(c) PROVE TypeOK'
    BY <1>0, <1>6 DEF LogOverrides
  <1>7. ASSUME NEW c \in Clients, Store(c) PROVE TypeOK'
    <2>1. config[c] \in Configs
      BY <1>7 DEF IInv, StagesFit, Store
    <2> QED
      BY <1>0, <1>7, <2>1 DEF Store
  <1>8. ASSUME NEW c \in Clients, LogCreated(c) PROVE TypeOK'
    BY <1>0, <1>8 DEF LogCreated
  <1>9. ASSUME NEW c \in Clients, Destroy(c) PROVE TypeOK'
    BY <1>0, <1>9 DEF Destroy
  <1>10. ASSUME NEW c \in Clients, BeginCall(c) PROVE TypeOK'
    BY <1>0, <1>10 DEF BeginCall
  <1>11. ASSUME NEW c \in Clients, EndCall(c) PROVE TypeOK'
    BY <1>0, <1>11 DEF EndCall
  <1>12. CASE UNCHANGED vars
    BY <1>0, <1>12 DEF vars
  <1> QED
    BY <1>1, <1>2, <1>3, <1>4, <1>5, <1>6, <1>7, <1>8, <1>9, <1>10, <1>11, <1>12
    DEF Next, MakeStep

(* What the steps do to the set of managers, and so to the count.              *)
LEMMA CountStep == IInv /\ [Next]_vars => CountIsExact'
  <1> SUFFICES ASSUME IInv, [Next]_vars PROVE CountIsExact'
    OBVIOUS
  <1> USE DEF Goto, Return, ThrowCodeIfLog
  <1>t. /\ TypeOK /\ StagesFit /\ CountIsExact
        /\ IsFiniteSet(Managers) /\ Cardinality(Managers) \in Nat
        /\ abandoned \in Nat /\ initialized \in Nat
    BY ManagersFinite DEF IInv, TypeOK
  <1>same. ASSUME Managers' = Managers, UNCHANGED <<initialized, abandoned>>
           PROVE  CountIsExact'
    BY <1>t, <1>same DEF CountIsExact
  <1>add. ASSUME NEW c \in Clients, c \notin Managers, Managers' = Managers \cup {c},
                 initialized' = initialized + 1, UNCHANGED abandoned
          PROVE  CountIsExact'
    <2>1. Cardinality(Managers') = Cardinality(Managers) + 1
      BY <1>t, <1>add, FS_AddElement
    <2> QED
      BY <1>t, <1>add, <2>1 DEF CountIsExact
  <1>less. ASSUME NEW c \in Managers, Managers' = Managers \ {c}
           PROVE  Cardinality(Managers') = Cardinality(Managers) - 1
                  /\ Cardinality(Managers) > 0
    <2>1. Cardinality(Managers') = Cardinality(Managers) - 1
      BY <1>t, <1>less, FS_RemoveElement
    <2>2. Cardinality(Managers) # 0
      BY <1>t, <1>less, FS_EmptySet
    <2> QED
      BY <1>t, <2>1, <2>2
  <1>remove. ASSUME NEW c \in Managers, Managers' = Managers \ {c},
                    curl_global_cleanup, UNCHANGED abandoned
             PROVE  CountIsExact'
    <2>1. Cardinality(Managers') = Cardinality(Managers) - 1 /\ Cardinality(Managers) > 0
      BY <1>remove, <1>less
    <2> QED
      BY <1>t, <1>remove, <2>1 DEF CountIsExact, curl_global_cleanup
  <1>1. ASSUME NEW c \in Clients, NEW cfg \in Configs, Make(c, cfg)
        PROVE  CountIsExact'
    <2>1. Managers' = Managers
      BY <1>t, <1>1 DEF TypeOK, Make, Managers
    <2> QED
      BY <1>1, <2>1, <1>same DEF Make
  <1>2. ASSUME NEW c \in Clients, Reset(c)
        PROVE  CountIsExact'
    <2>1. CASE out[c] = NoClient
      <3>1. Managers' = Managers
        BY <1>t, <1>2, <2>1 DEF TypeOK, Reset, Managers
      <3> QED
        BY <1>2, <2>1, <3>1, <1>same DEF Reset
    <2>2. CASE out[c] # NoClient
      <3>1. c \in Managers /\ Managers' = Managers \ {c}
        BY <1>t, <1>2, <2>2 DEF TypeOK, Reset, Managers
      <3> QED
        BY <1>2, <2>2, <3>1, <1>remove DEF Reset
    <2> QED
      BY <2>1, <2>2
  <1>3. ASSUME NEW c \in Clients, Validate(c)
        PROVE  CountIsExact'
    <2>1. Managers' = Managers
      BY <1>t, <1>3 DEF TypeOK, Validate, Managers
    <2> QED
      BY <1>3, <2>1, <1>same DEF Validate
  <1>4. ASSUME NEW c \in Clients, InitializeCurl(c)
        PROVE  CountIsExact'
    <2>1. CASE pc'[c] = "idle"
      <3>1. Managers' = Managers /\ UNCHANGED <<initialized, abandoned>>
        BY <1>t, <1>4, <2>1 DEF TypeOK, InitializeCurl, Managers
      <3> QED
        BY <3>1, <1>same
    <2>2. CASE pc'[c] # "idle"
      <3>1. c \notin Managers
        BY <1>t, <1>4 DEF StagesFit, InitializeCurl, Managers
      <3>2. /\ Managers' = Managers \cup {c}
            /\ initialized' = initialized + 1 /\ UNCHANGED abandoned
        BY <1>t, <1>4, <2>2 DEF TypeOK, InitializeCurl, Managers
      <3> QED
        BY <3>1, <3>2, <1>add
    <2> QED
      BY <2>1, <2>2
  <1>5. ASSUME NEW c \in Clients, CheckFeatures(c)
        PROVE  CountIsExact'
    <2>1. CASE pc'[c] # "idle"
      <3>1. Managers' = Managers /\ UNCHANGED <<initialized, abandoned>>
        BY <1>t, <1>5, <2>1 DEF TypeOK, CheckFeatures, Managers
      <3> QED
        BY <3>1, <1>same
    <2>2. CASE pc'[c] = "idle"
      <3>1. out[c] = NoClient
        BY <1>t, <1>5 DEF StagesFit, CheckFeatures
      <3>2. /\ c \in Managers /\ Managers' = Managers \ {c}
            /\ abandoned' = abandoned + 1 /\ UNCHANGED initialized
        BY <1>t, <1>5, <2>2, <3>1 DEF TypeOK, CheckFeatures, Managers
      <3>3. Cardinality(Managers') = Cardinality(Managers) - 1
        BY <3>2, <1>less
      <3>4. initialized = Cardinality(Managers) + abandoned
        BY <1>t DEF CountIsExact
      <3> QED
        BY <1>t, <3>2, <3>3, <3>4 DEF CountIsExact
    <2> QED
      BY <2>1, <2>2
  <1>6. ASSUME NEW c \in Clients, LogOverrides(c)
        PROVE  CountIsExact'
    <2>1. CASE pc'[c] # "idle"
      <3>1. Managers' = Managers /\ UNCHANGED <<initialized, abandoned>>
        BY <1>t, <1>6, <2>1 DEF TypeOK, LogOverrides, Managers
      <3> QED
        BY <3>1, <1>same
    <2>2. CASE pc'[c] = "idle"
      <3>1. out[c] = NoClient
        BY <1>t, <1>6 DEF StagesFit, LogOverrides
      <3>2. /\ c \in Managers /\ Managers' = Managers \ {c}
            /\ curl_global_cleanup /\ UNCHANGED abandoned
        BY <1>t, <1>6, <2>2, <3>1 DEF TypeOK, LogOverrides, Managers
      <3> QED
        BY <3>2, <1>remove
    <2> QED
      BY <2>1, <2>2
  <1>7. ASSUME NEW c \in Clients, Store(c)
        PROVE  CountIsExact'
    <2>1. MadeOf(config[c]) # NoClient
      BY <1>t, <1>7, NoClientAssumption DEF StagesFit, Store
    <2>2. Managers' = Managers
      BY <1>t, <1>7, <2>1 DEF TypeOK, Store, Managers
    <2> QED
      BY <1>7, <2>2, <1>same DEF Store
  <1>8. ASSUME NEW c \in Clients, LogCreated(c)
        PROVE  CountIsExact'
    <2>1. Managers' = Managers
      BY <1>t, <1>8 DEF TypeOK, LogCreated, Managers
    <2> QED
      BY <1>8, <2>1, <1>same DEF LogCreated
  <1>9. ASSUME NEW c \in Clients, Destroy(c)
        PROVE  CountIsExact'
    <2>1. c \in Managers /\ Managers' = Managers \ {c}
      BY <1>t, <1>9 DEF TypeOK, Destroy, Managers
    <2> QED
      BY <1>9, <2>1, <1>remove DEF Destroy
  <1>10. ASSUME NEW c \in Clients, BeginCall(c) \/ EndCall(c)
         PROVE  CountIsExact'
    <2>1. Managers' = Managers /\ UNCHANGED <<initialized, abandoned>>
      BY <1>10 DEF BeginCall, EndCall, Managers
    <2> QED
      BY <2>1, <1>same
  <1>11. CASE UNCHANGED vars
    <2>1. Managers' = Managers /\ UNCHANGED <<initialized, abandoned>>
      BY <1>11 DEF vars, Managers
    <2> QED
      BY <2>1, <1>same
  <1> QED
    BY <1>1, <1>2, <1>3, <1>4, <1>5, <1>6, <1>7, <1>8, <1>9, <1>10, <1>11
    DEF Next, MakeStep

(* How far a Make has got decides whether the variable holds a client, and     *)
(* calls run only on a client outside Make.                                    *)
LEMMA StagesStep == IInv /\ [Next]_vars => StagesFit'
  <1> SUFFICES ASSUME IInv, [Next]_vars PROVE StagesFit'
    OBVIOUS
  <1> USE DEF Goto, Return, ThrowCodeIfLog
  <1>t. TypeOK /\ StagesFit
    BY DEF IInv
  <1>1. ASSUME NEW c \in Clients, NEW cfg \in Configs, Make(c, cfg) PROVE StagesFit'
    BY <1>t, <1>1 DEF TypeOK, StagesFit, Make
  <1>2. ASSUME NEW c \in Clients, Reset(c) PROVE StagesFit'
    BY <1>t, <1>2 DEF TypeOK, StagesFit, Reset
  <1>3. ASSUME NEW c \in Clients, Validate(c) PROVE StagesFit'
    BY <1>t, <1>3 DEF TypeOK, StagesFit, Validate
  <1>4. ASSUME NEW c \in Clients, InitializeCurl(c) PROVE StagesFit'
    BY <1>t, <1>4 DEF TypeOK, StagesFit, InitializeCurl
  <1>5. ASSUME NEW c \in Clients, CheckFeatures(c) PROVE StagesFit'
    BY <1>t, <1>5 DEF TypeOK, StagesFit, CheckFeatures
  <1>6. ASSUME NEW c \in Clients, LogOverrides(c) PROVE StagesFit'
    BY <1>t, <1>6 DEF TypeOK, StagesFit, LogOverrides
  <1>7. ASSUME NEW c \in Clients, Store(c) PROVE StagesFit'
    <2>1. MadeOf(config[c]) # NoClient
      BY <1>t, <1>7, NoClientAssumption DEF StagesFit, Store
    <2> QED
      BY <1>t, <1>7, <2>1 DEF TypeOK, StagesFit, Store
  <1>8. ASSUME NEW c \in Clients, LogCreated(c) PROVE StagesFit'
    BY <1>t, <1>8 DEF TypeOK, StagesFit, LogCreated
  <1>9. ASSUME NEW c \in Clients, Destroy(c) PROVE StagesFit'
    BY <1>t, <1>9 DEF TypeOK, StagesFit, Destroy
  <1>10. ASSUME NEW c \in Clients, BeginCall(c) PROVE StagesFit'
    BY <1>t, <1>10 DEF TypeOK, StagesFit, BeginCall
  <1>11. ASSUME NEW c \in Clients, EndCall(c) PROVE StagesFit'
    BY <1>t, <1>11 DEF TypeOK, StagesFit, EndCall
  <1>12. CASE UNCHANGED vars
    BY <1>t, <1>12 DEF TypeOK, StagesFit, vars
  <1> QED
    BY <1>1, <1>2, <1>3, <1>4, <1>5, <1>6, <1>7, <1>8, <1>9, <1>10, <1>11, <1>12
    DEF Next, MakeStep

(* A client is made of the configuration that passed ValidateClientConfig, and *)
(* is still in the variable when Make returns.                                 *)
LEMMA ResultsStep == IInv /\ [Next]_vars => ResultsFit'
  <1> SUFFICES ASSUME IInv, [Next]_vars PROVE ResultsFit'
    OBVIOUS
  <1> USE NoValueAssumption DEF Goto, Return, ThrowCodeIfLog
  <1>t. TypeOK /\ StagesFit /\ ResultsFit
    BY DEF IInv
  <1>1. ASSUME NEW c \in Clients, NEW cfg \in Configs, Make(c, cfg) PROVE ResultsFit'
    BY <1>t, <1>1 DEF TypeOK, StagesFit, ResultsFit, Make
  <1>2. ASSUME NEW c \in Clients, Reset(c) PROVE ResultsFit'
    BY <1>t, <1>2 DEF TypeOK, StagesFit, ResultsFit, Reset
  <1>3. ASSUME NEW c \in Clients, Validate(c) PROVE ResultsFit'
    BY <1>t, <1>3 DEF TypeOK, StagesFit, ResultsFit, Validate
  <1>4. ASSUME NEW c \in Clients, InitializeCurl(c) PROVE ResultsFit'
    BY <1>t, <1>4 DEF TypeOK, StagesFit, ResultsFit, InitializeCurl
  <1>5. ASSUME NEW c \in Clients, CheckFeatures(c) PROVE ResultsFit'
    BY <1>t, <1>5 DEF TypeOK, StagesFit, ResultsFit, CheckFeatures
  <1>6. ASSUME NEW c \in Clients, LogOverrides(c) PROVE ResultsFit'
    BY <1>t, <1>6 DEF TypeOK, StagesFit, ResultsFit, LogOverrides
  <1>7. ASSUME NEW c \in Clients, Store(c) PROVE ResultsFit'
    <2>1. MadeOf(config[c]) # NoClient
      BY <1>t, <1>7, NoClientAssumption DEF StagesFit, ResultsFit, Store
    <2> QED
      BY <1>t, <1>7, <2>1 DEF TypeOK, StagesFit, ResultsFit, Store
  <1>8. ASSUME NEW c \in Clients, LogCreated(c) PROVE ResultsFit'
    BY <1>t, <1>8 DEF TypeOK, StagesFit, ResultsFit, LogCreated
  <1>9. ASSUME NEW c \in Clients, Destroy(c) PROVE ResultsFit'
    BY <1>t, <1>9 DEF TypeOK, StagesFit, ResultsFit, Destroy
  <1>10. ASSUME NEW c \in Clients, BeginCall(c) PROVE ResultsFit'
    BY <1>t, <1>10 DEF TypeOK, StagesFit, ResultsFit, BeginCall
  <1>11. ASSUME NEW c \in Clients, EndCall(c) PROVE ResultsFit'
    BY <1>t, <1>11 DEF TypeOK, StagesFit, ResultsFit, EndCall
  <1>12. CASE UNCHANGED vars
    BY <1>t, <1>12 DEF TypeOK, StagesFit, ResultsFit, vars
  <1> QED
    BY <1>1, <1>2, <1>3, <1>4, <1>5, <1>6, <1>7, <1>8, <1>9, <1>10, <1>11, <1>12
    DEF Next, MakeStep

(* The count of libcurl is exactly its users and the abandoned                 *)
(* initialisations, in every reachable state.                                  *)
THEOREM InductiveInvariant == Spec => []IInv
  <1>1. IInv /\ [Next]_vars => IInv'
    BY TypeStep, CountStep, StagesStep, ResultsStep DEF IInv
  <1> QED
    BY InitInv, <1>1, PTL DEF Spec

(* libcurl is initialised as long as a client lives or a call runs.            *)
THEOREM CurlStaysUp == Spec => []CurlIsUp
  <1>1. IInv => CurlIsUp
    <2> SUFFICES ASSUME IInv,
                        NEW c \in Clients, out[c] # NoClient \/ calls[c] > 0
                 PROVE  initialized > 0
      BY DEF CurlIsUp
    <2>1. c \in Managers
      BY DEF IInv, StagesFit, Managers
    <2>2. Cardinality(Managers) \in Nat /\ Cardinality(Managers) # 0
      BY <2>1, ManagersFinite, FS_EmptySet
    <2>3. initialized = Cardinality(Managers) + abandoned /\ abandoned \in Nat
      BY DEF IInv, CountIsExact, TypeOK
    <2> QED
      BY <2>2, <2>3
  <1> QED
    BY InductiveInvariant, <1>1, PTL

(* Once the last client is gone libcurl is cleaned up, but for the             *)
(* initialisations of managers that a libcurl without the features refused.    *)
THEOREM EveryInitIsUndone == Spec => []InitsAreUndone
  <1>1. IInv => InitsAreUndone
    <2> SUFFICES ASSUME IInv, \A c \in Clients : pc[c] = "idle" /\ out[c] = NoClient
                 PROVE  initialized = (IF features = Features THEN 0 ELSE abandoned)
      BY DEF InitsAreUndone
    <2>1. Managers = {}
      BY DEF Managers
    <2>2. initialized = Cardinality(Managers) + abandoned /\ abandoned \in Nat
          /\ (features = Features => abandoned = 0)
      BY DEF IInv, StagesFit, CountIsExact, TypeOK
    <2> QED
      BY <2>1, <2>2, FS_EmptySet
  <1> QED
    BY InductiveInvariant, <1>1, PTL

(* No client is made of a libcurl that lacks a feature.                        *)
THEOREM FeaturesAreThere == Spec => []ClientsHaveTheirFeatures
  <1>1. IInv => ClientsHaveTheirFeatures
    BY DEF IInv, StagesFit, ClientsHaveTheirFeatures
  <1> QED
    BY InductiveInvariant, <1>1, PTL

(* What Make returns and what it leaves in out fit together.                   *)
THEOREM ResultsTellOut == Spec => []ResultTellsOut
  <1>1. IInv => ResultTellsOut
    <2> SUFFICES ASSUME IInv, NEW c \in Clients
                 PROVE  /\ result[c] = "Success" =>
                             LET cfg == config[c] IN
                               /\ out[c] # NoClient /\ out[c].m_accountId = cfg.accountId
                               /\ cfg.accountId # ""
                               /\ cfg.instanceId # "" /\ cfg.nameSpace # ""
                               /\ out[c].m_nameSpace =
                                    (IF cfg.nameSpace = NoValue THEN "default" ELSE cfg.nameSpace)
                               /\ out[c].m_instanceId =
                                    (IF cfg.instanceId = NoValue THEN "default" ELSE cfg.instanceId)
                        /\ result[c] \in {"InvalidArg", "HttpUnexpected"} => out[c] = NoClient
      BY DEF ResultTellsOut
    <2>1. CASE result[c] = "Success"
      <3>1. /\ config[c] \in Configs /\ IsValid(config[c])
            /\ out[c] = MadeOf(config[c]) /\ out[c] # NoClient
        BY <2>1, NoClientAssumption DEF IInv, ResultsFit
      <3>2. /\ out[c].m_accountId = config[c].accountId
            /\ out[c].m_instanceId = Given(config[c].instanceId, "default")
            /\ out[c].m_nameSpace = Given(config[c].nameSpace, "default")
        BY <3>1 DEF MadeOf
      <3>3. /\ config[c].accountId # "" /\ config[c].instanceId # ""
            /\ config[c].nameSpace # ""
        BY <3>1 DEF IsValid
      <3> QED
        BY <2>1, <3>1, <3>2, <3>3 DEF Given
    <2>2. CASE result[c] # "Success"
      BY <2>2 DEF IInv, ResultsFit
    <2> QED
      BY <2>1, <2>2
  <1> QED
    BY InductiveInvariant, <1>1, PTL

-----------------------------------------------------------------------------
(* The handler, for any threads and any callbacks.  Only the thread that holds *)
(* the mutex is inside, so that the callback that runs is the one that is set. *)

(* In the initial state the mutex is free and no callback is set; only the     *)
(* absence of one could count as replaced, and nothing has been yet.           *)
LEMMA HandlerStarts == HandlerInit => HandlerInv
  BY NoCallbackAssumption, NobodyAssumption
     DEF HandlerInit, HandlerInv, HandlerTypeOK, HolderIsInside, Inside

(* Types are kept by every step.                                               *)
LEMMA HandlerTypesStay == HandlerTypeOK /\ [HandlerNext]_handlerVars => HandlerTypeOK'
  <1> USE DEF HandlerTypeOK, Advance, Lock, Unlock, Inside
  <1> SUFFICES ASSUME HandlerTypeOK, [HandlerNext]_handlerVars PROVE HandlerTypeOK'
    OBVIOUS
  <1>1. ASSUME NEW t \in Threads, Log(t) PROVE HandlerTypeOK'
    BY <1>1 DEF Log
  <1>2. ASSUME NEW t \in Threads,
               NEW callback \in Callbacks \cup {NoCallback},
               SetLoggingCallback(t, callback)
        PROVE  HandlerTypeOK'
    BY <1>2 DEF SetLoggingCallback
  <1>3. ASSUME NEW t \in Threads, LockToLog(t) PROVE HandlerTypeOK'
    BY <1>3 DEF LockToLog
  <1>4. ASSUME NEW t \in Threads, SkipCall(t) PROVE HandlerTypeOK'
    BY <1>4 DEF SkipCall
  <1>5. ASSUME NEW t \in Threads, Call(t) PROVE HandlerTypeOK'
    BY <1>5 DEF Call
  <1>6. ASSUME NEW t \in Threads, EndCallback(t) PROVE HandlerTypeOK'
    BY <1>6 DEF EndCallback
  <1>7. ASSUME NEW t \in Threads, LockToSet(t) PROVE HandlerTypeOK'
    BY <1>7 DEF LockToSet
  <1>8. ASSUME NEW t \in Threads, Assign(t) PROVE HandlerTypeOK'
    BY <1>8 DEF Assign
  <1>9. CASE UNCHANGED handlerVars
    BY <1>9 DEF handlerVars
  <1> QED
    BY <1>1, <1>2, <1>3, <1>4, <1>5, <1>6, <1>7, <1>8, <1>9 DEF HandlerNext, Finish

(* A thread enters only when nobody is inside, and the mutex is freed only by  *)
(* the thread that is; only that thread replaces the callback.                 *)
LEMMA HandlerStep == HandlerInv /\ [HandlerNext]_handlerVars => HolderIsInside'
  <1> USE DEF HandlerInv, HandlerTypeOK, HolderIsInside, Advance, Lock, Unlock, Inside
  <1> USE NoCallbackAssumption, NobodyAssumption
  <1> SUFFICES ASSUME HandlerInv, [HandlerNext]_handlerVars PROVE HolderIsInside'
    OBVIOUS
  <1>1. ASSUME NEW t \in Threads, Log(t) PROVE HolderIsInside'
    BY <1>1 DEF Log
  <1>2. ASSUME NEW t \in Threads,
               NEW callback \in Callbacks \cup {NoCallback},
               SetLoggingCallback(t, callback)
        PROVE  HolderIsInside'
    BY <1>2 DEF SetLoggingCallback
  <1>3. ASSUME NEW t \in Threads, LockToLog(t) PROVE HolderIsInside'
    BY <1>3 DEF LockToLog
  <1>4. ASSUME NEW t \in Threads, SkipCall(t) PROVE HolderIsInside'
    BY <1>4 DEF SkipCall
  <1>5. ASSUME NEW t \in Threads, Call(t) PROVE HolderIsInside'
    BY <1>5 DEF Call
  <1>6. ASSUME NEW t \in Threads, EndCallback(t) PROVE HolderIsInside'
    BY <1>6 DEF EndCallback
  <1>7. ASSUME NEW t \in Threads, LockToSet(t) PROVE HolderIsInside'
    BY <1>7 DEF LockToSet
  <1>8. ASSUME NEW t \in Threads, Assign(t) PROVE HolderIsInside'
    BY <1>8 DEF Assign
  <1>9. CASE UNCHANGED handlerVars
    BY <1>9 DEF handlerVars
  <1> QED
    BY <1>1, <1>2, <1>3, <1>4, <1>5, <1>6, <1>7, <1>8, <1>9 DEF HandlerNext, Finish

(* The mutex is held by the thread that is inside, and the callback that runs  *)
(* is the one that is set, in every reachable state.                           *)
THEOREM MutexIsHeld == HandlerSpec => []HandlerInv
  <1>1. HandlerInv /\ [HandlerNext]_handlerVars => HandlerInv'
    BY HandlerTypesStay, HandlerStep DEF HandlerInv
  <1> QED
    BY HandlerStarts, <1>1, PTL DEF HandlerSpec

(* Only one thread at a time is in the callback.                               *)
THEOREM CallsAreSerialized == HandlerSpec => []OneCallAtATime
  <1>1. HandlerInv => OneCallAtATime
    BY DEF HandlerInv, HolderIsInside, OneCallAtATime, Inside
  <1> QED
    BY MutexIsHeld, <1>1, PTL

(* Once SetLoggingCallback has returned, the callback it replaced is over.     *)
THEOREM ReplacedCallbacksAreOver == HandlerSpec => []ReplacedCallbackIsOver
  <1>1. HandlerInv => ReplacedCallbackIsOver
    BY DEF HandlerInv, HolderIsInside, ReplacedCallbackIsOver
  <1> QED
    BY MutexIsHeld, <1>1, PTL

=============================================================================
