--------------------------- MODULE ClientLifetime ---------------------------
(***************************************************************************)
(* The clients of a process: SFSClient::Make, the constructor of           *)
(* SFSClientImpl with the connection manager that it owns, and the count   *)
(* that libcurl keeps of its users.  Clients are the application's         *)
(* unique_ptr<SFSClient> variables; each is given to Make and destroyed by *)
(* one thread at a time, and all of them share libcurl.                    *)
(***************************************************************************)
EXTENDS Naturals, FiniteSets

CONSTANTS
  Clients,         \* the application's variables for clients
  Configs,         \* the ClientConfigs it uses, records with the fields of the struct
  NoValue,         \* std::nullopt
  NoClient,        \* an empty unique_ptr
  Features,        \* what CheckCurlFeatures asks for
  MaxCalls,        \* bound: calls that run on a client at once
  MaxAbandoned     \* bound: no further Make once this many managers have failed

ASSUME ClientsAssumption == IsFiniteSet(Clients)
ASSUME NoValueAssumption == NoValue \notin {"Success", "InvalidArg", "HttpUnexpected"}

VARIABLES
  pc,           \* how far the Make of each variable has got
  config,       \* the argument of its last Make
  result,       \* what that Make returned
  out,          \* the client in each variable
  calls,        \* the calls that run on it
  initialized,  \* libcurl's count of curl_global_init calls
  features,     \* what libcurl was built with
  overrides,    \* AreTestOverridesAllowed
  abandoned     \* history: initialisations whose manager was never made

vars == <<pc, config, result, out, calls, initialized, features, overrides, abandoned>>

Init ==
  /\ pc = [c \in Clients |-> "idle"]
  /\ config = [c \in Clients |-> NoValue]
  /\ result = [c \in Clients |-> NoValue]
  /\ out = [c \in Clients |-> NoClient]
  /\ calls = [c \in Clients |-> 0]
  /\ initialized = 0
  /\ features \in SUBSET Features
  /\ overrides \in BOOLEAN
  /\ abandoned = 0

Goto(c, from, to) == pc[c] = from /\ pc' = [pc EXCEPT ![c] = to]

\* ~CurlConnectionManager.
curl_global_cleanup == initialized' = IF initialized = 0 THEN 0 ELSE initialized - 1

\* Make leaves, by return or by an exception that SFS_CATCH_RETURN turns into a code.
Return(c, from, code) ==
  /\ Goto(c, from, "idle")
  /\ result' = [result EXCEPT ![c] = code]

\* The failure is logged before it is thrown; a callback that throws replaces it.
ThrowCodeIfLog(c, from, code) ==
  \/ Return(c, from, code)
  \/ Return(c, from, "Unexpected") /\ config[c].logCallbackFn

-----------------------------------------------------------------------------
(* SFSClient::Make. *)

\* The application makes and destroys a client while no call runs on it.
Make(c, cfg) ==
  /\ calls[c] = 0
  /\ abandoned < MaxAbandoned
  /\ Goto(c, "idle", "resets")
  /\ config' = [config EXCEPT ![c] = cfg]
  /\ result' = [result EXCEPT ![c] = NoValue]
  /\ UNCHANGED <<out, calls, initialized, features, overrides, abandoned>>

BugReset(c) ==
  /\ Goto(c, "resets", "validates")
  /\ out' = [out EXCEPT ![c] = NoClient]
  /\ UNCHANGED <<config, result, calls, initialized, features, overrides, abandoned>>

BugResetAlways(c) ==
  /\ Goto(c, "resets", "validates")
  /\ out' = [out EXCEPT ![c] = NoClient]
  /\ curl_global_cleanup
  /\ UNCHANGED <<config, result, calls, features, overrides, abandoned>>

\* out.reset(): a client that the variable held is destroyed with its manager.
Reset(c) ==
  /\ Goto(c, "resets", "validates")
  /\ out' = [out EXCEPT ![c] = NoClient]
  /\ IF out[c] = NoClient THEN UNCHANGED initialized ELSE curl_global_cleanup
  /\ UNCHANGED <<config, result, calls, features, overrides, abandoned>>

\* ValidateClientConfig: an account is required, and what is given is not empty.
BugIsValid(cfg) == cfg.accountId # ""

IsValid(cfg) == cfg.accountId # "" /\ cfg.instanceId # "" /\ cfg.nameSpace # ""

Validate(c) ==
  /\ \/ Goto(c, "validates", "initializes") /\ IsValid(config[c]) /\ UNCHANGED result
     \/ ThrowCodeIfLog(c, "validates", "InvalidArg") /\ ~IsValid(config[c])
  /\ UNCHANGED <<config, out, calls, initialized, features, overrides, abandoned>>

\* CurlConnectionManager's constructor.  libcurl initialises itself for its first
\* user only, so only that can fail.
InitializeCurl(c) ==
  /\ \/ Goto(c, "initializes", "checksFeatures") /\ UNCHANGED result
        /\ initialized' = initialized + 1
     \/ ThrowCodeIfLog(c, "initializes", "HttpUnexpected") /\ initialized = 0
        /\ UNCHANGED initialized
  /\ UNCHANGED <<config, out, calls, features, overrides, abandoned>>

\* Nothing undoes the initialisation when a feature is missing: the constructor
\* has not completed, so the destructor does not run.
BugCheckFeatures(c) ==
  /\ Goto(c, "checksFeatures", "logsOverrides")
  /\ UNCHANGED <<config, result, out, calls, initialized, features, overrides, abandoned>>

CheckFeatures(c) ==
  /\ \/ Goto(c, "checksFeatures", "logsOverrides") /\ features = Features
        /\ UNCHANGED <<result, abandoned>>
     \/ ThrowCodeIfLog(c, "checksFeatures", "HttpUnexpected") /\ features # Features
        /\ abandoned' = abandoned + 1
  /\ UNCHANGED <<config, out, calls, initialized, features, overrides>>

\* LogIfTestOverridesAllowed: the manager is a member by now and is destroyed when
\* the callback throws.
BugLogOverrides(c) ==
  /\ \/ Goto(c, "logsOverrides", "stores") /\ UNCHANGED <<result, initialized>>
     \/ Return(c, "logsOverrides", "Unexpected") /\ config[c].logCallbackFn /\ overrides
        /\ UNCHANGED initialized
  /\ UNCHANGED <<config, out, calls, features, overrides, abandoned>>

LogOverrides(c) ==
  /\ \/ Goto(c, "logsOverrides", "stores") /\ UNCHANGED <<result, initialized>>
     \/ Return(c, "logsOverrides", "Unexpected") /\ config[c].logCallbackFn /\ overrides
        /\ curl_global_cleanup
  /\ UNCHANGED <<config, out, calls, features, overrides, abandoned>>

\* The members that the constructor took from the configuration.
Given(value, default) == IF value \in {NoValue, ""} THEN default ELSE value

MadeOf(cfg) ==
  [m_accountId  |-> cfg.accountId,
   m_instanceId |-> Given(cfg.instanceId, "default"),
   m_nameSpace  |-> Given(cfg.nameSpace, "default")]

ASSUME NoClientAssumption == \A cfg \in Configs : MadeOf(cfg) # NoClient

Store(c) ==
  /\ Goto(c, "stores", "logsCreated")
  /\ out' = [out EXCEPT ![c] = MadeOf(config[c])]
  /\ UNCHANGED <<config, result, calls, initialized, features, overrides, abandoned>>

\* A callback that throws here makes Make fail with the client in the variable.
LogCreated(c) ==
  /\ \/ Return(c, "logsCreated", "Success")
     \/ Return(c, "logsCreated", "Unexpected") /\ config[c].logCallbackFn
  /\ UNCHANGED <<config, out, calls, initialized, features, overrides, abandoned>>

-----------------------------------------------------------------------------
(* The uses of a client. *)

\* ~SFSClient.
Destroy(c) ==
  /\ pc[c] = "idle" /\ calls[c] = 0 /\ out[c] # NoClient
  /\ out' = [out EXCEPT ![c] = NoClient]
  /\ result' = [result EXCEPT ![c] = NoValue]
  /\ curl_global_cleanup
  /\ UNCHANGED <<pc, config, calls, features, overrides, abandoned>>

\* A call of the API makes a connection, a handle of libcurl, and destroys it.
BeginCall(c) ==
  /\ pc[c] = "idle" /\ out[c] # NoClient /\ calls[c] < MaxCalls
  /\ calls' = [calls EXCEPT ![c] = @ + 1]
  /\ UNCHANGED <<pc, config, result, out, initialized, features, overrides, abandoned>>

EndCall(c) ==
  /\ calls[c] > 0
  /\ calls' = [calls EXCEPT ![c] = @ - 1]
  /\ UNCHANGED <<pc, config, result, out, initialized, features, overrides, abandoned>>

-----------------------------------------------------------------------------

MakeStep(c) ==
  \/ Reset(c) \/ Validate(c) \/ InitializeCurl(c) \/ CheckFeatures(c)
  \/ LogOverrides(c) \/ Store(c) \/ LogCreated(c)

Next ==
  \E c \in Clients :
    \/ \E cfg \in Configs : Make(c, cfg)
    \/ MakeStep(c)
    \/ Destroy(c) \/ BeginCall(c) \/ EndCall(c)

Spec == Init /\ [][Next]_vars

-----------------------------------------------------------------------------
(* Correctness. *)

Codes == {"Success", "InvalidArg", "HttpUnexpected", "Unexpected"}

TypeOK ==
  /\ pc \in [Clients -> {"idle", "resets", "validates", "initializes", "checksFeatures",
                         "logsOverrides", "stores", "logsCreated"}]
  /\ config \in [Clients -> Configs \cup {NoValue}]
  /\ result \in [Clients -> Codes \cup {NoValue}]
  /\ out \in [Clients -> {NoClient} \cup {MadeOf(cfg) : cfg \in Configs}]
  /\ calls \in [Clients -> Nat]
  /\ initialized \in Nat
  /\ features \subseteq Features
  /\ overrides \in BOOLEAN
  /\ abandoned \in Nat

\* The variables whose client, complete or not, has called curl_global_init and
\* will call curl_global_cleanup once.
Managers ==
  {c \in Clients : \/ pc[c] \in {"checksFeatures", "logsOverrides", "stores"}
                   \/ out[c] # NoClient}

(* libcurl is initialised as long as a client lives or a call runs, whatever   *)
(* the other threads make, fail to make or destroy meanwhile.                  *)
CurlIsUp ==
  \A c \in Clients : out[c] # NoClient \/ calls[c] > 0 => initialized > 0

(* Once the last client is gone libcurl is cleaned up, however many Makes      *)
(* failed and at whatever step, unless a libcurl without the features that     *)
(* are asked for was initialised: each such Make leaves one initialisation.    *)
InitsAreUndone ==
  (\A c \in Clients : pc[c] = "idle" /\ out[c] = NoClient)
    => initialized = (IF features = Features THEN 0 ELSE abandoned)

(* What Make returns and what it leaves in out fit together: a client as the   *)
(* configuration says, with the defaults for what it does not say, or nothing  *)
(* (the tests of SFSClient::Make).  After a failure that the library did not   *)
(* cause either is possible.                                                   *)
ResultTellsOut ==
  \A c \in Clients :
    /\ result[c] = "Success" =>
         LET cfg == config[c] IN
           /\ out[c] # NoClient /\ out[c].m_accountId = cfg.accountId /\ cfg.accountId # ""
           /\ cfg.instanceId # "" /\ cfg.nameSpace # ""
           /\ out[c].m_nameSpace = (IF cfg.nameSpace = NoValue THEN "default" ELSE cfg.nameSpace)
           /\ out[c].m_instanceId = (IF cfg.instanceId = NoValue THEN "default" ELSE cfg.instanceId)
    /\ result[c] \in {"InvalidArg", "HttpUnexpected"} => out[c] = NoClient

(* No client is made of a libcurl that lacks a feature the library needs for   *)
(* its thread safety and its connections.                                      *)
ClientsHaveTheirFeatures ==
  features # Features => \A c \in Clients : out[c] = NoClient

(* How far a Make has got decides whether the variable holds a client, and     *)
(* calls run only on a client outside Make.                                    *)
StagesFit ==
  /\ \A c \in Clients : pc[c] \in {"validates", "initializes", "checksFeatures",
                                   "logsOverrides", "stores"} => out[c] = NoClient
  /\ \A c \in Clients : pc[c] = "logsCreated" => out[c] # NoClient
  /\ \A c \in Clients : calls[c] > 0 => pc[c] = "idle" /\ out[c] # NoClient
  /\ \A c \in Clients : pc[c] # "idle" => config[c] \in Configs
  /\ features = Features => abandoned = 0
  /\ features # Features =>
       \A c \in Clients : /\ pc[c] \notin {"logsOverrides", "stores", "logsCreated"}
                         /\ out[c] = NoClient

(* A client is made of the configuration that passed ValidateClientConfig, and *)
(* is still in the variable when Make returns.                                 *)
ResultsFit ==
  \A c \in Clients :
    /\ pc[c] # "idle" => result[c] = NoValue
    /\ pc[c] \in {"initializes", "checksFeatures", "logsOverrides", "stores", "logsCreated"}
         => IsValid(config[c])
    /\ pc[c] = "logsCreated" => out[c] = MadeOf(config[c])
    /\ result[c] = "Success" =>
         config[c] \in Configs /\ IsValid(config[c]) /\ out[c] = MadeOf(config[c])
    /\ result[c] \in {"InvalidArg", "HttpUnexpected"} => out[c] = NoClient

(* The count of libcurl is exactly its users and the abandoned ones: the       *)
(* invariant behind CurlIsUp and InitsAreUndone.                               *)
CountIsExact == initialized = Cardinality(Managers) + abandoned

IInv == TypeOK /\ StagesFit /\ ResultsFit /\ CountIsExact

=============================================================================
