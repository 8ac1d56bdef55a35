----------------------------- MODULE Environment -----------------------------
(***************************************************************************)
(* The variables of the process's environment and the scopes of ScopedEnv  *)
(* and ScopedTestOverride, which set a variable and put its old value back *)
(* when they end.  Scopes are locals of the code that opens them, so the   *)
(* last one opened ends first.  The library reads its test overrides from  *)
(* the environment, the base URL again for every request.                  *)
(***************************************************************************)
EXTENDS Integers, Sequences

CONSTANTS
  Names,         \* names of variables
  BaseUrl,       \* SFS_TEST_OVERRIDE_BASE_URL
  BaseRetryDelayMs, \* SFS_TEST_BASE_RETRY_DELAY_MS
  NoName,        \* the empty name
  Values,        \* values that are not empty
  Empty,         \* the empty value
  Absent,        \* std::nullopt: the variable is not set
  Threw,         \* instead of a number: the call left by an exception
  StartValues,   \* what a variable can be when the process starts
  ToInt,         \* std::stoi: the number a value starts with, or Threw
  OwnUrl,        \* the URL that a client makes of its account
  MaxScopes      \* bound: scopes that are open at once

ASSUME NamesAssumption ==
  {BaseUrl, BaseRetryDelayMs} \subseteq Names /\ NoName \notin Names
ASSUME ValuesAssumption ==
  Empty \notin Values /\ Absent \notin Values /\ Empty # Absent
ASSUME StartAssumption ==
  StartValues \subseteq Values \cup {Empty, Absent}

VARIABLES
  env,          \* the environment
  scopes,       \* the open scopes, the innermost one last
  customBaseUrl,\* m_customBaseUrl of a client
  allowed,      \* AreTestOverridesAllowed
  base          \* history: the environment as it would be without the scopes

vars == <<env, scopes, customBaseUrl, allowed, base>>

Init ==
  /\ env \in [Names -> StartValues]
  /\ scopes = <<>>
  /\ customBaseUrl = Absent
  /\ allowed \in BOOLEAN
  /\ base = env

-----------------------------------------------------------------------------
(* Env.cpp. *)

GetEnv(name) == IF name = NoName THEN Absent ELSE env[name]

\* SetEnv and UnsetEnv refuse empty arguments; of the environment of a POSIX
\* system an empty value is a legal one.
CanSet(name, value) == name # NoName /\ value # Empty

Open(name) == \E i \in DOMAIN scopes : scopes[i].name = name

\* A change from outside the scopes of the variable is there to stay.
BaseAfter(name, value) ==
  IF Open(name) THEN base ELSE [base EXCEPT ![name] = value]

SetEnv(name, value) ==
  /\ CanSet(name, value)
  /\ env' = [env EXCEPT ![name] = value]
  /\ base' = BaseAfter(name, value)
  /\ UNCHANGED <<scopes, customBaseUrl, allowed>>

UnsetEnv(name) ==
  /\ name # NoName
  /\ env' = [env EXCEPT ![name] = Absent]
  /\ base' = BaseAfter(name, Absent)
  /\ UNCHANGED <<scopes, customBaseUrl, allowed>>

Scope(name, oldValue) == [name |-> name, m_oldValue |-> oldValue]

BugEnterScope(name, value) ==
  /\ Len(scopes) < MaxScopes /\ CanSet(name, value)
  /\ env' = [env EXCEPT ![name] = value]
  /\ scopes' = Append(scopes, Scope(name, value))
  /\ UNCHANGED <<customBaseUrl, allowed, base>>

\* The constructor of ScopedEnv reads the old value before it sets the new one.  It
\* throws when it cannot set it, and then there is no scope.
EnterScope(name, value) ==
  /\ Len(scopes) < MaxScopes /\ CanSet(name, value)
  /\ scopes' = Append(scopes, Scope(name, GetEnv(name)))
  /\ env' = [env EXCEPT ![name] = value]
  /\ UNCHANGED <<customBaseUrl, allowed, base>>

\* The destructor puts the old value back, if SetEnv takes it.
BugRestored(scope) ==
  IF scope.m_oldValue # Absent /\ CanSet(scope.name, scope.m_oldValue)
  THEN [env EXCEPT ![scope.name] = scope.m_oldValue]
  ELSE env

Restored(scope) ==
  IF scope.m_oldValue = Absent \/ CanSet(scope.name, scope.m_oldValue)
  THEN [env EXCEPT ![scope.name] = scope.m_oldValue]
  ELSE env

LeaveScope ==
  /\ scopes # <<>>
  /\ env' = Restored(scopes[Len(scopes)])
  /\ scopes' = SubSeq(scopes, 1, Len(scopes) - 1)
  /\ UNCHANGED <<customBaseUrl, allowed, base>>

-----------------------------------------------------------------------------
(* TestOverride.cpp, and where the library reads an override. *)

BugGetTestOverride(override) == GetEnv(override)

GetTestOverride(override) == IF allowed THEN GetEnv(override) ELSE Absent

\* std::stoi throws when the value does not start with a number that fits.
GetTestOverrideAsInt(override) ==
  LET value == GetTestOverride(override) IN
  IF value = Absent THEN Absent ELSE ToInt[value]

SetCustomBaseUrl(url) ==
  /\ customBaseUrl' = url
  /\ UNCHANGED <<env, scopes, allowed, base>>

\* SFSClientImpl::MakeUrlBuilder, for every request: the URL that it builds on.
MakeUrlBuilder ==
  LET envVar == GetTestOverride(BaseUrl) IN
  IF envVar # Absent THEN envVar
  ELSE IF customBaseUrl # Absent THEN customBaseUrl ELSE OwnUrl

-----------------------------------------------------------------------------

Next ==
  \/ \E name \in Names \cup {NoName}, value \in Values \cup {Empty} :
       SetEnv(name, value) \/ EnterScope(name, value)
  \/ \E name \in Names \cup {NoName} : UnsetEnv(name)
  \/ LeaveScope
  \/ \E url \in Values : SetCustomBaseUrl(url)

Spec == Init /\ [][Next]_vars

-----------------------------------------------------------------------------
(* Correctness. *)

ValuesOrNone == Values \cup {Empty, Absent}

TypeOK ==
  /\ env \in [Names -> ValuesOrNone]
  /\ scopes \in Seq([name : Names, m_oldValue : ValuesOrNone])
  /\ customBaseUrl \in Values \cup {Absent}
  /\ allowed \in BOOLEAN
  /\ base \in [Names -> ValuesOrNone]

(* When the last scope of a variable has ended the variable is what it would   *)
(* be had there been no scopes, however they were nested and whatever was set  *)
(* and unset inside and between them (EnvTests.cpp and TestOverrideTests.cpp:  *)
(* "Variable goes back to previous value").                                    *)
ScopesComeUndone == \A name \in Names : ~Open(name) => env[name] = base[name]

(* What the library reads follows: in a build without overrides it never       *)
(* depends on the environment, and in a build with them a client goes back to  *)
(* its own URL and the connection to its own delay when the scopes are over.   *)
OverridesEndWithTheirScopes ==
  /\ ~allowed \/ (~Open(BaseUrl) /\ base[BaseUrl] = Absent)
       => MakeUrlBuilder = (IF customBaseUrl = Absent THEN OwnUrl ELSE customBaseUrl)
  /\ ~allowed \/ (~Open(BaseRetryDelayMs) /\ base[BaseRetryDelayMs] = Absent)
       => GetTestOverrideAsInt(BaseRetryDelayMs) = Absent

(* Behind it: no value is empty, so that each can be put back, and the         *)
(* outermost scope of a variable remembers what is beneath the scopes.         *)
OutermostRemembers ==
  /\ \A name \in Names : env[name] # Empty
  /\ \A i \in DOMAIN scopes :
       /\ scopes[i].m_oldValue # Empty
       /\ (\A j \in 1 .. i - 1 : scopes[j].name # scopes[i].name)
            => scopes[i].m_oldValue = base[scopes[i].name]

IInv == TypeOK /\ OutermostRemembers /\ ScopesComeUndone

=============================================================================
