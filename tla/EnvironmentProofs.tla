------------------------- MODULE EnvironmentProofs -------------------------
(***************************************************************************)
(* Proofs about Environment, for any variables and values and any depth of *)
(* nesting, in a process that starts without empty variables.  The         *)
(* outermost scope of a variable remembers what is beneath the scopes; a   *)
(* scope inside it ends without touching that, and the outermost one puts  *)
(* it back.                                                                *)
(***************************************************************************)
EXTENDS Environment, SequenceTheorems, TLAPS

(* A sequence without its last element.                                        *)
LEMMA WithoutLast ==
  ASSUME NEW S, NEW seq \in Seq(S), seq # <<>>
  PROVE  /\ SubSeq(seq, 1, Len(seq) - 1) \in Seq(S)
         /\ DOMAIN SubSeq(seq, 1, Len(seq) - 1) = 1 .. Len(seq) - 1
         /\ \A i \in 1 .. Len(seq) - 1 : SubSeq(seq, 1, Len(seq) - 1)[i] = seq[i]
  <1>1. PICK n \in Nat : n = Len(seq) - 1
    BY EmptySeq
  <1>2. \A i \in 1 .. n : seq[i] \in S
    BY <1>1, ElementOfSeq
  <1>3. /\ SubSeq(seq, 1, n) \in Seq(S)
        /\ Len(SubSeq(seq, 1, n)) = IF 1 <= n THEN n - 1 + 1 ELSE 0
        /\ \A i \in 1 .. n - 1 + 1 : SubSeq(seq, 1, n)[i] = seq[1 + i - 1]
    BY <1>2, SubSeqProperties
  <1>4. Len(SubSeq(seq, 1, n)) = n
    BY <1>3
  <1>5. \A i \in 1 .. n : SubSeq(seq, 1, n)[i] = seq[i]
    BY <1>3
  <1> QED
    BY <1>1, <1>3, <1>4, <1>5, LenProperties

(* In a process that starts without empty variables the invariant holds.       *)
LEMMA InitInv == Empty \notin StartValues /\ Init => IInv
  <1> SUFFICES ASSUME Empty \notin StartValues, Init PROVE IInv
    OBVIOUS
  <1>1. TypeOK
    BY StartAssumption DEF Init, TypeOK, ValuesOrNone
  <1>2. OutermostRemembers /\ ScopesComeUndone
    BY DEF Init, OutermostRemembers, ScopesComeUndone
  <1> QED
    BY <1>1, <1>2 DEF IInv

(* SetEnv and UnsetEnv: the base changes with the variable unless a scope of   *)
(* the variable is open, and that scope keeps what it remembers.               *)
LEMMA ChangeStep ==
  ASSUME IInv, NEW name \in Names, NEW value \in Values \cup {Absent},
         env' = [env EXCEPT ![name] = value], base' = BaseAfter(name, value),
         UNCHANGED <<scopes, customBaseUrl, allowed>>
  PROVE  IInv'
  <1>1. TypeOK /\ OutermostRemembers /\ ScopesComeUndone
    BY DEF IInv
  <1>2. TypeOK'
    BY <1>1 DEF TypeOK, BaseAfter, ValuesOrNone
  <1>3. ASSUME NEW n \in Names, n # name \/ Open(name) PROVE base'[n] = base[n]
    BY <1>1, <1>3 DEF TypeOK, BaseAfter
  <1>4. OutermostRemembers'
    <2>1. \A n \in Names : env'[n] # Empty
      BY <1>1, ValuesAssumption DEF TypeOK, OutermostRemembers
    <2>2. ASSUME NEW i \in DOMAIN scopes,
                 \A j \in 1 .. i - 1 : scopes[j].name # scopes[i].name
          PROVE  scopes[i].m_oldValue = base'[scopes[i].name]
      <3>1. scopes[i].name \in Names
        <4>1. scopes \in Seq([name : Names, m_oldValue : ValuesOrNone])
          BY <1>1 DEF TypeOK
        <4>2. scopes[i] \in [name : Names, m_oldValue : ValuesOrNone]
          BY <4>1, LenProperties, ElementOfSeq
        <4> QED
          BY <4>2
      <3>2. Open(scopes[i].name)
        BY DEF Open
      <3>3. base'[scopes[i].name] = base[scopes[i].name]
        BY <3>1, <3>2, <1>3
      <3>4. scopes[i].m_oldValue = base[scopes[i].name]
        BY <1>1, <2>2 DEF OutermostRemembers
      <3> QED
        BY <3>3, <3>4
    <2> QED
      BY <1>1, <2>1, <2>2 DEF OutermostRemembers
  <1>5. ScopesComeUndone'
    <2> SUFFICES ASSUME NEW n \in Names, ~Open(n)' PROVE env'[n] = base'[n]
      BY DEF ScopesComeUndone
    <2>1. ~Open(n)
      BY DEF Open
    <2>2. CASE n = name
      BY <1>1, <2>1, <2>2 DEF TypeOK, BaseAfter
    <2>3. CASE n # name
      BY <1>1, <1>3, <2>1, <2>3 DEF TypeOK, ScopesComeUndone
    <2> QED
      BY <2>2, <2>3
  <1> QED
    BY <1>2, <1>4, <1>5 DEF IInv

(* A new scope remembers the value it replaces; when it is the outermost of    *)
(* its variable that is the base.                                              *)
LEMMA EnterStep ==
  ASSUME IInv, NEW name \in Names \cup {NoName}, NEW value \in Values \cup {Empty},
         EnterScope(name, value)
  PROVE  IInv'
  <1>1. TypeOK /\ OutermostRemembers /\ ScopesComeUndone
    BY DEF IInv
  <1>2. /\ name \in Names /\ value \in Values /\ value # Empty
        /\ env' = [env EXCEPT ![name] = value]
        /\ scopes' = Append(scopes, Scope(name, env[name]))
        /\ UNCHANGED <<customBaseUrl, allowed, base>>
    BY DEF EnterScope, CanSet, GetEnv
  <1> DEFINE last == Len(scopes) + 1
  <1>3. Scope(name, env[name]) \in [name : Names, m_oldValue : ValuesOrNone]
    BY <1>1, <1>2 DEF TypeOK, Scope
  <1>4. /\ Len(scopes) \in Nat /\ DOMAIN scopes = 1 .. Len(scopes)
        /\ DOMAIN scopes' = 1 .. last
        /\ \A i \in 1 .. Len(scopes) : scopes'[i] = scopes[i]
        /\ scopes'[last].name = name /\ scopes'[last].m_oldValue = env[name]
    BY <1>1, <1>2, <1>3 DEF TypeOK, Scope
  <1>5. TypeOK'
    BY <1>1, <1>2, <1>3 DEF TypeOK, ValuesOrNone
  <1>6. ASSUME NEW n \in Names PROVE Open(n)' <=> Open(n) \/ n = name
    <2>1. Open(n)' <=> \E i \in 1 .. last : scopes'[i].name = n
      BY <1>4 DEF Open
    <2>2. Open(n) <=> \E i \in 1 .. Len(scopes) : scopes[i].name = n
      BY <1>4 DEF Open
    <2> QED
      BY <1>4, <2>1, <2>2
  <1>7. OutermostRemembers'
    <2>1. \A n \in Names : env'[n] # Empty
      BY <1>1, <1>2 DEF TypeOK, OutermostRemembers
    <2>2. ASSUME NEW i \in 1 .. last
          PROVE  /\ scopes'[i].m_oldValue # Empty
                 /\ (\A j \in 1 .. i - 1 : scopes'[j].name # scopes'[i].name)
                      => scopes'[i].m_oldValue = base[scopes'[i].name]
      <3>1. CASE i = last
        <4>1. scopes'[i].m_oldValue # Empty
          BY <1>1, <1>2, <1>4, <3>1 DEF OutermostRemembers
        <4>2. ASSUME \A j \in 1 .. i - 1 : scopes'[j].name # scopes'[i].name
              PROVE  ~Open(name)
          BY <1>4, <3>1, <4>2 DEF Open
        <4> QED
          BY <1>1, <1>2, <1>4, <3>1, <4>1, <4>2 DEF ScopesComeUndone
      <3>2. CASE i # last
        BY <1>1, <1>4, <3>2 DEF OutermostRemembers
      <3> QED
        BY <3>1, <3>2
    <2> QED
      BY <1>2, <1>4, <2>1, <2>2 DEF OutermostRemembers
  <1>8. ScopesComeUndone'
    BY <1>1, <1>2, <1>6 DEF TypeOK, ScopesComeUndone
  <1> QED
    BY <1>5, <1>7, <1>8 DEF IInv

(* A scope that ends puts the value back that it remembers: the base, if it    *)
(* was the outermost of its variable.                                          *)
LEMMA LeaveStep == IInv /\ LeaveScope => IInv'
  <1> SUFFICES ASSUME IInv, LeaveScope PROVE IInv'
    OBVIOUS
  <1> DEFINE last == Len(scopes)
             scope == scopes[last]
  <1>1. TypeOK /\ OutermostRemembers /\ ScopesComeUndone
    BY DEF IInv
  <1>2. /\ last \in Nat /\ last > 0 /\ DOMAIN scopes = 1 .. last
        /\ scope \in [name : Names, m_oldValue : ValuesOrNone]
        /\ scope.name \in Names /\ scope.m_oldValue \in ValuesOrNone
        /\ scope.m_oldValue # Empty
    <2>1. scopes \in Seq([name : Names, m_oldValue : ValuesOrNone]) /\ scopes # <<>>
      BY <1>1 DEF TypeOK, LeaveScope
    <2>2. last \in Nat /\ last > 0 /\ DOMAIN scopes = 1 .. last /\ last \in DOMAIN scopes
      BY <2>1, EmptySeq, LenProperties
    <2>3. scope \in [name : Names, m_oldValue : ValuesOrNone]
      BY <2>1, <2>2, ElementOfSeq
    <2>4. scope.m_oldValue # Empty
      BY <1>1, <2>2 DEF OutermostRemembers
    <2> QED
      BY <2>2, <2>3, <2>4
  <1>3. env' = [env EXCEPT ![scope.name] = scope.m_oldValue]
    BY <1>2, NamesAssumption DEF LeaveScope, Restored, CanSet
  <1>4. /\ scopes' = SubSeq(scopes, 1, last - 1)
        /\ UNCHANGED <<customBaseUrl, allowed, base>>
    BY DEF LeaveScope
  <1>5. /\ scopes' \in Seq([name : Names, m_oldValue : ValuesOrNone])
        /\ DOMAIN scopes' = 1 .. last - 1
        /\ \A i \in 1 .. last - 1 : scopes'[i] = scopes[i]
    BY <1>1, <1>2, <1>4, WithoutLast DEF TypeOK, LeaveScope
  <1>6. TypeOK'
    BY <1>1, <1>2, <1>3, <1>4, <1>5 DEF TypeOK
  <1>7. OutermostRemembers'
    <2>1. \A n \in Names : env'[n] # Empty
      BY <1>1, <1>2, <1>3 DEF TypeOK, OutermostRemembers
    <2>2. ASSUME NEW i \in 1 .. last - 1
          PROVE  /\ scopes'[i].m_oldValue # Empty
                 /\ (\A j \in 1 .. i - 1 : scopes'[j].name # scopes'[i].name)
                      => scopes'[i].m_oldValue = base[scopes'[i].name]
      <3>1. i \in DOMAIN scopes /\ scopes'[i] = scopes[i]
        BY <1>2, <1>5
      <3>2. \A j \in 1 .. i - 1 : j \in 1 .. last - 1
        BY <1>2
      <3>3. \A j \in 1 .. i - 1 : scopes'[j] = scopes[j]
        BY <1>5, <3>2
      <3> HIDE DEF scope
      <3> QED
        BY <1>1, <3>1, <3>3 DEF OutermostRemembers
    <2> QED
      BY <1>4, <1>5, <2>1, <2>2 DEF OutermostRemembers
  <1>8. ScopesComeUndone'
    <2> SUFFICES ASSUME NEW n \in Names, ~Open(n)' PROVE env'[n] = base[n]
      BY <1>4 DEF ScopesComeUndone
    <2>1. \A i \in 1 .. last - 1 : scopes[i].name # n
      BY <1>5 DEF Open
    <2>2. CASE n = scope.name
      BY <1>1, <1>2, <1>3, <2>1, <2>2 DEF TypeOK, OutermostRemembers
    <2>3. CASE n # scope.name
      <3>1. ~Open(n)
        BY <1>2, <2>1, <2>3 DEF Open
      <3> QED
        BY <1>1, <1>3, <2>3, <3>1 DEF TypeOK, ScopesComeUndone
    <2> QED
      BY <2>2, <2>3
  <1> QED
    BY <1>6, <1>7, <1>8 DEF IInv

(* Every step keeps the invariant.                                             *)
LEMMA InvStep == IInv /\ [Next]_vars => IInv'
  <1> SUFFICES ASSUME IInv, [Next]_vars PROVE IInv'
    OBVIOUS
  <1>1. ASSUME NEW name \in Names \cup {NoName}, NEW value \in Values \cup {Empty},
               SetEnv(name, value)
        PROVE  IInv'
    <2>1. name \in Names /\ value \in Values \cup {Absent}
      BY <1>1 DEF SetEnv, CanSet
    <2> QED
      BY <1>1, <2>1, ChangeStep DEF SetEnv
  <1>2. ASSUME NEW name \in Names \cup {NoName}, UnsetEnv(name) PROVE IInv'
    <2>1. name \in Names
      BY <1>2 DEF UnsetEnv
    <2> QED
      BY <1>2, <2>1, ChangeStep DEF UnsetEnv
  <1>3. ASSUME NEW url \in Values, SetCustomBaseUrl(url) PROVE IInv'
    BY <1>3 DEF SetCustomBaseUrl, IInv, TypeOK, OutermostRemembers, ScopesComeUndone, Open
  <1>4. CASE UNCHANGED vars
    BY <1>4 DEF vars, IInv, TypeOK, OutermostRemembers, ScopesComeUndone, Open
  <1> QED
    BY <1>1, <1>2, <1>3, <1>4, EnterStep, LeaveStep DEF Next

(* Scopes leave the environment as it was, in a process that starts without    *)
(* empty variables.                                                            *)
THEOREM ScopesUndo ==
  ASSUME Empty \notin StartValues
  PROVE  Spec => []ScopesComeUndone
  <1>1. Init => IInv
    BY InitInv
  <1>2. IInv => ScopesComeUndone
    BY DEF IInv
  <1> QED
    BY <1>1, <1>2, InvStep, PTL DEF Spec

(* So what the library reads ends with the scopes, and in a build without      *)
(* overrides it never depends on the environment.                              *)
THEOREM OverridesEnd ==
  ASSUME Empty \notin StartValues
  PROVE  Spec => []OverridesEndWithTheirScopes
  <1>1. ScopesComeUndone => OverridesEndWithTheirScopes
    BY NamesAssumption
    DEF ScopesComeUndone, OverridesEndWithTheirScopes, GetTestOverrideAsInt,
        GetTestOverride, GetEnv, MakeUrlBuilder
  <1>2. Spec => []ScopesComeUndone
    BY ScopesUndo
  <1> QED
    BY <1>1, <1>2, PTL

=============================================================================
