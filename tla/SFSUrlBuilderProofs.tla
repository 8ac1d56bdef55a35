------------------------ MODULE SFSUrlBuilderProofs ------------------------
(***************************************************************************)
(* Proofs about SFSUrlBuilder, for any names, custom URLs and escaping     *)
(* that satisfy the assumptions, and any number of calls and failures.     *)
(* That an escaped name has no slash is what lets a path be taken apart    *)
(* again into the names that it was made of.                               *)
(***************************************************************************)
EXTENDS SFSUrlBuilder, Integers, SequenceTheorems, WellFoundedInduction, TLAPS

-----------------------------------------------------------------------------
(* Strings. *)

SlashFree(string) == \A i \in 1 .. Len(string) : string[i] # Builder!Slash

\* What an element of a path can be.
PathElements == {e \in Seq(Chars) : e # <<>> /\ SlashFree(e)}

\* A path with one more element.
Slashed(path, element) == path \o <<Builder!Slash>> \o element

LEMMA SlashIsAChar == Builder!Slash \in Chars /\ Words \subseteq Characters /\ Characters \subseteq Chars
  BY EscapeAssumption, NameAssumption DEF Chars

LEMMA SameInterval ==
  ASSUME NEW m \in Nat, NEW n \in Nat, 1 .. m = 1 .. n
  PROVE  m = n
  <1>1. m # 0 => m \in 1 .. n
    OBVIOUS
  <1>2. n # 0 => n \in 1 .. m
    OBVIOUS
  <1> QED
    BY <1>1, <1>2

(* An escaped string is as long as it was, has no slash, and tells what it was. *)
LEMMA EncodeProperties ==
  ASSUME NEW s \in Seq(Characters), s # <<>>
  PROVE  /\ Builder!Encode(s) \in PathElements
         /\ \A t \in Seq(Characters) : Builder!Encode(s) = Builder!Encode(t) => s = t
  <1> DEFINE E == Builder!Encode(s)
  <1>1. Len(s) \in Nat \ {0} /\ DOMAIN s = 1 .. Len(s) /\ s \in [1 .. Len(s) -> Characters]
    BY LenProperties, EmptySeq
  <1>2. E = [i \in 1 .. Len(s) |-> Escaped[s[i]]]
    BY <1>1 DEF Builder!Encode
  <1>3. E \in [1 .. Len(s) -> Chars]
    BY <1>1, <1>2 DEF Chars
  <1>4. E \in Seq(Chars)
    BY <1>1, <1>3, SeqDef
  <1>5. Len(E) = Len(s)
    BY <1>1, <1>3, <1>4, LenProperties
  <1>6. E # <<>> /\ SlashFree(E)
    BY <1>1, <1>2, <1>4, <1>5, EmptySeq, EscapeAssumption DEF SlashFree
  <1>7. ASSUME NEW t \in Seq(Characters), E = Builder!Encode(t) PROVE s = t
    <2>1. DOMAIN t = 1 .. Len(t) /\ t \in [1 .. Len(t) -> Characters] /\ Len(t) \in Nat
      BY LenProperties
    <2>2. E = [i \in 1 .. Len(t) |-> Escaped[t[i]]]
      BY <1>7, <2>1 DEF Builder!Encode
    <2>3. 1 .. Len(s) = 1 .. Len(t)
      BY <1>2, <2>2
    <2>4. Len(s) = Len(t)
      <3>1. Len(s) \in Nat /\ Len(t) \in Nat
        BY LenProperties
      <3> QED
        BY <2>3, <3>1, SameInterval
    <2>5. \A i \in 1 .. Len(s) : s[i] = t[i]
      BY <1>1, <1>2, <2>1, <2>2, <2>4, EscapeAssumption
    <2> QED
      BY <2>4, <2>5, SeqEqual
  <1> QED
    BY <1>4, <1>6, <1>7 DEF PathElements

(* A word of the code is an element of a path as it is.                        *)
LEMMA WordProperties ==
  ASSUME NEW word \in Words
  PROVE  <<word>> \in PathElements /\ <<word>> \in Seq(Characters)
  <1>1. word # Builder!Slash
    BY DEF Words, Builder!Slash
  <1>2. word \in Characters /\ word \in Chars
    BY SlashIsAChar
  <1> QED
    BY <1>1, <1>2 DEF PathElements, SlashFree

LEMMA Joined ==
  ASSUME NEW a \in Seq(Chars), NEW c \in Chars, NEW b \in Seq(Chars)
  PROVE  /\ a \o <<c>> \o b \in Seq(Chars)
         /\ Len(a \o <<c>> \o b) = Len(a) + 1 + Len(b)
         /\ (a \o <<c>> \o b)[Len(a) + 1] = c
         /\ \A i \in 1 .. Len(a) : (a \o <<c>> \o b)[i] = a[i]
         /\ \A i \in 1 .. Len(b) : (a \o <<c>> \o b)[Len(a) + 1 + i] = b[i]
  <1> DEFINE s == <<c>>
  <1>1. s \in Seq(Chars) /\ Len(s) = 1 /\ s[1] = c
    OBVIOUS
  <1> HIDE DEF s
  <1>2. /\ a \o s \in Seq(Chars) /\ Len(a \o s) = Len(a) + 1
        /\ \A i \in 1 .. Len(a) + 1 : (a \o s)[i] = IF i <= Len(a) THEN a[i] ELSE s[i - Len(a)]
    BY <1>1, ConcatProperties
  <1> DEFINE as == a \o s
  <1> HIDE DEF as
  <1>3. /\ as \o b \in Seq(Chars) /\ Len(as \o b) = Len(as) + Len(b)
        /\ \A i \in 1 .. Len(as) + Len(b) :
             (as \o b)[i] = IF i <= Len(as) THEN as[i] ELSE b[i - Len(as)]
    <2>1. as \in Seq(Chars)
      BY <1>2 DEF as
    <2> QED
      BY <2>1, ConcatProperties
  <1>4. Len(a) \in Nat /\ Len(b) \in Nat
    BY LenProperties
  <1>5. /\ as \o b \in Seq(Chars) /\ Len(as \o b) = Len(a) + 1 + Len(b)
        /\ (as \o b)[Len(a) + 1] = c
        /\ \A i \in 1 .. Len(a) : (as \o b)[i] = a[i]
        /\ \A i \in 1 .. Len(b) : (as \o b)[Len(a) + 1 + i] = b[i]
    BY <1>1, <1>2, <1>3, <1>4 DEF as
  <1> QED
    BY <1>5 DEF as, s

LEMMA Associative ==
  ASSUME NEW a \in Seq(Chars), NEW b \in Seq(Chars), NEW c \in Seq(Chars)
  PROVE  (a \o b) \o c = a \o (b \o c)
  BY ConcatAssociative

(* The last slash parts a path from its last element.                          *)
LEMMA LastElement ==
  ASSUME NEW p \in Seq(Chars), NEW q \in Seq(Chars),
         NEW e \in PathElements, NEW f \in PathElements,
         Slashed(p, e) = Slashed(q, f)
  PROVE  p = q /\ e = f
  <1> DEFINE w == p \o <<Builder!Slash>> \o e
  <1>1. w = q \o <<Builder!Slash>> \o f
    BY DEF Slashed
  <1>2. e \in Seq(Chars) /\ f \in Seq(Chars) /\ SlashFree(e) /\ SlashFree(f)
    BY DEF PathElements
  <1>3. Builder!Slash \in Chars
    BY SlashIsAChar
  <1>4. /\ Len(w) = Len(p) + 1 + Len(e) /\ w[Len(p) + 1] = Builder!Slash
        /\ \A i \in 1 .. Len(p) : w[i] = p[i]
        /\ \A i \in 1 .. Len(e) : w[Len(p) + 1 + i] = e[i] /\ e[i] # Builder!Slash
    <2>1. /\ Len(w) = Len(p) + 1 + Len(e) /\ w[Len(p) + 1] = Builder!Slash
          /\ \A i \in 1 .. Len(p) : w[i] = p[i]
          /\ \A i \in 1 .. Len(e) : w[Len(p) + 1 + i] = e[i]
      BY <1>2, <1>3, Joined
    <2> QED
      BY <1>2, <2>1 DEF SlashFree
  <1>5. /\ Len(w) = Len(q) + 1 + Len(f) /\ w[Len(q) + 1] = Builder!Slash
        /\ \A i \in 1 .. Len(q) : w[i] = q[i]
        /\ \A i \in 1 .. Len(f) : w[Len(q) + 1 + i] = f[i] /\ f[i] # Builder!Slash
    <2> HIDE DEF w
    <2>1. /\ Len(w) = Len(q) + 1 + Len(f) /\ w[Len(q) + 1] = Builder!Slash
          /\ \A i \in 1 .. Len(q) : w[i] = q[i]
          /\ \A i \in 1 .. Len(f) : w[Len(q) + 1 + i] = f[i]
      BY <1>1, <1>2, <1>3, Joined
    <2> QED
      BY <1>2, <2>1 DEF SlashFree
  <1>6. Len(p) \in Nat /\ Len(q) \in Nat /\ Len(e) \in Nat /\ Len(f) \in Nat
    BY <1>2, LenProperties
  <1> HIDE DEF w
  <1>7. Len(p) = Len(q)
    <2>1. ~(Len(p) < Len(q))
      <3> SUFFICES ASSUME Len(p) < Len(q) PROVE FALSE
        OBVIOUS
      <3>1. Len(q) - Len(p) \in 1 .. Len(e) /\ Len(p) + 1 + (Len(q) - Len(p)) = Len(q) + 1
        BY <1>4, <1>5, <1>6
      <3>2. w[Len(p) + 1 + (Len(q) - Len(p))] # Builder!Slash
        BY <1>4, <3>1
      <3> QED
        BY <1>5, <3>1, <3>2
    <2>2. ~(Len(q) < Len(p))
      <3> SUFFICES ASSUME Len(q) < Len(p) PROVE FALSE
        OBVIOUS
      <3>1. Len(p) - Len(q) \in 1 .. Len(f) /\ Len(q) + 1 + (Len(p) - Len(q)) = Len(p) + 1
        BY <1>4, <1>5, <1>6
      <3>2. w[Len(q) + 1 + (Len(p) - Len(q))] # Builder!Slash
        BY <1>5, <3>1
      <3> QED
        BY <1>4, <3>1, <3>2
    <2> QED
      BY <1>6, <2>1, <2>2
  <1>8. Len(e) = Len(f)
    BY <1>4, <1>5, <1>6, <1>7
  <1>9. p = q
    BY <1>4, <1>5, <1>7, SeqEqual
  <1>10. e = f
    BY <1>2, <1>4, <1>5, <1>7, <1>8, SeqEqual
  <1> QED
    BY <1>9, <1>10

-----------------------------------------------------------------------------
(* Paths. *)

LEMMA LeastNumber ==
  ASSUME NEW S, S \subseteq Nat, S # {}
  PROVE  \E i \in S : \A j \in S : i <= j
  <1>1. PICK i \in S : \A j \in S : <<j, i>> \notin OpToRel(<, Nat)
    BY NatLessThanWellFounded, WFMin
  <1>2. ASSUME NEW j \in S PROVE i <= j
    <2>1. ~(j < i)
      BY <1>1 DEF OpToRel
    <2> QED
      BY <2>1
  <1> QED
    BY <1>2

(* A set of numbers that has 0, and with any number the next, has all of them:  *)
(* induction, for one set at a time.                                           *)
LEMMA Induction ==
  ASSUME NEW S, 0 \in S, \A n \in Nat : n \in S => n + 1 \in S
  PROVE  \A n \in Nat : n \in S
  <1> SUFFICES ASSUME Nat \ S # {} PROVE FALSE
    OBVIOUS
  <1>1. PICK m \in Nat \ S : \A n \in Nat \ S : m <= n
    BY LeastNumber
  <1>2. m - 1 \in Nat /\ m - 1 \notin S
    BY <1>1
  <1> QED
    BY <1>1, <1>2

(* The recursion of Paths has a solution, step by step.                        *)
LEMMA PathsEquation ==
  ASSUME NEW es \in Seq(Seq(Chars))
  PROVE  Paths(es) = [i \in 0 .. Len(es) |->
                        IF i = 0 THEN <<>> ELSE Slashed(Paths(es)[i - 1], es[i])]
  <1> DEFINE Solves(f, n) == f = [i \in 0 .. n |-> IF i = 0 THEN <<>> ELSE Slashed(f[i - 1], es[i])]
             S == {n \in Nat : \E f : Solves(f, n)}
  <1>0. Paths(es) = CHOOSE f : Solves(f, Len(es))
    BY DEF Paths, Slashed
  <1>1. 0 \in S
    <2>1. Solves([i \in 0 .. 0 |-> <<>>], 0)
      OBVIOUS
    <2> QED
      BY <2>1
  <1>2. ASSUME NEW n \in Nat, n \in S PROVE n + 1 \in S
    <2>1. PICK f : Solves(f, n)
      BY <1>2
    <2> DEFINE g == [i \in 0 .. n + 1 |-> IF i <= n THEN f[i] ELSE Slashed(f[n], es[n + 1])]
    <2>2. ASSUME NEW i \in 0 .. n + 1 PROVE g[i] = IF i = 0 THEN <<>> ELSE Slashed(g[i - 1], es[i])
      <3>1. CASE i = 0
        BY <2>1, <3>1
      <3>2. CASE i \in 1 .. n
        <4>1. g[i] = f[i] /\ g[i - 1] = f[i - 1]
          BY <3>2
        <4>2. f[i] = Slashed(f[i - 1], es[i])
          BY <2>1, <3>2
        <4> QED
          BY <3>2, <4>1, <4>2
      <3>3. CASE i = n + 1
        BY <3>3
      <3> QED
        BY <3>1, <3>2, <3>3
    <2>3. Solves(g, n + 1)
      BY <2>2
    <2> HIDE DEF g, Solves
    <2> QED
      BY <2>3
  <1>3. \A n \in Nat : n \in S
    <2> HIDE DEF S
    <2> QED
      BY <1>1, <1>2, Induction
  <1>4. \E f : Solves(f, Len(es))
    BY <1>3, LenProperties
  <1>5. Solves(Paths(es), Len(es))
    <2> HIDE DEF Solves
    <2> QED
      BY <1>0, <1>4
  <1> QED
    BY <1>5

(* What a path is made of: one more element each time.                         *)
LEMMA PathsProperties ==
  ASSUME NEW es \in Seq(PathElements)
  PROVE  /\ Paths(es)[0] = <<>>
         /\ \A i \in 1 .. Len(es) :
              Paths(es)[i] = Slashed(Paths(es)[i - 1], es[i])
         /\ \A i \in 0 .. Len(es) : Paths(es)[i] \in Seq(Chars)
  <1>1. /\ es \in Seq(Seq(Chars)) /\ Len(es) \in Nat
        /\ \A i \in 1 .. Len(es) : es[i] \in PathElements /\ es[i] \in Seq(Chars)
    <2>1. PathElements \subseteq Seq(Chars)
      BY DEF PathElements
    <2>2. es \in Seq(Seq(Chars))
      BY <2>1, SeqMonotonic
    <2> QED
      BY <2>1, <2>2, ElementOfSeq, LenProperties
  <1>2. Paths(es) = [i \in 0 .. Len(es) |->
                       IF i = 0 THEN <<>> ELSE Slashed(Paths(es)[i - 1], es[i])]
    BY <1>1, PathsEquation
  <1> DEFINE P == Paths(es)
  <1>3. P = [i \in 0 .. Len(es) |-> IF i = 0 THEN <<>> ELSE Slashed(P[i - 1], es[i])]
    BY <1>2
  <1>4. ASSUME NEW i \in 1 .. Len(es), NEW path \in Seq(Chars)
        PROVE  Slashed(path, es[i]) \in Seq(Chars)
    BY <1>1, Joined, SlashIsAChar DEF Slashed
  <1> HIDE DEF P
  <1>5. P[0] = <<>> /\ \A i \in 1 .. Len(es) : P[i] = Slashed(P[i - 1], es[i])
    <2>1. \A i \in 0 .. Len(es) : P[i] = IF i = 0 THEN <<>> ELSE Slashed(P[i - 1], es[i])
      BY <1>3, Zenon
    <2>2. 0 \in 0 .. Len(es) /\ \A i \in 1 .. Len(es) : i \in 0 .. Len(es) /\ i # 0
      BY <1>1
    <2> QED
      BY <2>1, <2>2, Zenon
  <1>6. \A i \in 0 .. Len(es) : P[i] \in Seq(Chars)
    <2> DEFINE S == {n \in Nat : n <= Len(es) => P[n] \in Seq(Chars)}
    <2>1. 0 \in S
      BY <1>5, EmptySeq
    <2>2. ASSUME NEW n \in Nat, n \in S PROVE n + 1 \in S
      <3>1. CASE n + 1 <= Len(es)
        <4>1. P[n] \in Seq(Chars) /\ n + 1 \in 1 .. Len(es) /\ P[n + 1] = Slashed(P[n], es[n + 1])
          BY <1>1, <1>5, <2>2, <3>1
        <4> QED
          BY <1>4, <4>1
      <3> QED
        BY <3>1
    <2>3. \A n \in Nat : n \in S
      <3> HIDE DEF S
      <3> QED
        BY <2>1, <2>2, Induction
    <2> QED
      BY <1>1, <2>3
  <1> QED
    BY <1>5, <1>6 DEF P

(* Equal paths of as many elements have the same last one, and go on being     *)
(* equal without it.                                                           *)
LEMMA SameLast ==
  ASSUME NEW es \in Seq(PathElements), NEW fs \in Seq(PathElements),
         NEW i \in 1 .. Len(es), i \in 1 .. Len(fs), Paths(es)[i] = Paths(fs)[i]
  PROVE  es[i] = fs[i] /\ Paths(es)[i - 1] = Paths(fs)[i - 1]
  <1>1. Len(es) \in Nat /\ Len(fs) \in Nat
    BY LenProperties
  <1>2. es[i] \in PathElements /\ fs[i] \in PathElements
    BY ElementOfSeq
  <1>3. i - 1 \in 0 .. Len(es) /\ i - 1 \in 0 .. Len(fs)
    BY <1>1
  <1>4. Paths(es)[i - 1] \in Seq(Chars) /\ Paths(fs)[i - 1] \in Seq(Chars)
    BY <1>3, PathsProperties
  <1>5. Slashed(Paths(es)[i - 1], es[i]) = Slashed(Paths(fs)[i - 1], fs[i])
    BY PathsProperties
  <1> QED
    BY <1>2, <1>4, <1>5, LastElement


-----------------------------------------------------------------------------
(* Rows of methods. *)

\* A method that appends an element to the path.
Makes(m, e) ==
  \/ \E word \in Words : m = AppendWord(word) /\ e = <<word>>
  \/ \E s \in Seq(Characters) \ {<<>>} : m = AppendEncoded(s) /\ e = Builder!Encode(s)

\* A row that starts a new path and appends elements to it.
Begins(row, es) ==
  /\ row \in Seq(Methods) /\ es \in Seq(PathElements)
  /\ Len(row) = Len(es) + 2
  /\ row[1] = Method("ResetPath", Nothing) /\ row[2] = Method("ResetQuery", Nothing)
  /\ \A i \in 1 .. Len(es) : Makes(row[i + 2], es[i])

LEMMA MakesProperties ==
  ASSUME NEW m, NEW e, Makes(m, e)
  PROVE  m \in Methods /\ e \in PathElements
  <1>1. CASE \E word \in Words : m = AppendWord(word) /\ e = <<word>>
    BY <1>1, WordProperties DEF AppendWord, Method, Methods
  <1>2. CASE \E s \in Seq(Characters) \ {<<>>} : m = AppendEncoded(s) /\ e = Builder!Encode(s)
    BY <1>2, EncodeProperties DEF AppendEncoded, Method, Methods
  <1> QED
    BY <1>1, <1>2 DEF Makes

LEMMA WordMakes ==
  ASSUME NEW word \in Words
  PROVE  Makes(AppendWord(word), <<word>>)
  BY DEF Makes

LEMMA NameMakes ==
  ASSUME NEW s \in Seq(Characters) \ {<<>>}
  PROVE  Makes(AppendEncoded(s), Builder!Encode(s))
  BY DEF Makes

LEMMA Goes ==
  ASSUME NEW row, NEW es, Begins(row, es), NEW m, NEW e, Makes(m, e)
  PROVE  Begins(Append(row, m), Append(es, e)) /\ Len(Append(es, e)) = Len(es) + 1
  <1>1. m \in Methods /\ e \in PathElements
    BY MakesProperties
  <1>2. row \in Seq(Methods) /\ es \in Seq(PathElements) /\ Len(es) \in Nat
        /\ Len(row) = Len(es) + 2
    BY LenProperties DEF Begins
  <1>3. /\ Append(row, m) \in Seq(Methods) /\ Append(es, e) \in Seq(PathElements)
        /\ Len(Append(row, m)) = Len(row) + 1 /\ Len(Append(es, e)) = Len(es) + 1
        /\ \A i \in 1 .. Len(row) : Append(row, m)[i] = row[i]
        /\ Append(row, m)[Len(row) + 1] = m
        /\ \A i \in 1 .. Len(es) : Append(es, e)[i] = es[i]
        /\ Append(es, e)[Len(es) + 1] = e
    BY <1>1, <1>2, AppendProperties
  <1> DEFINE after == Append(row, m)
             made  == Append(es, e)
  <1> HIDE DEF after, made
  <1>4. after[1] = Method("ResetPath", Nothing) /\ after[2] = Method("ResetQuery", Nothing)
    BY <1>2, <1>3 DEF Begins, after
  <1>5. ASSUME NEW i \in 1 .. Len(made) PROVE Makes(after[i + 2], made[i])
    <2>1. CASE i = Len(es) + 1
      <3>1. after[i + 2] = m /\ made[i] = e
        BY <1>2, <1>3, <2>1 DEF after, made
      <3> QED
        BY <3>1
    <2>2. CASE i \in 1 .. Len(es)
      <3>1. after[i + 2] = row[i + 2] /\ made[i] = es[i]
        BY <1>2, <1>3, <2>2 DEF after, made
      <3>2. Makes(row[i + 2], es[i])
        BY <2>2 DEF Begins
      <3> QED
        BY <3>1, <3>2
    <2> QED
      BY <1>2, <1>3, <2>1, <2>2 DEF made
  <1>6. Begins(after, made)
    BY <1>2, <1>3, <1>4, <1>5 DEF Begins, after, made
  <1> QED
    BY <1>3, <1>6 DEF after, made

LEMMA NamesRow ==
  ASSUME m_instanceId \in InstanceIds, m_nameSpace \in NameSpaces
  PROVE  Begins(SetNamesUrlPath, NamesUrlPath) /\ Len(NamesUrlPath) = 7
  <1> DEFINE row == SetNamesUrlPath
             es  == NamesUrlPath
  <1>1. /\ Makes(AppendWord("api"), <<"api">>) /\ Makes(AppendWord("v2"), <<"v2">>)
        /\ Makes(AppendWord("contents"), <<"contents">>)
        /\ Makes(AppendWord("namespaces"), <<"namespaces">>)
        /\ Makes(AppendWord("names"), <<"names">>)
    BY WordMakes DEF Words
  <1>2. /\ Makes(AppendEncoded(m_instanceId), Builder!Encode(m_instanceId))
        /\ Makes(AppendEncoded(m_nameSpace), Builder!Encode(m_nameSpace))
    BY NameMakes, NameAssumption
  <1>3. Method("ResetPath", Nothing) \in Methods /\ Method("ResetQuery", Nothing) \in Methods
    BY DEF Method, Methods
  <1>4. /\ row \in Seq(Methods) /\ Len(row) = 9
        /\ row[1] = Method("ResetPath", Nothing) /\ row[2] = Method("ResetQuery", Nothing)
        /\ row[3] = AppendWord("api") /\ row[4] = AppendWord("v2")
        /\ row[5] = AppendWord("contents") /\ row[6] = AppendEncoded(m_instanceId)
        /\ row[7] = AppendWord("namespaces") /\ row[8] = AppendEncoded(m_nameSpace)
        /\ row[9] = AppendWord("names")
    BY <1>1, <1>2, <1>3, MakesProperties DEF SetNamesUrlPath
  <1>5. /\ es \in Seq(PathElements) /\ Len(es) = 7
        /\ es[1] = <<"api">> /\ es[2] = <<"v2">> /\ es[3] = <<"contents">>
        /\ es[4] = Builder!Encode(m_instanceId) /\ es[5] = <<"namespaces">>
        /\ es[6] = Builder!Encode(m_nameSpace) /\ es[7] = <<"names">>
    BY <1>1, <1>2, MakesProperties DEF NamesUrlPath
  <1> HIDE DEF row, es
  <1>6. ASSUME NEW i \in 1 .. 7 PROVE Makes(row[i + 2], es[i])
    <2>1. /\ Makes(row[3], es[1]) /\ Makes(row[4], es[2]) /\ Makes(row[5], es[3])
          /\ Makes(row[6], es[4]) /\ Makes(row[7], es[5]) /\ Makes(row[8], es[6])
          /\ Makes(row[9], es[7])
      BY <1>1, <1>2, <1>4, <1>5
    <2>2. \/ i = 1 /\ i + 2 = 3
          \/ i = 2 /\ i + 2 = 4
          \/ i = 3 /\ i + 2 = 5
          \/ i = 4 /\ i + 2 = 6
          \/ i = 5 /\ i + 2 = 7
          \/ i = 6 /\ i + 2 = 8
          \/ i = 7 /\ i + 2 = 9
      OBVIOUS
    <2> QED
      BY <2>1, <2>2
  <1>7. Begins(row, es)
    BY <1>4, <1>5, <1>6 DEF Begins
  <1> QED
    BY <1>5, <1>7 DEF row, es


LEMMA OneMore ==
  ASSUME NEW S, NEW s \in Seq(S), NEW a \in S
  PROVE  s \o <<a>> = Append(s, a) /\ Append(s, a) \in Seq(S)
  BY AppendProperties, AppendIsConcat

LEMMA TwoMore ==
  ASSUME NEW S, NEW s \in Seq(S), NEW a \in S, NEW b \in S
  PROVE  s \o <<a, b>> = Append(Append(s, a), b)
  <1>1. <<a, b>> = Append(<<a>>, b) /\ <<a>> \in Seq(S) /\ <<b>> \in Seq(S)
    OBVIOUS
  <1>2. <<a, b>> = <<a>> \o <<b>>
    BY <1>1, OneMore
  <1>3. s \o <<a, b>> = (s \o <<a>>) \o <<b>>
    BY <1>1, <1>2, ConcatAssociative
  <1> QED
    BY <1>3, OneMore

LEMMA ThreeMore ==
  ASSUME NEW S, NEW s \in Seq(S), NEW a \in S, NEW b \in S, NEW c \in S
  PROVE  s \o <<a, b, c>> = Append(Append(Append(s, a), b), c)
  <1>1. /\ <<a, b, c>> = Append(<<a, b>>, c)
        /\ <<a, b>> \in Seq(S) /\ <<c>> \in Seq(S) /\ s \o <<a, b>> \in Seq(S)
    BY ConcatProperties
  <1>2. <<a, b, c>> = <<a, b>> \o <<c>>
    BY <1>1, OneMore
  <1>3. s \o <<a, b, c>> = (s \o <<a, b>>) \o <<c>>
    <2> DEFINE ab == <<a, b>>
               d  == <<c>>
    <2> HIDE DEF ab, d
    <2>1. s \o (ab \o d) = (s \o ab) \o d
      BY <1>1, ConcatAssociative DEF ab, d
    <2> QED
      BY <1>2, <2>1 DEF ab, d
  <1> QED
    BY <1>1, <1>3, OneMore, TwoMore

LEMMA RequestKinds ==
  ASSUME NEW r \in Requests
  PROVE  \/ r.endpoint = "latestBatch" /\ r = [endpoint |-> "latestBatch"]
         \/ /\ r.endpoint = "latest" /\ r = [endpoint |-> "latest", product |-> r.product]
            /\ r.product \in Products
         \/ /\ r.endpoint \in {"version", "files"}
            /\ r = [endpoint |-> r.endpoint, product |-> r.product, version |-> r.version]
            /\ r.product \in Products /\ r.version \in Versions
  BY DEF Requests

LEMMA VersionsRow ==
  ASSUME m_instanceId \in InstanceIds, m_nameSpace \in NameSpaces, NEW product \in Products
  PROVE  LET es == NamesUrlPath \o <<Builder!Encode(product), <<"versions">>>>
         IN  Begins(SetVersionsUrlPath(product), es) /\ Len(es) = 9
  <1>1. /\ Makes(AppendEncoded(product), Builder!Encode(product))
        /\ Makes(AppendWord("versions"), <<"versions">>)
    BY NameMakes, WordMakes, NameAssumption DEF Words
  <1>2. Begins(SetNamesUrlPath, NamesUrlPath) /\ Len(NamesUrlPath) = 7
    BY NamesRow
  <1> DEFINE m  == AppendEncoded(product)
             e  == Builder!Encode(product)
             n  == AppendWord("versions")
             f  == <<"versions">>
             row == SetNamesUrlPath
             es == NamesUrlPath
  <1>3. SetVersionsUrlPath(product) = row \o <<m, n>>
    BY DEF SetVersionsUrlPath
  <1>4. Makes(m, e) /\ Makes(n, f) /\ Begins(row, es) /\ Len(es) = 7
    BY <1>1, <1>2
  <1>5. SUFFICES Begins(SetVersionsUrlPath(product), es \o <<e, f>>) /\ Len(es \o <<e, f>>) = 9
    OBVIOUS
  <1> HIDE DEF m, e, n, f, row, es
  <1>6. /\ row \in Seq(Methods) /\ es \in Seq(PathElements)
        /\ m \in Methods /\ n \in Methods /\ e \in PathElements /\ f \in PathElements
    BY <1>4, MakesProperties DEF Begins
  <1>7. row \o <<m, n>> = Append(Append(row, m), n)
    BY <1>6, TwoMore
  <1>8. es \o <<e, f>> = Append(Append(es, e), f)
    BY <1>6, TwoMore
  <1>9. /\ Begins(Append(Append(row, m), n), Append(Append(es, e), f))
        /\ Len(Append(Append(es, e), f)) = Len(es) + 2
    <2> DEFINE r == Append(row, m)
               s == Append(es, e)
    <2>1. Begins(r, s) /\ Len(s) = Len(es) + 1
      BY <1>4, Goes, Zenon
    <2> HIDE DEF r, s
    <2>2. Begins(Append(r, n), Append(s, f)) /\ Len(Append(s, f)) = Len(s) + 1
      BY <1>4, <2>1, Goes, Zenon
    <2>3. Len(es) \in Nat
      BY <1>4, LenProperties DEF Begins
    <2>4. Len(Append(s, f)) = Len(es) + 2
      BY <2>1, <2>2, <2>3
    <2> QED
      BY <2>2, <2>4 DEF r, s
  <1>10. Begins(SetVersionsUrlPath(product), es \o <<e, f>>)
    BY <1>3, <1>7, <1>8, <1>9
  <1>11. Len(es \o <<e, f>>) = 9
    BY <1>4, <1>8, <1>9
  <1> QED
    BY <1>10, <1>11

(* The row of each endpoint starts a new path of the request's elements, and   *)
(* then sets the query, if the endpoint has one.                               *)
LEMMA RowShape ==
  ASSUME m_instanceId \in InstanceIds, m_nameSpace \in NameSpaces, NEW r \in Requests
  PROVE  /\ Len(Elements(r)) >= 7
         /\ \E start :
              /\ Begins(start, Elements(r))
              /\ Row(r) = IF r.endpoint = "version" THEN start
                          ELSE Append(start, SetAction(Actions[r.endpoint]))
  <1>1. CASE r.endpoint = "latestBatch"
    <2>1. Elements(r) = NamesUrlPath /\ Row(r) = Append(SetNamesUrlPath, SetAction("BatchUpdates"))
      BY <1>1 DEF Elements, Row, GetLatestVersionBatchUrl
    <2>2. Actions[r.endpoint] = "BatchUpdates"
      BY <1>1 DEF Actions
    <2>3. Begins(SetNamesUrlPath, NamesUrlPath) /\ Len(NamesUrlPath) = 7
      BY NamesRow
    <2> QED
      BY <1>1, <2>1, <2>2, <2>3
  <1>2. CASE r.endpoint # "latestBatch"
    <2> DEFINE es    == NamesUrlPath \o <<Builder!Encode(r.product), <<"versions">>>>
               start == SetVersionsUrlPath(r.product)
    <2>1. r.product \in Products
      BY <1>2, RequestKinds
    <2>2. Begins(start, es) /\ Len(es) = 9
      BY <2>1, VersionsRow
    <2>3. start \in Seq(Methods) /\ es \in Seq(PathElements)
      BY <2>2 DEF Begins
    <2>4. CASE r.endpoint = "latest"
      <3>1. Elements(r) = es \o <<<<"latest">>>>
        BY <2>4 DEF Elements
      <3>2. Row(r) = start \o <<AppendWord("latest"), SetAction("select")>>
        BY <2>4 DEF Row, GetLatestVersionUrl
      <3>3. Actions[r.endpoint] = "select"
        BY <2>4 DEF Actions
      <3> DEFINE m == AppendWord("latest")
                 e == <<"latest">>
      <3>4. Makes(m, e) /\ SetAction("select") \in Methods
        BY WordMakes, NameAssumption DEF Words, SetAction, Method, Methods
      <3> HIDE DEF es, start, m, e
      <3>5. m \in Methods /\ e \in PathElements
        BY <3>4, MakesProperties
      <3>6. Begins(Append(start, m), Append(es, e)) /\ Len(Append(es, e)) = Len(es) + 1
        BY <2>2, <3>4, Goes, Zenon
      <3>7. es \o <<e>> = Append(es, e)
        BY <2>3, <3>5, OneMore
      <3>8. start \o <<m, SetAction("select")>> = Append(Append(start, m), SetAction("select"))
        BY <2>3, <3>4, <3>5, TwoMore
      <3>9. /\ Elements(r) = Append(es, e)
            /\ Row(r) = Append(Append(start, m), SetAction("select"))
        BY <3>1, <3>2, <3>7, <3>8 DEF m, e
      <3>10. Len(Elements(r)) >= 7
        BY <2>2, <3>6, <3>9
      <3> QED
        BY <2>4, <3>3, <3>6, <3>9, <3>10, Zenon
    <2>5. CASE r.endpoint \in {"version", "files"}
      <3>1. r.version \in Versions
        BY <2>5, RequestKinds
      <3> DEFINE m == AppendEncoded(r.version)
                 e == Builder!Encode(r.version)
      <3>2. Makes(m, e)
        BY <3>1, NameMakes, NameAssumption
      <3>3. r.endpoint = "version" => Elements(r) = es \o <<e>> /\ Row(r) = Append(start, m)
        BY DEF Elements, Row, GetSpecificVersionUrl
      <3>4. r.endpoint = "files" =>
              /\ Elements(r) = es \o <<e, <<"files">>>>
              /\ Row(r) = start \o <<m, AppendWord("files"), SetAction("GenerateDownloadInfo")>>
        BY DEF Elements, Row, GetDownloadInfoUrl
      <3> HIDE DEF es, start, m, e
      <3>5. m \in Methods /\ e \in PathElements
        BY <3>2, MakesProperties
      <3>6. Begins(Append(start, m), Append(es, e)) /\ Len(Append(es, e)) = Len(es) + 1
        BY <2>2, <3>2, Goes, Zenon
      <3>7. CASE r.endpoint = "version"
        <4>1. Elements(r) = Append(es, e) /\ Row(r) = Append(start, m)
          BY <2>3, <3>3, <3>5, <3>7, OneMore
        <4>2. Len(Elements(r)) >= 7
          BY <2>2, <3>6, <4>1
        <4> QED
          BY <3>6, <3>7, <4>1, <4>2, Zenon
      <3>8. CASE r.endpoint = "files"
        <4> DEFINE n == AppendWord("files")
                   f == <<"files">>
                   q == SetAction("GenerateDownloadInfo")
        <4>1. Makes(n, f) /\ q \in Methods
          BY WordMakes, NameAssumption DEF Words, SetAction, Method, Methods
        <4>2. Actions[r.endpoint] = "GenerateDownloadInfo"
          BY <3>8 DEF Actions
        <4>3. Elements(r) = es \o <<e, f>> /\ Row(r) = start \o <<m, n, q>>
          BY <3>4, <3>8
        <4> HIDE DEF n, f, q
        <4>4. n \in Methods /\ f \in PathElements
          BY <4>1, MakesProperties
        <4>5. Begins(start \o <<m, n>>, es \o <<e, f>>) /\ Len(es \o <<e, f>>) = Len(es) + 2
          <5>1. /\ Begins(Append(Append(start, m), n), Append(Append(es, e), f))
                /\ Len(Append(Append(es, e), f)) = Len(es) + 2
            <6> DEFINE rs == Append(start, m)
                       s == Append(es, e)
            <6>1. Begins(rs, s) /\ Len(s) = Len(es) + 1
              BY <2>2, <3>2, <4>1, Goes, Zenon
            <6> HIDE DEF rs, s
            <6>2. Begins(Append(rs, n), Append(s, f)) /\ Len(Append(s, f)) = Len(s) + 1
              BY <2>2, <3>2, <4>1, <6>1, Goes, Zenon
            <6>3. Len(es) \in Nat
              BY <2>2, <3>2, <4>1, LenProperties DEF Begins
            <6>4. Len(Append(s, f)) = Len(es) + 2
              BY <6>1, <6>2, <6>3
            <6> QED
              BY <6>2, <6>4 DEF rs, s
          <5>2. start \o <<m, n>> = Append(Append(start, m), n)
            BY <2>3, <3>5, <4>4, TwoMore
          <5>3. es \o <<e, f>> = Append(Append(es, e), f)
            BY <2>3, <3>5, <4>4, TwoMore
          <5>4. Begins(start \o <<m, n>>, es \o <<e, f>>)
            BY <5>1, <5>2, <5>3
          <5>5. Len(es \o <<e, f>>) = Len(es) + 2
            BY <5>1, <5>3
          <5> QED
            BY <5>4, <5>5
        <4>6. start \o <<m, n, q>> = Append(start \o <<m, n>>, q)
          BY <2>3, <3>5, <4>1, <4>4, TwoMore, ThreeMore
        <4>8. Len(Elements(r)) >= 7
          BY <2>2, <4>3, <4>5
        <4>9. Row(r) = Append(start \o <<m, n>>, SetAction(Actions[r.endpoint]))
          BY <4>2, <4>3, <4>6 DEF q
        <4>10. Begins(start \o <<m, n>>, Elements(r))
          BY <4>3, <4>5
        <4> QED
          BY <3>8, <4>8, <4>9, <4>10, Zenon
      <3> QED
        BY <2>5, <3>7, <3>8
    <2> QED
      BY <1>2, <2>4, <2>5, RequestKinds
  <1> QED
    BY <1>1, <1>2


-----------------------------------------------------------------------------
(* Different requests have different URLs. *)

(* A path has the elements that it was made of, and no other.                  *)
LEMMA PathsDetermine ==
  ASSUME NEW es \in Seq(PathElements), NEW fs \in Seq(PathElements),
         Len(es) = Len(fs), Path(es) = Path(fs)
  PROVE  \A i \in 1 .. Len(es) : es[i] = fs[i]
  <1> DEFINE L == Len(es)
             S == {n \in Nat : n <= L => Paths(es)[L - n] = Paths(fs)[L - n]}
  <1>1. L \in Nat /\ L = Len(fs)
    BY LenProperties
  <1>2. 0 \in S
    BY <1>1 DEF Path
  <1>3. ASSUME NEW n \in Nat, n \in S PROVE n + 1 \in S
    <2>1. CASE n + 1 <= L
      <3>1. /\ L - n \in 1 .. L /\ (L - n) - 1 = L - (n + 1)
            /\ Paths(es)[L - n] = Paths(fs)[L - n]
        BY <1>1, <1>3, <2>1
      <3>2. Paths(es)[(L - n) - 1] = Paths(fs)[(L - n) - 1]
        BY <1>1, <3>1, SameLast
      <3> QED
        BY <3>1, <3>2
    <2> QED
      BY <2>1
  <1>4. \A n \in Nat : n \in S
    <2> HIDE DEF S
    <2> QED
      BY <1>2, <1>3, Induction
  <1>5. ASSUME NEW i \in 1 .. L PROVE es[i] = fs[i]
    <2>1. L - i \in S /\ L - (L - i) = i /\ L - i <= L
      BY <1>1, <1>4
    <2>2. Paths(es)[i] = Paths(fs)[i]
      BY <2>1
    <2> QED
      BY <1>1, <2>2, SameLast
  <1> QED
    BY <1>5

(* Where the names are in the path of a request.                               *)
LEMMA NamesInPath ==
  ASSUME m_instanceId \in InstanceIds, m_nameSpace \in NameSpaces,
         NEW r \in Requests, r.endpoint # "latestBatch"
  PROVE  /\ Elements(r) \in Seq(PathElements)
         /\ Len(Elements(r)) = IF r.endpoint = "files" THEN 11 ELSE 10
         /\ Elements(r)[8] = Builder!Encode(r.product)
         /\ r.endpoint # "latest" => Elements(r)[10] = Builder!Encode(r.version)
  <1> DEFINE t == NamesUrlPath
             e == Builder!Encode(r.product)
             f == <<"versions">>
             es == t \o <<e, f>>
             more == CASE r.endpoint = "latest"  -> <<<<"latest">>>>
                       [] r.endpoint = "version" -> <<Builder!Encode(r.version)>>
                       [] r.endpoint = "files"   -> <<Builder!Encode(r.version), <<"files">>>>
  <1>1. Elements(r) = es \o more
    BY DEF Elements
  <1>2. t \in Seq(PathElements) /\ Len(t) = 7
    BY NamesRow DEF Begins
  <1>3. e \in PathElements /\ f \in PathElements
    BY RequestKinds, EncodeProperties, WordProperties, NameAssumption DEF Words
  <1>4. /\ more \in Seq(PathElements)
        /\ Len(more) = IF r.endpoint = "files" THEN 2 ELSE 1
        /\ r.endpoint # "latest" => more[1] = Builder!Encode(r.version)
    <2>1. <<"latest">> \in PathElements /\ <<"files">> \in PathElements
      BY WordProperties DEF Words
    <2>2. r.endpoint # "latest" => Builder!Encode(r.version) \in PathElements
      BY RequestKinds, EncodeProperties, NameAssumption
    <2>3. r.endpoint \in {"latest", "version", "files"}
      BY RequestKinds
    <2> QED
      BY <2>1, <2>2, <2>3
  <1> HIDE DEF t, e, f, more
  <1>5. /\ es \in Seq(PathElements) /\ Len(es) = 9
        /\ es[8] = e
    <2>1. <<e, f>> \in Seq(PathElements) /\ Len(<<e, f>>) = 2 /\ <<e, f>>[1] = e
      BY <1>3
    <2> DEFINE two == <<e, f>>
    <2> HIDE DEF two
    <2>2. /\ t \o two \in Seq(PathElements)
          /\ Len(t \o two) = Len(t) + Len(two)
          /\ \A i \in 1 .. Len(t) + Len(two) :
               (t \o two)[i] = IF i <= Len(t) THEN t[i] ELSE two[i - Len(t)]
      BY <1>2, <2>1, ConcatProperties DEF two
    <2>3. /\ t \o two \in Seq(PathElements) /\ Len(t \o two) = 9
          /\ (t \o two)[8] = e
      BY <1>2, <2>1, <2>2 DEF two
    <2> QED
      BY <2>3 DEF two
  <1> HIDE DEF es
  <1>6. /\ es \o more \in Seq(PathElements)
        /\ Len(es \o more) = 9 + Len(more)
        /\ (es \o more)[8] = es[8]
        /\ (es \o more)[10] = more[1]
    <2>1. /\ es \o more \in Seq(PathElements)
          /\ Len(es \o more) = Len(es) + Len(more)
          /\ \A i \in 1 .. Len(es) + Len(more) :
               (es \o more)[i] = IF i <= Len(es) THEN es[i] ELSE more[i - Len(es)]
      BY <1>4, <1>5, ConcatProperties
    <2> QED
      BY <1>4, <1>5, <2>1
  <1> QED
    BY <1>1, <1>4, <1>5, <1>6 DEF e

LEMMA UrlsDiffer ==
  ASSUME m_instanceId \in InstanceIds, m_nameSpace \in NameSpaces,
         NEW r \in Requests, NEW o \in Requests, UrlOf(r) = UrlOf(o)
  PROVE  r = o
  <1>1. /\ Path(Elements(r)) = Path(Elements(o))
        /\ UrlOf(r).query = UrlOf(o).query
    BY DEF UrlOf
  <1>2. r.endpoint = o.endpoint
    <2>1. /\ r.endpoint \in {"latestBatch", "latest", "version", "files"}
          /\ o.endpoint \in {"latestBatch", "latest", "version", "files"}
      BY RequestKinds
    <2>2. (r.endpoint = "version") = (o.endpoint = "version")
      BY <1>1 DEF UrlOf
    <2>3. r.endpoint # "version" => Actions[r.endpoint] = Actions[o.endpoint]
      BY <1>1, <2>2 DEF UrlOf
    <2>4. /\ Actions["latestBatch"] = "BatchUpdates" /\ Actions["latest"] = "select"
          /\ Actions["files"] = "GenerateDownloadInfo"
      BY DEF Actions
    <2> QED
      BY <2>1, <2>2, <2>3, <2>4
  <1>3. CASE r.endpoint = "latestBatch"
    BY <1>2, <1>3, RequestKinds
  <1>4. CASE r.endpoint # "latestBatch"
    <2>1. /\ Elements(r)[8] = Elements(o)[8]
          /\ r.endpoint # "latest" => Elements(r)[10] = Elements(o)[10]
      <3>1. /\ Elements(r) \in Seq(PathElements) /\ Elements(o) \in Seq(PathElements)
            /\ Len(Elements(r)) = Len(Elements(o)) /\ Len(Elements(r)) \in {10, 11}
        BY <1>2, <1>4, NamesInPath
      <3>2. \A i \in 1 .. Len(Elements(r)) : Elements(r)[i] = Elements(o)[i]
        BY <1>1, <3>1, PathsDetermine
      <3> QED
        BY <3>1, <3>2
    <2>2. Builder!Encode(r.product) = Builder!Encode(o.product)
      BY <1>2, <1>4, <2>1, NamesInPath
    <2>3. r.endpoint # "latest" => Builder!Encode(r.version) = Builder!Encode(o.version)
      BY <1>2, <1>4, <2>1, NamesInPath
    <2>4. r.product = o.product
      BY <1>2, <1>4, <2>2, RequestKinds, EncodeProperties, NameAssumption
    <2>5. r.endpoint # "latest" => r.version = o.version
      BY <1>2, <1>4, <2>3, RequestKinds, EncodeProperties, NameAssumption
    <2> QED
      BY <1>2, <1>4, <2>4, <2>5, RequestKinds
  <1> QED
    BY <1>3, <1>4


-----------------------------------------------------------------------------
(* The paths that the methods of UrlBuilder make. *)

Root == <<Builder!Slash>>

LEMMA RootIsASeq == Root \in Seq(Chars) /\ Len(Root) = 1
  BY SlashIsAChar DEF Root

LEMMA RootProperties ==
  /\ Root \in Seq(Chars) /\ Len(Root) = 1 /\ Root[1] = Builder!Slash
  /\ \A path \in Seq(Chars) :
       Builder!Absolute(path) = IF path # <<>> /\ path[1] = Builder!Slash THEN path ELSE Root \o path
  BY SlashIsAChar DEF Root, Builder!Absolute

LEMMA AbsoluteProperties ==
  ASSUME NEW path \in Seq(Chars)
  PROVE  /\ Builder!Absolute(path) \in Seq(Chars)
         /\ Builder!Absolute(path) # <<>>
         /\ Builder!Absolute(path)[1] = Builder!Slash
         /\ Builder!Absolute(Builder!Absolute(path)) = Builder!Absolute(path)
  <1>1. Root \o path \in Seq(Chars) /\ Len(Root \o path) = 1 + Len(path) /\ (Root \o path)[1] = Root[1]
    <2>1. /\ Root \o path \in Seq(Chars) /\ Len(Root \o path) = Len(Root) + Len(path)
          /\ \A i \in 1 .. Len(Root) + Len(path) :
               (Root \o path)[i] = IF i <= Len(Root) THEN Root[i] ELSE path[i - Len(Root)]
      BY RootIsASeq, ConcatProperties
    <2> QED
      BY <2>1, RootIsASeq, LenProperties
  <1>2. Root \o path # <<>>
    BY <1>1, LenProperties, EmptySeq
  <1>3. /\ Builder!Absolute(path) \in Seq(Chars) /\ Builder!Absolute(path) # <<>>
        /\ Builder!Absolute(path)[1] = Builder!Slash
    BY <1>1, <1>2, RootProperties
  <1> QED
    BY <1>3, RootProperties

LEMMA WithSlashProperties ==
  ASSUME NEW path \in Seq(Chars)
  PROVE  /\ Builder!WithSlash(path) \in Seq(Chars)
         /\ path # <<>> => /\ Builder!WithSlash(path) # <<>>
                           /\ Builder!WithSlash(path)[1] = path[1]
  <1>1. CASE path = <<>> \/ path[Len(path)] = Builder!Slash
    BY <1>1 DEF Builder!WithSlash
  <1>2. CASE ~(path = <<>> \/ path[Len(path)] = Builder!Slash)
    <2>1. Builder!WithSlash(path) = Append(path, Builder!Slash)
      BY <1>2 DEF Builder!WithSlash
    <2>2. Len(path) \in Nat \ {0}
      BY <1>2, EmptySeq
    <2> QED
      BY <2>1, <2>2, SlashIsAChar, AppendProperties
  <1> QED
    BY <1>1, <1>2

LEMMA JoinedPaths ==
  ASSUME NEW s \in Seq(Chars), s # <<>>, NEW e \in Seq(Chars)
  PROVE  s \o e \in Seq(Chars) /\ s \o e # <<>> /\ (s \o e)[1] = s[1]
  <1>1. Len(s) \in Nat \ {0} /\ Len(e) \in Nat
    BY EmptySeq, LenProperties
  <1>2. s \o e \in Seq(Chars) /\ Len(s \o e) = Len(s) + Len(e) /\ (s \o e)[1] = s[1]
    BY <1>1, ConcatProperties
  <1> QED
    BY <1>1, <1>2, EmptySeq

(* Putting the first slash before a path, and a slash after it, in either order *)
(* is the same, as long as something that begins with no slash follows.        *)
LEMMA AbsoluteJoins ==
  ASSUME NEW m \in Seq(Chars), NEW e \in Seq(Chars), e # <<>>, Builder!Relative(e)
  PROVE  Builder!Absolute(Builder!WithSlash(m) \o e) = Builder!WithSlash(Builder!Absolute(m)) \o e
  <1> DEFINE W == Builder!WithSlash(m)
  <1>1. W \in Seq(Chars) /\ (m # <<>> => W # <<>> /\ W[1] = m[1])
    BY WithSlashProperties
  <1>2. CASE m = <<>>
    <2>1. W \o e = e /\ e[1] # Builder!Slash
      BY <1>2 DEF Builder!WithSlash, Builder!Relative
    <2>2. Builder!Absolute(W \o e) = Root \o e
      BY <2>1, RootProperties
    <2>3. Builder!Absolute(m) = Root
      <3>1. Builder!Absolute(m) = Root \o <<>>
        BY <1>2, RootProperties
      <3> QED
        BY <3>1, RootProperties, ConcatEmptySeq
    <2>4. Builder!WithSlash(Root) = Root
      BY RootProperties DEF Builder!WithSlash
    <2> QED
      BY <2>2, <2>3, <2>4
  <1>3. CASE m # <<>> /\ m[1] = Builder!Slash
    <2>1. Builder!Absolute(m) = m
      BY <1>3, RootProperties
    <2>2. W \o e \in Seq(Chars) /\ W \o e # <<>> /\ (W \o e)[1] = Builder!Slash
      BY <1>1, <1>3, JoinedPaths
    <2>3. Builder!Absolute(W \o e) = W \o e
      BY <2>2, RootProperties
    <2> QED
      BY <2>1, <2>3
  <1>4. CASE m # <<>> /\ m[1] # Builder!Slash
    <2> DEFINE A == Root \o m
    <2>1. Builder!Absolute(m) = A
      BY <1>4, RootProperties
    <2>2. Len(m) \in Nat \ {0}
      BY <1>4, EmptySeq
    <2>3. A \in Seq(Chars) /\ Len(A) = Len(m) + 1 /\ A[Len(m) + 1] = m[Len(m)] /\ A # <<>>
      <3>1. /\ A \in Seq(Chars) /\ Len(A) = Len(Root) + Len(m)
            /\ \A i \in 1 .. Len(Root) + Len(m) :
                 A[i] = IF i <= Len(Root) THEN Root[i] ELSE m[i - Len(Root)]
        BY RootProperties, ConcatProperties
      <3> HIDE DEF A
      <3>2. A \in Seq(Chars) /\ Len(A) = Len(m) + 1 /\ A[Len(m) + 1] = m[Len(m)]
        BY <2>2, <3>1, RootProperties
      <3> QED
        BY <2>2, <3>2, EmptySeq
    <2>4. Builder!WithSlash(A) = Root \o W
      <3>1. CASE m[Len(m)] = Builder!Slash
        BY <1>4, <2>3, <3>1 DEF Builder!WithSlash
      <3>2. CASE m[Len(m)] # Builder!Slash
        <4>1. W = Append(m, Builder!Slash) /\ Builder!WithSlash(A) = Append(A, Builder!Slash)
          BY <1>4, <2>3, <3>2 DEF Builder!WithSlash
        <4>2. W = m \o Root /\ Builder!WithSlash(A) = A \o Root
          BY <2>3, <4>1, OneMore, SlashIsAChar DEF Root
        <4>3. (Root \o m) \o Root = Root \o (m \o Root)
          BY RootIsASeq, Associative
        <4> QED
          BY <4>2, <4>3
      <3> QED
        BY <3>1, <3>2
    <2>5. W \o e \in Seq(Chars) /\ W \o e # <<>> /\ (W \o e)[1] # Builder!Slash
      BY <1>1, <1>4, JoinedPaths
    <2>6. Builder!Absolute(W \o e) = Root \o (W \o e)
      BY <2>5, RootProperties
    <2>7. Root \o (W \o e) = (Root \o W) \o e
      <3> HIDE DEF W
      <3> QED
        BY <1>1, RootIsASeq, Associative
    <2> QED
      BY <2>1, <2>4, <2>6, <2>7
  <1> QED
    BY <1>2, <1>3, <1>4


-----------------------------------------------------------------------------
(* What any method of UrlBuilder keeps. *)

BuilderOK == m_path \in Seq(Chars) /\ wanted \in Seq(Chars) /\ IsUrl(handle) /\ PathFits

LEMMA Untouched ==
  ASSUME BuilderOK, UNCHANGED <<handle, m_path, wanted, settled>>
  PROVE  BuilderOK'
  BY DEF BuilderOK, PathFits, IsUrl, Builder!Absolute

LEMMA RefuseKeeps ==
  ASSUME BuilderOK, Builder!Refuse
  PROVE  BuilderOK'
  BY Untouched DEF Builder!Refuse

LEMMA PartKeeps ==
  ASSUME BuilderOK, NEW url, IsUrl(url), url.path = handle.path, Builder!SetPart(url)
  PROVE  BuilderOK'
  <1>1. UNCHANGED <<m_path, wanted, settled>> /\ (handle' = url \/ handle' = handle)
    BY DEF Builder!SetPart, Builder!CurlSets, Builder!CurlRefuses, Builder!CurlError
  <1>2. handle'.path = handle.path /\ IsUrl(handle)'
    BY <1>1 DEF BuilderOK, IsUrl
  <1> QED
    BY <1>1, <1>2 DEF BuilderOK, PathFits, Builder!Absolute

LEMMA PathPartKeeps ==
  ASSUME BuilderOK, NEW path \in Seq(Chars), NEW settles, m_path' \in Seq(Chars),
         settles => Builder!Absolute(m_path') = path, Builder!SetPathPart(path, settles)
  PROVE  BuilderOK'
  <1>1. CASE /\ handle' = [handle EXCEPT !.path = Builder!Absolute(m_path')]
             /\ wanted' = path /\ settled' = settles
    <2>1. handle'.path = Builder!Absolute(m_path') /\ IsUrl(handle)'
      BY <1>1 DEF BuilderOK, IsUrl
    <2> QED
      BY <1>1, <2>1 DEF BuilderOK, PathFits, Builder!Absolute
  <1>2. CASE UNCHANGED <<handle, wanted>> /\ settled' = FALSE
    BY <1>2 DEF BuilderOK, PathFits, IsUrl
  <1> QED
    BY <1>1, <1>2 DEF Builder!SetPathPart, Builder!CurlSets, Builder!CurlRefuses, Builder!CurlError

LEMMA AppendKeeps ==
  ASSUME BuilderOK, NEW path \in Seq(Characters), NEW encode \in BOOLEAN,
         encode \/ Builder!Relative(path), Builder!AppendPath(path, encode)
  PROVE  BuilderOK'
  <1>1. CASE path = <<>>
    BY <1>1, RefuseKeeps DEF Builder!AppendPath
  <1>2. CASE path # <<>>
    <2> DEFINE e == IF encode THEN Builder!Encode(path) ELSE path
    <2>1. e \in Seq(Chars) /\ e # <<>> /\ Builder!Relative(e)
      <3>1. CASE encode
        <4>1. e \in PathElements
          BY <1>2, <3>1, EncodeProperties
        <4>2. e \in Seq(Chars) /\ e # <<>> /\ Len(e) \in Nat \ {0}
          BY <4>1, EmptySeq DEF PathElements
        <4>3. e[1] # Builder!Slash
          BY <4>1, <4>2 DEF PathElements, SlashFree
        <4> QED
          BY <4>2, <4>3 DEF Builder!Relative
      <3>2. CASE ~encode
        BY <1>2, <3>2, SeqMonotonic, SlashIsAChar
      <3> QED
        BY <3>1, <3>2
    <2>2. /\ Builder!WithSlash(m_path) \in Seq(Chars) /\ Builder!WithSlash(wanted) \in Seq(Chars)
      BY WithSlashProperties DEF BuilderOK
    <2> HIDE DEF e
    <2>3. /\ Builder!WithSlash(m_path) \o e \in Seq(Chars)
          /\ Builder!WithSlash(wanted) \o e \in Seq(Chars)
      BY <2>1, <2>2, ConcatProperties
    <2>4. settled => Builder!Absolute(Builder!WithSlash(m_path) \o e) = Builder!WithSlash(wanted) \o e
      BY <2>1, AbsoluteJoins DEF BuilderOK, PathFits
    <2>5. CASE /\ m_path' = Builder!WithSlash(m_path) \o e
               /\ Builder!SetPathPart(Builder!WithSlash(wanted) \o e, settled)
      BY <2>3, <2>4, <2>5, PathPartKeeps
    <2>6. CASE m_path' = Builder!WithSlash(m_path) /\ Builder!CurlRefuses /\ settled' = FALSE
      BY <2>2, <2>6 DEF BuilderOK, PathFits, IsUrl, Builder!CurlRefuses, Builder!CurlError
    <2> QED
      BY <1>2, <2>5, <2>6 DEF Builder!AppendPath, e
  <1> QED
    BY <1>1, <1>2

LEMMA SetPathKeeps ==
  ASSUME BuilderOK, NEW path \in Seq(Characters), Builder!SetPath(path)
  PROVE  BuilderOK'
  <1>1. CASE path = <<>>
    BY <1>1, RefuseKeeps DEF Builder!SetPath
  <1>2. CASE path # <<>>
    <2>1. path \in Seq(Chars) /\ Builder!Absolute(path) \in Seq(Chars)
      BY SeqMonotonic, SlashIsAChar, AbsoluteProperties
    <2>2. m_path' = path /\ Builder!SetPathPart(Builder!Absolute(path), TRUE)
      BY <1>2 DEF Builder!SetPath
    <2> QED
      BY <2>1, <2>2, PathPartKeeps
  <1> QED
    BY <1>1, <1>2

LEMMA ResetPathKeeps ==
  ASSUME BuilderOK, Builder!ResetPath
  PROVE  BuilderOK'
  <1>1. m_path' = <<>> /\ Builder!SetPathPart(Root, TRUE)
    BY DEF Builder!ResetPath, Root
  <1>2. Builder!Absolute(<<>>) = Root
    BY RootProperties, ConcatEmptySeq, EmptySeq
  <1> QED
    BY <1>1, <1>2, RootProperties, EmptySeq, PathPartKeeps

LEMMA SetUrlKeeps ==
  ASSUME BuilderOK, NEW url \in Urls \cup {Nothing}, Builder!SetUrl(url)
  PROVE  BuilderOK'
  <1>1. CASE url = Nothing
    BY <1>1, RefuseKeeps DEF Builder!SetUrl
  <1>2. CASE url # Nothing
    <2>1. UNCHANGED m_path
      BY <1>2 DEF Builder!SetUrl
    <2>2. CASE handle' = url /\ wanted' = url.path /\ settled' = FALSE
      <3>1. IsUrl(url) /\ url.path \in Seq(Chars)
        BY <1>2, UrlAssumption, SeqMonotonic, SlashIsAChar
      <3> QED
        BY <2>1, <2>2, <3>1 DEF BuilderOK, PathFits, IsUrl
    <2>3. CASE UNCHANGED <<handle, wanted, settled>>
      BY <2>1, <2>3, Untouched
    <2> QED
      BY <1>2, <2>2, <2>3
         DEF Builder!SetUrl, Builder!CurlSets, Builder!CurlRefuses, Builder!CurlError
  <1> QED
    BY <1>1, <1>2

LEMMA GetUrlKeeps ==
  ASSUME BuilderOK, Builder!GetUrl
  PROVE  BuilderOK'
  <1>1. UNCHANGED <<handle, m_path, wanted, settled>>
    BY DEF Builder!GetUrl, Builder!CurlRefuses, Builder!CurlError
  <1> QED
    BY <1>1, Untouched

(* Every part but the path is set with the path left alone.                    *)
LEMMA OthersKeep ==
  ASSUME BuilderOK,
         \/ Builder!SetScheme \/ Builder!ResetQuery
         \/ \E host : Builder!SetHost(host)
         \/ \E key, value : Builder!SetQuery(key, value) \/ Builder!AppendQuery(key, value)
  PROVE  BuilderOK'
  <1>1. IsUrl(handle)
    BY DEF BuilderOK
  <1>2. \/ Builder!Refuse
        \/ \E url : IsUrl(url) /\ url.path = handle.path /\ Builder!SetPart(url)
    <2>1. ASSUME NEW x PROVE /\ IsUrl([handle EXCEPT !.scheme = x]) /\ IsUrl([handle EXCEPT !.host = x])
                             /\ IsUrl([handle EXCEPT !.query = x])
                             /\ [handle EXCEPT !.scheme = x].path = handle.path
                             /\ [handle EXCEPT !.host = x].path = handle.path
                             /\ [handle EXCEPT !.query = x].path = handle.path
      BY <1>1 DEF IsUrl
    <2> QED
      BY <2>1 DEF Builder!SetScheme, Builder!ResetQuery, Builder!SetHost, Builder!SetQuery,
                  Builder!AppendQuery
  <1> QED
    BY <1>2, RefuseKeeps, PartKeeps

LEMMA UsesKeep ==
  ASSUME BuilderOK, Builder!Next
  PROVE  BuilderOK'
  <1>1. Strings \subseteq Seq(Characters)
    BY UrlAssumption
  <1> QED
    BY <1>1, OthersKeep, ResetPathKeeps, SetPathKeeps, AppendKeeps, SetUrlKeeps, GetUrlKeeps
       DEF Builder!Next

LEMMA PerformKeeps ==
  ASSUME BuilderOK, NEW m \in Methods, Perform(m)
  PROVE  BuilderOK'
  <1>1. CASE m.name \in {"SetScheme", "SetHost", "ResetQuery", "SetQuery"}
    BY <1>1, OthersKeep DEF Perform
  <1>2. CASE m.name = "ResetPath"
    BY <1>2, ResetPathKeeps DEF Perform
  <1>3. CASE m.name = "GetUrl"
    BY <1>3, GetUrlKeeps DEF Perform
  <1>4. CASE m.name = "SetUrl"
    <2>1. m.arg \in Urls
      BY <1>4 DEF Methods
    <2> QED
      BY <1>4, <2>1, SetUrlKeeps DEF Perform
  <1>5. CASE m.name = "AppendPath"
    <2>1. PICK word \in Words : m.arg = <<word>>
      BY <1>5 DEF Methods
    <2>2. <<word>> \in Seq(Characters) /\ Builder!Relative(<<word>>)
      <3>1. word # Builder!Slash
        BY DEF Words, Builder!Slash
      <3>2. Builder!Relative(<<word>>)
        BY <3>1 DEF Builder!Relative
      <3> QED
        BY <3>2, WordProperties
    <2>3. Builder!AppendPath(<<word>>, FALSE)
      BY <1>5, <2>1 DEF Perform
    <2> QED
      BY <2>2, <2>3, AppendKeeps
  <1>6. CASE m.name = "AppendPathEncoded"
    <2>1. m.arg \in Seq(Characters) /\ Builder!AppendPath(m.arg, TRUE)
      BY <1>6 DEF Methods, Perform
    <2> QED
      BY <2>1, AppendKeeps
  <1>7. m.name \in {"SetScheme", "SetHost", "ResetPath", "ResetQuery", "SetQuery", "GetUrl",
                    "SetUrl", "AppendPath", "AppendPathEncoded"}
    BY DEF Methods
  <1> QED
    BY <1>1, <1>2, <1>3, <1>4, <1>5, <1>6, <1>7


(* Only the constructors' methods change the scheme and the host.              *)
LEMMA PerformBase ==
  ASSUME BuilderOK, NEW m \in Methods, Perform(m), m.name \notin {"SetScheme", "SetHost", "SetUrl"}
  PROVE  handle'.scheme = handle.scheme /\ handle'.host = handle.host
  <1>1. IsUrl(handle)
    BY DEF BuilderOK
  <1>2. \/ handle' = handle
        \/ \E x : handle' = [handle EXCEPT !.path = x]
        \/ \E x : handle' = [handle EXCEPT !.query = x]
    <2>1. CASE m.name = "ResetPath"
      BY <2>1 DEF Perform, Builder!ResetPath, Builder!SetPathPart, Builder!CurlSets,
                  Builder!CurlRefuses, Builder!CurlError
    <2>2. CASE m.name \in {"AppendPath", "AppendPathEncoded"}
      BY <2>2 DEF Perform, Builder!AppendPath, Builder!SetPathPart, Builder!CurlSets,
                  Builder!CurlRefuses, Builder!CurlError, Builder!Refuse
    <2>3. CASE m.name \in {"ResetQuery", "SetQuery"}
      BY <2>3 DEF Perform, Builder!ResetQuery, Builder!SetQuery, Builder!SetPart, Builder!CurlSets,
                  Builder!CurlRefuses, Builder!CurlError, Builder!Refuse
    <2>4. CASE m.name = "GetUrl"
      BY <2>4 DEF Perform, Builder!GetUrl, Builder!CurlRefuses, Builder!CurlError
    <2> QED
      BY <2>1, <2>2, <2>3, <2>4 DEF Methods
  <1> QED
    BY <1>1, <1>2 DEF IsUrl

LEMMA FailureIsNoSuccess ==
  /\ Builder!CurlRefuses => result' # "Success"
  /\ Builder!Refuse => result' # "Success"
  /\ Builder!CurlError => result' # "Success"
  BY DEF Builder!CurlRefuses, Builder!CurlError, Builder!Refuse, Builder!Throw


-----------------------------------------------------------------------------
(* What a row does. *)

\* The string p is the first i elements' path without its first slash.
PathAt(es, i, p) ==
  IF i = 0 THEN p = <<>>
  ELSE /\ Paths(es)[i] = Root \o p
       /\ p # <<>> /\ p[1] # Builder!Slash /\ p[Len(p)] # Builder!Slash

LEMMA Grows ==
  ASSUME NEW es \in Seq(PathElements), NEW i \in Nat, i + 1 \in 1 .. Len(es),
         NEW p \in Seq(Chars), PathAt(es, i, p)
  PROVE  /\ PathAt(es, i + 1, Builder!WithSlash(p) \o es[i + 1])
         /\ Builder!Absolute(Builder!WithSlash(p) \o es[i + 1])
              = Root \o (Builder!WithSlash(p) \o es[i + 1])
  <1> DEFINE e == es[i + 1]
             q == Builder!WithSlash(p) \o e
  <1>1. e \in PathElements
    BY ElementOfSeq
  <1>2. e \in Seq(Chars) /\ e # <<>> /\ Len(e) \in Nat \ {0}
    BY <1>1, EmptySeq DEF PathElements
  <1>3. e[1] # Builder!Slash /\ e[Len(e)] # Builder!Slash
    BY <1>1, <1>2 DEF PathElements, SlashFree
  <1>4. Paths(es)[i + 1] = Slashed(Paths(es)[i], e)
    BY PathsProperties
  <1> HIDE DEF e
  <1>5. /\ q \in Seq(Chars) /\ Paths(es)[i + 1] = Root \o q
        /\ q # <<>> /\ q[1] # Builder!Slash /\ q[Len(q)] # Builder!Slash
    <2>1. CASE i = 0
      <3>1. p = <<>> /\ Builder!WithSlash(p) = <<>>
        BY <2>1 DEF PathAt, Builder!WithSlash
      <3>2. q = e
        BY <1>2, <3>1, ConcatEmptySeq
      <3>3. Paths(es)[0] = <<>>
        BY PathsProperties
      <3>4. Slashed(<<>>, e) = Root \o e
        BY RootProperties, ConcatEmptySeq DEF Slashed, Root
      <3> QED
        BY <1>2, <1>3, <1>4, <2>1, <3>2, <3>3, <3>4
    <2>2. CASE i # 0
      <3>1. /\ Paths(es)[i] = Root \o p
            /\ p # <<>> /\ p[1] # Builder!Slash /\ p[Len(p)] # Builder!Slash
        BY <2>2 DEF PathAt
      <3>2. Builder!WithSlash(p) = p \o Root
        BY <3>1, OneMore, SlashIsAChar DEF Builder!WithSlash, Root
      <3> DEFINE w == p \o Root
      <3>3. w \in Seq(Chars) /\ w # <<>> /\ w[1] = p[1]
        BY <3>1, RootProperties, JoinedPaths
      <3>4. Slashed(Root \o p, e) = ((Root \o p) \o Root) \o e
        BY DEF Slashed, Root
      <3>5. (Root \o p) \o Root = Root \o w
        BY RootIsASeq, Associative
      <3> HIDE DEF w
      <3>6. (Root \o w) \o e = Root \o (w \o e)
        BY <1>2, <3>3, RootIsASeq, Associative
      <3>7. w \o e \in Seq(Chars) /\ w \o e # <<>> /\ (w \o e)[1] = w[1]
        BY <1>2, <3>3, JoinedPaths
      <3>8. (w \o e)[Len(w \o e)] = e[Len(e)]
        <4>1. /\ Len(w \o e) = Len(w) + Len(e) /\ Len(w) \in Nat
              /\ \A j \in 1 .. Len(w) + Len(e) :
                   (w \o e)[j] = IF j <= Len(w) THEN w[j] ELSE e[j - Len(w)]
          BY <1>2, <3>3, ConcatProperties, LenProperties
        <4>2. /\ Len(w) + Len(e) \in 1 .. Len(w) + Len(e) /\ ~(Len(w) + Len(e) <= Len(w))
              /\ (Len(w) + Len(e)) - Len(w) = Len(e)
          BY <1>2, <4>1
        <4> QED
          BY <4>1, <4>2
      <3>9. q = w \o e
        BY <3>2 DEF w
      <3>10. Paths(es)[i + 1] = Root \o (w \o e)
        BY <1>4, <3>1, <3>4, <3>5, <3>6
      <3> QED
        BY <1>3, <3>1, <3>3, <3>7, <3>8, <3>9, <3>10
    <2> QED
      BY <2>1, <2>2
  <1> HIDE DEF q
  <1>6. PathAt(es, i + 1, q)
    BY <1>5 DEF PathAt
  <1>7. Builder!Absolute(q) = Root \o q
    BY <1>5, RootProperties
  <1> QED
    BY <1>6, <1>7 DEF q, e

LEMMA BuiltIs ==
  ASSUME NEW es, NEW i, m_path \in Seq(Chars)
  PROVE  Built(es, i) <=> PathAt(es, i, m_path) /\ (i # 0 => handle.path = Root \o m_path)
  BY DEF Built, PathAt, Root

(* A method that appends an element, when it succeeds.                         *)
LEMMA AppendSucceeds ==
  ASSUME NEW m, NEW e, Makes(m, e), Perform(m), result' = "Success"
  PROVE  /\ m_path' = Builder!WithSlash(m_path) \o e
         /\ handle' = [handle EXCEPT !.path = Builder!Absolute(m_path')]
  <1>1. ASSUME NEW path, NEW encode \in BOOLEAN, path # <<>>, Builder!AppendPath(path, encode),
               e = IF encode THEN Builder!Encode(path) ELSE path
        PROVE  /\ m_path' = Builder!WithSlash(m_path) \o e
               /\ handle' = [handle EXCEPT !.path = Builder!Absolute(m_path')]
    <2>1. /\ m_path' = Builder!WithSlash(m_path) \o e
          /\ Builder!SetPathPart(Builder!WithSlash(wanted) \o e, settled)
      BY <1>1, FailureIsNoSuccess DEF Builder!AppendPath
    <2> QED
      BY <2>1, FailureIsNoSuccess DEF Builder!SetPathPart, Builder!CurlSets
  <1>2. CASE \E word \in Words : m = AppendWord(word) /\ e = <<word>>
    <2>1. PICK word \in Words : m = AppendWord(word) /\ e = <<word>>
      BY <1>2
    <2>2. Builder!AppendPath(<<word>>, FALSE)
      BY <2>1 DEF Perform, AppendWord, Method
    <2>3. <<word>> # <<>>
      OBVIOUS
    <2> QED
      BY <1>1, <2>1, <2>2, <2>3
  <1>3. CASE \E s \in Seq(Characters) \ {<<>>} : m = AppendEncoded(s) /\ e = Builder!Encode(s)
    <2>1. PICK s \in Seq(Characters) \ {<<>>} : m = AppendEncoded(s) /\ e = Builder!Encode(s)
      BY <1>3
    <2>2. Builder!AppendPath(s, TRUE)
      BY <2>1 DEF Perform, AppendEncoded, Method
    <2> QED
      BY <1>1, <2>1, <2>2
  <1> QED
    BY <1>2, <1>3 DEF Makes

LEMMA ResetPathSucceeds ==
  ASSUME Perform(Method("ResetPath", Nothing)), result' = "Success"
  PROVE  m_path' = <<>>
  BY DEF Perform, Method, Builder!ResetPath

LEMMA ResetQuerySucceeds ==
  ASSUME Perform(Method("ResetQuery", Nothing)), result' = "Success"
  PROVE  handle' = [handle EXCEPT !.query = <<>>] /\ UNCHANGED m_path
  BY FailureIsNoSuccess DEF Perform, Method, Builder!ResetQuery, Builder!SetPart, Builder!CurlSets

LEMMA SetActionSucceeds ==
  ASSUME NEW word \in Words, Perform(SetAction(word)), result' = "Success"
  PROVE  handle' = [handle EXCEPT !.query = <<<<<<"action">>, <<word>>>>>>]
  <1>1. Builder!Encode(<<word>>) = <<word>> /\ Builder!Encode(<<"action">>) = <<"action">>
    <2>1. "action" \in Words
      BY DEF Words
    <2> QED
      BY <2>1, EscapeAssumption DEF Builder!Encode
  <1>2. Builder!SetQuery(<<"action">>, <<word>>)
    BY DEF Perform, SetAction, Method
  <1>3. handle' = [handle EXCEPT !.query = <<<<Builder!Encode(<<"action">>), Builder!Encode(<<word>>)>>>>]
    BY <1>2, FailureIsNoSuccess DEF Builder!SetQuery, Builder!SetPart, Builder!CurlSets
  <1> QED
    BY <1>1, <1>3

LEMMA GetUrlSucceeds ==
  ASSUME Perform(Method("GetUrl", Nothing)), result' = "Success"
  PROVE  got' = handle /\ UNCHANGED <<handle, m_path>>
  BY FailureIsNoSuccess DEF Perform, Method, Builder!GetUrl


-----------------------------------------------------------------------------
(* The invariant. *)

Last == Method("GetUrl", Nothing)

\* Where the methods of a request's row are, the one that gets the URL included.
Layout(row, es, r) ==
  /\ row \in Seq(Methods) /\ es \in Seq(PathElements) /\ Len(es) >= 7
  /\ row[1] = Method("ResetPath", Nothing) /\ row[2] = Method("ResetQuery", Nothing)
  /\ \A i \in 1 .. Len(es) : Makes(row[i + 2], es[i])
  /\ IF r.endpoint = "version" THEN Len(row) = Len(es) + 3 /\ row[Len(es) + 3] = Last
     ELSE /\ Len(row) = Len(es) + 4
          /\ row[Len(es) + 3] = SetAction(Actions[r.endpoint]) /\ row[Len(es) + 4] = Last

LEMMA ActionWords ==
  ASSUME NEW r \in Requests, r.endpoint # "version"
  PROVE  Actions[r.endpoint] \in Words /\ SetAction(Actions[r.endpoint]) \in Methods
  <1>1. Actions[r.endpoint] \in Words
    <2>1. r.endpoint \in {"latestBatch", "latest", "files"}
      BY RequestKinds
    <2> QED
      BY <2>1 DEF Actions, Words
  <1> DEFINE word == Actions[r.endpoint]
  <1> HIDE DEF word
  <1>2. word \in Words
    BY <1>1 DEF word
  <1>3. <<word>> \in Seq(Characters)
    BY <1>2, WordProperties
  <1>4. SetAction(word) \in Methods
    BY <1>3 DEF SetAction, Method, Methods
  <1> QED
    BY <1>2, <1>4 DEF word

LEMMA RowLayout ==
  ASSUME m_instanceId \in InstanceIds, m_nameSpace \in NameSpaces, NEW r \in Requests
  PROVE  Row(r) \in Seq(Methods) /\ Layout(Append(Row(r), Last), Elements(r), r)
  <1> DEFINE es == Elements(r)
             all == Append(Row(r), Last)
  <1>1. PICK start : /\ Begins(start, es)
                     /\ Row(r) = IF r.endpoint = "version" THEN start
                                 ELSE Append(start, SetAction(Actions[r.endpoint]))
    BY RowShape
  <1>2. Len(es) >= 7
    BY RowShape
  <1>3. Last \in Methods
    BY DEF Last, Method, Methods
  <1> HIDE DEF es
  <1>4. /\ start \in Seq(Methods) /\ es \in Seq(PathElements) /\ Len(start) = Len(es) + 2
        /\ Len(es) \in Nat
    BY <1>1, LenProperties DEF Begins
  <1>5. CASE r.endpoint = "version"
    <2> DEFINE row == Append(start, Last)
    <2>1. row \in Seq(Methods) /\ Len(row) = Len(start) + 1 /\ row[Len(start) + 1] = Last
          /\ \A i \in 1 .. Len(start) : row[i] = start[i]
      BY <1>3, <1>4, AppendProperties
    <2> HIDE DEF row
    <2>2. Layout(row, es, r)
      <3>1. row[1] = start[1] /\ row[2] = start[2]
        BY <1>4, <2>1
      <3>2. \A i \in 1 .. Len(es) : row[i + 2] = start[i + 2]
        BY <1>4, <2>1
      <3>3. Len(row) = Len(es) + 3 /\ row[Len(es) + 3] = Last
        BY <1>4, <2>1
      <3> QED
        BY <1>1, <1>2, <1>4, <1>5, <2>1, <3>1, <3>2, <3>3 DEF Layout, Begins
    <2> QED
      BY <1>1, <1>4, <1>5, <2>2 DEF row, es
  <1>6. CASE r.endpoint # "version"
    <2> DEFINE q == SetAction(Actions[r.endpoint])
               one == Append(start, q)
               row == Append(one, Last)
    <2>1. q \in Methods
      BY <1>6, ActionWords
    <2> HIDE DEF q
    <2>2. one \in Seq(Methods) /\ Len(one) = Len(start) + 1 /\ one[Len(start) + 1] = q
          /\ \A i \in 1 .. Len(start) : one[i] = start[i]
      BY <1>4, <2>1, AppendProperties
    <2> HIDE DEF one
    <2>3. row \in Seq(Methods) /\ Len(row) = Len(one) + 1 /\ row[Len(one) + 1] = Last
          /\ \A i \in 1 .. Len(one) : row[i] = one[i]
      BY <1>3, <2>2, AppendProperties
    <2> HIDE DEF row
    <2>4. row[Len(es) + 3] = q /\ row[Len(es) + 4] = Last /\ Len(row) = Len(es) + 4
      BY <1>4, <2>2, <2>3
    <2>5. \A i \in 1 .. Len(start) : row[i] = start[i]
      BY <1>4, <2>2, <2>3
    <2>6. Layout(row, es, r)
      <3>1. row[1] = start[1] /\ row[2] = start[2]
        BY <1>4, <2>5
      <3>2. \A i \in 1 .. Len(es) : row[i + 2] = start[i + 2]
        BY <1>4, <2>5
      <3> QED
        BY <1>1, <1>2, <1>4, <1>6, <2>3, <2>4, <3>1, <3>2 DEF Layout, Begins, q
    <2> QED
      BY <1>1, <1>6, <2>2, <2>6 DEF row, one, q, es
  <1> QED
    BY <1>5, <1>6

(* Performing a method of a row leaves the rest of it.                         *)
LEMMA LeftProperties ==
  ASSUME m_instanceId \in InstanceIds, m_nameSpace \in NameSpaces, NEW r \in Requests,
         NEW k \in Nat \ {0}, k <= Len(Append(Row(r), Last))
  PROVE  /\ Head(Left(r, k)) = Append(Row(r), Last)[k]
         /\ Tail(Left(r, k)) = Left(r, k + 1)
  <1> DEFINE row == Append(Row(r), Last)
  <1>1. row \in Seq(Methods) /\ Len(row) \in Nat
    BY RowLayout, LenProperties DEF Layout
  <1>2. \A i : Left(r, i) = SubSeq(row, i, Len(row))
    BY DEF Left, Last
  <1> HIDE DEF row
  <1>3. k \in 1 .. Len(row) /\ Len(row) \in k .. Len(row)
    BY <1>1 DEF row
  <1>4. Head(SubSeq(row, k, Len(row))) = row[k] /\ Tail(SubSeq(row, k, Len(row))) = SubSeq(row, k + 1, Len(row))
    BY <1>1, <1>3, HeadTailOfSubSeq
  <1> QED
    BY <1>2, <1>4 DEF row

LEMMA Kept ==
  ASSUME UNCHANGED <<members, base>>
  PROVE  /\ \A r : UrlOf(r)' = UrlOf(r)
         /\ \A r : Elements(r)' = Elements(r)
         /\ \A r, k : Left(r, k)' = Left(r, k)
  <1>1. UNCHANGED <<m_instanceId, m_nameSpace, base>>
    BY DEF members
  <1>2. \A r : Elements(r)' = Elements(r)
    BY <1>1 DEF Elements, NamesUrlPath
  <1>3. \A r : UrlOf(r)' = UrlOf(r)
    BY <1>1, <1>2 DEF UrlOf
  <1>4. \A r : Row(r)' = Row(r)
    BY <1>1 DEF Row, GetLatestVersionUrl, GetLatestVersionBatchUrl, GetSpecificVersionUrl,
                GetDownloadInfoUrl, SetVersionsUrlPath, SetNamesUrlPath
  <1>5. \A r, k : Left(r, k)' = Left(r, k)
    BY <1>4 DEF Left
  <1> QED
    BY <1>2, <1>3, <1>5


LEMMA InitOK == Init => IInv
  <1> SUFFICES ASSUME Init PROVE IInv
    OBVIOUS
  <1>1. /\ m_path = <<>> /\ wanted = Root /\ handle = Builder!EmptyUrl /\ urls = {}
        /\ request = Nothing
    BY DEF Init, Builder!Init, Root
  <1>2. IsUrl(handle) /\ handle.path = Root
    BY <1>1 DEF IsUrl, Builder!EmptyUrl, Root
  <1>3. PathFits
    BY <1>1, <1>2, RootProperties, ConcatEmptySeq, EmptySeq DEF PathFits
  <1>4. CASE ConstructSFSUrlBuilder
    <2>1. pc = "constructing" /\ m_instanceId \in InstanceIds /\ m_nameSpace \in NameSpaces
      BY <1>4 DEF ConstructSFSUrlBuilder
    <2>2. todo \in Seq(Methods) /\ BaseOK
      <3>1. CASE \E accountId \in AccountIds :
                   /\ base = [scheme |-> "https", host |-> Append(accountId, c_apiDomain)]
                   /\ todo = ConstructForAccount(accountId)
        <4>1. PICK accountId \in AccountIds :
                /\ base = [scheme |-> "https", host |-> Append(accountId, c_apiDomain)]
                /\ todo = ConstructForAccount(accountId)
          BY <3>1
        <4>2. Append(accountId, c_apiDomain) \in Seq(Characters)
          BY NameAssumption, AppendProperties
        <4>3. todo \in Seq(Methods)
          BY <4>1, <4>2 DEF ConstructForAccount, Method, Methods
        <4>4. BaseOK
          BY <2>1, <4>1 DEF BaseOK
        <4> QED
          BY <4>3, <4>4
      <3>2. CASE \E customUrl \in Urls :
                   /\ base = [scheme |-> customUrl.scheme, host |-> customUrl.host]
                   /\ todo = ConstructForUrl(customUrl)
        <4>1. todo \in Seq(Methods)
          BY <3>2 DEF ConstructForUrl, Method, Methods
        <4>2. BaseOK
          BY <2>1, <3>2 DEF BaseOK
        <4> QED
          BY <4>1, <4>2
      <3> QED
        BY <1>4, <3>1, <3>2 DEF ConstructSFSUrlBuilder
    <2> QED
      BY <1>1, <1>2, <1>3, <2>1, <2>2, RootProperties, EmptySeq
         DEF IInv, TypeOK, RowOK, UrlIsTheRequested
  <1>5. CASE ConstructUrlBuilder
    <2>1. pc = "plain" /\ todo = <<>>
      BY <1>5 DEF ConstructUrlBuilder
    <2>2. todo \in Seq(Methods) /\ BaseOK
      BY <2>1, EmptySeq DEF BaseOK
    <2> QED
      BY <1>1, <1>2, <1>3, <2>1, <2>2, RootProperties, EmptySeq
         DEF IInv, TypeOK, RowOK, UrlIsTheRequested
  <1> QED
    BY <1>4, <1>5 DEF Init

(* A step of a row: what the whole of Step keeps of the types and the path.    *)
LEMMA StepTypes ==
  ASSUME IInv, Step
  PROVE  TypeOK' /\ PathFits' /\ Head(todo) \in Methods /\ Tail(todo) \in Seq(Methods)
  <1>1. Head(todo) \in Methods /\ Tail(todo) \in Seq(Methods)
    BY HeadTailProperties DEF IInv, TypeOK, Step
  <1>2. BuilderOK
    BY DEF IInv, TypeOK, BuilderOK
  <1>3. BuilderOK'
    BY <1>1, <1>2, PerformKeeps DEF Step
  <1>4. todo' \in Seq(Methods) /\ pc \in {"constructing", "calling"}
        /\ pc' \in {"constructing", "calling", "ready", "gone"}
    BY <1>1, EmptySeq DEF Step
  <1>5. UNCHANGED <<m_instanceId, m_nameSpace, request>>
    BY DEF Step, members
  <1>6. \A made \in urls' : made.request \in Requests
    <2>1. \A made \in urls : made.request \in Requests
      BY DEF IInv, TypeOK
    <2>2. \/ urls' = urls
          \/ request # Nothing /\ urls' = urls \cup {[request |-> request, url |-> got']}
      BY DEF Step
    <2>3. request \in Requests \cup {Nothing}
      BY DEF IInv, TypeOK
    <2> QED
      BY <2>1, <2>2, <2>3
  <1>7. TypeOK'
    BY <1>3, <1>4, <1>5, <1>6 DEF IInv, TypeOK, BuilderOK
  <1> QED
    BY <1>1, <1>3, <1>7 DEF BuilderOK

LEMMA ConstructingBase ==
  ASSUME IInv, Step, pc = "constructing"
  PROVE  BaseOK' /\ Head(todo).name # "GetUrl"
  <1>1. UNCHANGED base
    BY DEF Step
  <1>2. IsUrl(handle) /\ todo # <<>>
    BY DEF IInv, TypeOK, Step
  <1>3. CASE result' # "Success"
    <2>1. pc' = "gone"
      BY <1>3 DEF Step
    <2>2. Head(todo).name # "GetUrl"
      BY <1>2 DEF IInv, BaseOK, ConstructForAccount, ConstructForUrl, Method
    <2> QED
      BY <2>1, <2>2 DEF BaseOK
  <1>4. CASE result' = "Success"
    <2>1. todo' = Tail(todo) /\ pc' = pc
      BY <1>4 DEF Step
    <2>2. CASE \E accountId \in AccountIds :
                 /\ base = [scheme |-> "https", host |-> Append(accountId, c_apiDomain)]
                 /\ \/ todo = ConstructForAccount(accountId)
                    \/ todo = Tail(ConstructForAccount(accountId)) /\ handle.scheme = base.scheme
      <3>1. PICK accountId \in AccountIds :
              /\ base = [scheme |-> "https", host |-> Append(accountId, c_apiDomain)]
              /\ \/ todo = ConstructForAccount(accountId)
                 \/ todo = Tail(ConstructForAccount(accountId)) /\ handle.scheme = base.scheme
        BY <2>2
      <3> DEFINE host == Append(accountId, c_apiDomain)
      <3>2. CASE todo = ConstructForAccount(accountId)
        <4>1. Head(todo) = Method("SetScheme", Nothing)
          BY <3>2 DEF ConstructForAccount
        <4>2. Perform(Method("SetScheme", Nothing))
          BY <4>1 DEF Step
        <4>3. handle' = [handle EXCEPT !.scheme = "https"]
          BY <1>4, <4>2, FailureIsNoSuccess
             DEF Perform, Method, Builder!SetScheme, Builder!SetPart, Builder!CurlSets
        <4>4. handle'.scheme = "https"
          BY <1>2, <4>3 DEF IsUrl
        <4>5. todo' = Tail(ConstructForAccount(accountId)) /\ handle'.scheme = base'.scheme
          BY <1>1, <2>1, <3>1, <3>2, <4>4
        <4>6. BaseOK'
          BY <1>1, <2>1, <3>1, <4>5 DEF BaseOK, ConstructForAccount
        <4> QED
          BY <4>1, <4>6 DEF Method
      <3>3. CASE todo = Tail(ConstructForAccount(accountId)) /\ handle.scheme = base.scheme
        <4>1. todo = <<Method("SetHost", host)>>
          BY <3>3 DEF ConstructForAccount
        <4>2. Head(todo) = Method("SetHost", host) /\ Tail(todo) = <<>>
          BY <4>1
        <4>3. Perform(Method("SetHost", host))
          BY <4>2 DEF Step
        <4>4. handle' = [handle EXCEPT !.host = host]
          BY <1>4, <4>3, FailureIsNoSuccess
             DEF Perform, Method, Builder!SetHost, Builder!SetPart, Builder!CurlSets
        <4>5. handle'.scheme = handle.scheme /\ handle'.host = host
          BY <1>2, <4>4 DEF IsUrl
        <4>6. HasBase' /\ todo' = <<>>
          BY <1>1, <2>1, <3>1, <3>3, <4>2, <4>5 DEF HasBase
        <4> QED
          BY <2>1, <4>2, <4>6 DEF BaseOK, Method
      <3> QED
        BY <3>1, <3>2, <3>3
    <2>3. CASE \E customUrl \in Urls :
                 /\ base = [scheme |-> customUrl.scheme, host |-> customUrl.host]
                 /\ todo = ConstructForUrl(customUrl)
      <3>1. PICK customUrl \in Urls :
              /\ base = [scheme |-> customUrl.scheme, host |-> customUrl.host]
              /\ todo = ConstructForUrl(customUrl)
        BY <2>3
      <3>2. Head(todo) = Method("SetUrl", customUrl) /\ Tail(todo) = <<>>
        BY <3>1 DEF ConstructForUrl
      <3>3. Perform(Method("SetUrl", customUrl))
        BY <3>2 DEF Step
      <3>4. handle' = customUrl
        BY <1>4, <3>3, FailureIsNoSuccess DEF Perform, Method, Builder!SetUrl, Builder!CurlSets
      <3>5. HasBase' /\ todo' = <<>>
        BY <1>1, <2>1, <3>1, <3>2, <3>4 DEF HasBase
      <3> QED
        BY <2>1, <3>2, <3>5 DEF BaseOK, Method
    <2> QED
      BY <1>2, <2>2, <2>3 DEF IInv, BaseOK
  <1> QED
    BY <1>3, <1>4


(* A row has no method that would change the base.                             *)
LEMMA RowNames ==
  ASSUME NEW row, NEW es, NEW r \in Requests, Layout(row, es, r), NEW k \in 1 .. Len(row)
  PROVE  row[k].name \notin {"SetScheme", "SetHost", "SetUrl"}
  <1>1. Len(es) \in Nat /\ Len(row) \in {Len(es) + 3, Len(es) + 4}
    BY LenProperties DEF Layout
  <1>2. CASE k \in {1, 2}
    BY <1>2 DEF Layout, Method
  <1>3. CASE k \in 3 .. Len(es) + 2
    <2>1. k - 2 \in 1 .. Len(es) /\ (k - 2) + 2 = k
      BY <1>1, <1>3
    <2>2. Makes(row[k], es[k - 2])
      BY <2>1 DEF Layout
    <2>3. \A m, e : Makes(m, e) => m.name \in {"AppendPath", "AppendPathEncoded"}
      BY DEF Makes, AppendWord, AppendEncoded, Method
    <2> QED
      BY <2>2, <2>3
  <1>4. CASE k \in {Len(es) + 3, Len(es) + 4}
    <2>1. row[k] = Last \/ \E word : row[k] = SetAction(word)
      BY <1>1, <1>4 DEF Layout
    <2>2. Last.name = "GetUrl" /\ \A word : SetAction(word).name = "SetQuery"
      BY DEF Last, SetAction, Method
    <2> QED
      BY <2>1, <2>2
  <1> QED
    BY <1>1, <1>2, <1>3, <1>4

LEMMA CallingBase ==
  ASSUME IInv, Step, pc = "calling"
  PROVE  BaseOK'
  <1>1. /\ m_instanceId \in InstanceIds /\ m_nameSpace \in NameSpaces /\ HasBase /\ BuilderOK
        /\ Head(todo) \in Methods /\ Perform(Head(todo)) /\ todo # <<>>
    BY StepTypes DEF IInv, TypeOK, BaseOK, BuilderOK, Step
  <1>2. Head(todo).name \notin {"SetScheme", "SetHost", "SetUrl"}
    <2>1. CASE todo = <<Last>>
      BY <2>1 DEF Last, Method
    <2>2. CASE request \in Requests /\ \E k \in Nat \ {0} :
                 k <= Len(Append(Row(request), Last)) /\ todo = Left(request, k)
      <3>1. PICK k \in Nat \ {0} : k <= Len(Append(Row(request), Last)) /\ todo = Left(request, k)
        BY <2>2
      <3> DEFINE row == Append(Row(request), Last)
      <3>2. Layout(row, Elements(request), request) /\ Head(todo) = row[k]
        BY <1>1, <2>2, <3>1, RowLayout, LeftProperties
      <3> HIDE DEF row
      <3>3. k \in 1 .. Len(row)
        BY <3>1, <3>2, LenProperties DEF Layout, row
      <3> QED
        BY <2>2, <3>2, <3>3, RowNames
    <2>3. ASSUME request \in Requests,
                 \/ todo = Left(request, 1)
                 \/ todo = Left(request, 2)
                 \/ \E i \in 0 .. Len(Elements(request)) : todo = Left(request, i + 3)
          PROVE  \E k \in Nat \ {0} :
                   k <= Len(Append(Row(request), Last)) /\ todo = Left(request, k)
      <3> DEFINE row == Append(Row(request), Last)
                 n   == Len(Elements(request))
      <3>1. Layout(row, Elements(request), request)
        BY <1>1, <2>3, RowLayout
      <3> HIDE DEF row
      <3>2. Len(row) \in Nat /\ n \in Nat /\ n + 3 <= Len(row)
        BY <3>1, LenProperties DEF Layout
      <3>3. CASE todo = Left(request, 1) \/ todo = Left(request, 2)
        BY <3>2, <3>3 DEF row
      <3>4. CASE \E i \in 0 .. n : todo = Left(request, i + 3)
        <4>1. PICK i \in 0 .. n : todo = Left(request, i + 3)
          BY <3>4
        <4>2. i + 3 \in Nat \ {0} /\ i + 3 <= Len(row)
          BY <3>2
        <4> QED
          BY <4>1, <4>2 DEF row
      <3> QED
        BY <2>3, <3>3, <3>4
    <2> QED
      BY <1>1, <2>1, <2>2, <2>3 DEF IInv, RowOK, Last
  <1>3. handle'.scheme = handle.scheme /\ handle'.host = handle.host
    BY <1>1, <1>2, PerformBase
  <1>4. HasBase' /\ pc' \in {"calling", "ready"}
    BY <1>1, <1>3 DEF HasBase, Step
  <1> QED
    BY <1>4 DEF BaseOK

(* The URL that a finished row makes is the request's.                         *)
LEMMA UrlWhenBuilt ==
  ASSUME NEW r \in Requests, IsUrl(handle), HasBase, m_path \in Seq(Chars),
         Len(Elements(r)) >= 7, Built(Elements(r), Len(Elements(r)))
  PROVE  /\ r.endpoint = "version" /\ handle.query = <<>> => handle = UrlOf(r)
         /\ r.endpoint # "version" =>
              [handle EXCEPT !.query = <<<<<<"action">>, <<Actions[r.endpoint]>>>>>>] = UrlOf(r)
  <1>1. handle.path = Path(Elements(r))
    <2>1. Len(Elements(r)) # 0
      OBVIOUS
    <2> QED
      BY <2>1 DEF Built, Path
  <1> QED
    BY <1>1 DEF UrlOf, IsUrl, HasBase

(* One more method of a request's row, when it succeeds.                       *)
LEMMA RowStep ==
  ASSUME IInv, Step, pc = "calling", result' = "Success", request \in Requests,
         \/ todo = Left(request, 1)
         \/ todo = Left(request, 2) /\ m_path = <<>>
         \/ \E i \in 0 .. Len(Elements(request)) :
              /\ todo = Left(request, i + 3)
              /\ Built(Elements(request), i)
              /\ handle.query = <<>>
  PROVE  /\ \/ todo' = <<>>
            \/ todo' = Left(request, 2) /\ m_path' = <<>>
            \/ \E i \in 0 .. Len(Elements(request)) :
                 /\ todo' = Left(request, i + 3)
                 /\ PathAt(Elements(request), i, m_path')
                 /\ i # 0 => handle'.path = Root \o m_path'
                 /\ handle'.query = <<>>
            \/ todo' = <<Last>> /\ handle' = UrlOf(request)
         /\ Head(todo).name = "GetUrl" => got' = UrlOf(request)
  <1> DEFINE es  == Elements(request)
             row == Append(Row(request), Last)
             n   == Len(es)
  <1>1. /\ m_instanceId \in InstanceIds /\ m_nameSpace \in NameSpaces
        /\ IsUrl(handle) /\ m_path \in Seq(Chars) /\ HasBase
    BY DEF IInv, TypeOK, BaseOK
  <1>2. Row(request) \in Seq(Methods) /\ Layout(row, es, request)
    BY <1>1, RowLayout
  <1>3. todo' = Tail(todo) /\ Perform(Head(todo))
    BY DEF Step
  <1>4. /\ \A k \in Nat \ {0} : k <= Len(row) => /\ Head(Left(request, k)) = row[k]
                                                 /\ Tail(Left(request, k)) = Left(request, k + 1)
    BY <1>1, LeftProperties
  <1>5. Left(request, Len(row)) = <<Last>> /\ Left(request, Len(row) + 1) = <<>>
    <2>1. row \in Seq(Methods) /\ Len(row) \in Nat \ {0} /\ row[Len(row)] = Last
      BY <1>2, LenProperties DEF Layout
    <2> HIDE DEF row
    <2>2. SubSeq(row, Len(row) + 1, Len(row)) = <<>>
      BY <2>1, SubSeqEmpty
    <2>3. SubSeq(row, Len(row), Len(row)) = <<row[Len(row)]>> \o SubSeq(row, Len(row) + 1, Len(row))
      BY <2>1, SubSeqRecursiveFirst
    <2>4. <<Last>> \o <<>> = <<Last>>
      OBVIOUS
    <2>5. SubSeq(row, Len(row), Len(row)) = <<Last>>
      BY <2>1, <2>2, <2>3, <2>4
    <2> QED
      BY <2>2, <2>5 DEF Left, row, Last
  <1> HIDE DEF row
  <1>6. /\ es \in Seq(PathElements) /\ n \in Nat /\ n >= 7 /\ Len(row) \in Nat /\ Len(row) >= n + 3
        /\ row[1] = Method("ResetPath", Nothing) /\ row[2] = Method("ResetQuery", Nothing)
    BY <1>2, LenProperties DEF Layout
  <1>7. /\ Method("ResetPath", Nothing).name # "GetUrl"
        /\ Method("ResetQuery", Nothing).name # "GetUrl"
        /\ \A word : SetAction(word).name # "GetUrl"
        /\ \A m, e : Makes(m, e) => m.name # "GetUrl"
    BY DEF Method, SetAction, Makes, AppendWord, AppendEncoded
  <1>8. CASE todo = Left(request, 1)
    <2>1. Head(todo) = row[1] /\ todo' = Left(request, 2)
      BY <1>3, <1>4, <1>6, <1>8
    <2>2. m_path' = <<>>
      BY <1>3, <1>6, <2>1, ResetPathSucceeds
    <2> QED
      BY <1>6, <1>7, <2>1, <2>2
  <1>9. CASE todo = Left(request, 2) /\ m_path = <<>>
    <2>1. Head(todo) = row[2] /\ todo' = Left(request, 3)
      BY <1>3, <1>4, <1>6, <1>9
    <2>2. handle' = [handle EXCEPT !.query = <<>>] /\ m_path' = <<>>
      BY <1>3, <1>6, <1>9, <2>1, ResetQuerySucceeds
    <2>3. handle'.query = <<>> /\ PathAt(es, 0, m_path') /\ 0 \in 0 .. n /\ 0 + 3 = 3
      BY <1>1, <1>6, <2>2 DEF IsUrl, PathAt
    <2> QED
      BY <1>6, <1>7, <2>1, <2>3
  <1>10. ASSUME NEW i \in 0 .. n, todo = Left(request, i + 3), Built(es, i), handle.query = <<>>
         PROVE  /\ \/ todo' = <<>>
                   \/ \E j \in 0 .. n :
                        /\ todo' = Left(request, j + 3)
                        /\ PathAt(es, j, m_path')
                        /\ j # 0 => handle'.path = Root \o m_path'
                        /\ handle'.query = <<>>
                   \/ todo' = <<Last>> /\ handle' = UrlOf(request)
                /\ Head(todo).name = "GetUrl" => got' = UrlOf(request)
    <2>1. i \in Nat /\ i + 3 \in Nat \ {0} /\ i + 3 <= Len(row)
      BY <1>6
    <2>2. Head(todo) = row[i + 3] /\ todo' = Left(request, (i + 3) + 1)
      BY <1>3, <1>4, <1>10, <2>1
    <2>3. CASE i < n
      <3>1. i + 1 \in 1 .. n /\ (i + 1) + 2 = i + 3 /\ (i + 3) + 1 = (i + 1) + 3
            /\ i + 1 \in 0 .. n /\ i + 1 # 0
        BY <1>6, <2>1, <2>3
      <3>2. Makes(row[i + 3], es[i + 1])
        BY <1>2, <3>1 DEF Layout
      <3>3. /\ m_path' = Builder!WithSlash(m_path) \o es[i + 1]
            /\ handle' = [handle EXCEPT !.path = Builder!Absolute(m_path')]
        BY <1>3, <2>2, <3>2, AppendSucceeds
      <3>4. PathAt(es, i, m_path)
        BY <1>1, <1>10, BuiltIs
      <3>5. PathAt(es, i + 1, m_path') /\ Builder!Absolute(m_path') = Root \o m_path'
        BY <1>1, <1>6, <2>1, <3>1, <3>3, <3>4, Grows
      <3>6. handle'.path = Root \o m_path' /\ handle'.query = <<>>
        BY <1>1, <1>10, <3>3, <3>5 DEF IsUrl
      <3>7. Head(todo).name # "GetUrl"
        BY <1>7, <2>2, <3>2
      <3>8. todo' = Left(request, (i + 1) + 3)
        BY <2>2, <3>1
      <3> QED
        BY <3>1, <3>5, <3>6, <3>7, <3>8
    <2>4. CASE i = n /\ request.endpoint = "version"
      <3>1. row[i + 3] = Last /\ Len(row) = i + 3
        BY <1>2, <2>4 DEF Layout
      <3>2. todo' = <<>>
        BY <1>5, <2>2, <3>1
      <3>3. got' = handle
        BY <1>3, <2>2, <3>1, GetUrlSucceeds DEF Last
      <3>4. handle = UrlOf(request)
        BY <1>1, <1>6, <1>10, <2>4, UrlWhenBuilt
      <3>5. got' = UrlOf(request)
        BY <3>3, <3>4
      <3> QED
        BY <3>2, <3>5, Zenon
    <2>5. CASE i = n /\ request.endpoint # "version"
      <3>1. row[i + 3] = SetAction(Actions[request.endpoint]) /\ Len(row) = (i + 3) + 1
        BY <1>2, <1>6, <2>5 DEF Layout
      <3>2. todo' = <<Last>>
        BY <1>5, <2>2, <3>1
      <3>3. Actions[request.endpoint] \in Words
        BY <2>5, ActionWords
      <3>4. handle' = [handle EXCEPT !.query = <<<<<<"action">>, <<Actions[request.endpoint]>>>>>>]
        BY <1>3, <2>2, <3>1, <3>3, SetActionSucceeds
      <3>5. handle' = UrlOf(request)
        BY <1>1, <1>6, <1>10, <2>5, <3>4, UrlWhenBuilt
      <3> QED
        BY <1>7, <2>2, <3>1, <3>2, <3>5
    <2>6. i < n \/ i = n
      BY <1>6
    <2> QED
      BY <2>3, <2>4, <2>5, <2>6, Zenon
  <1> QED
    BY <1>8, <1>9, <1>10


LEMMA RequestKept ==
  ASSUME UNCHANGED <<members, base, request>>, m_path' \in Seq(Chars)
  PROVE  /\ Left(request, 1)' = Left(request, 1) /\ Left(request, 2)' = Left(request, 2)
         /\ \A i : Left(request, i + 3)' = Left(request, i + 3)
         /\ Elements(request)' = Elements(request)
         /\ UrlOf(request)' = UrlOf(request)
         /\ \A i : Built(Elements(request), i)' <=>
                     /\ PathAt(Elements(request), i, m_path')
                     /\ i # 0 => handle'.path = Root \o m_path'
  <1>1. UNCHANGED <<m_instanceId, m_nameSpace, base, request>>
    BY DEF members
  <1>2. Elements(request)' = Elements(request)
    BY <1>1 DEF Elements, NamesUrlPath
  <1>3. UrlOf(request)' = UrlOf(request)
    BY <1>1, <1>2 DEF UrlOf
  <1>4. Row(request)' = Row(request)
    BY <1>1 DEF Row, GetLatestVersionUrl, GetLatestVersionBatchUrl, GetSpecificVersionUrl,
                GetDownloadInfoUrl, SetVersionsUrlPath, SetNamesUrlPath
  <1>5. /\ Left(request, 1)' = Left(request, 1) /\ Left(request, 2)' = Left(request, 2)
        /\ \A i : Left(request, i + 3)' = Left(request, i + 3)
    BY <1>4 DEF Left
  <1>6. \A i : Built(Elements(request), i)' <=>
                     /\ PathAt(Elements(request), i, m_path')
                     /\ i # 0 => handle'.path = Root \o m_path'
    BY <1>2 DEF Built, PathAt, Root
  <1> QED
    BY <1>2, <1>3, <1>5, <1>6

LEMMA StepOK ==
  ASSUME IInv, Step
  PROVE  IInv'
  <1>1. /\ TypeOK' /\ PathFits' /\ Head(todo) \in Methods
        /\ TypeOK /\ BuilderOK /\ Perform(Head(todo)) /\ m_path' \in Seq(Chars)
    BY StepTypes DEF IInv, TypeOK, BuilderOK, Step
  <1>2. UNCHANGED <<members, base, request>>
    BY DEF Step
  <1>3. ASSUME urls' = urls \/ urls' = urls \cup {[request |-> request, url |-> UrlOf(request)]}
        PROVE  UrlIsTheRequested'
    BY <1>2, <1>3, Kept, RequestKept DEF IInv, UrlIsTheRequested
  <1>4. CASE pc = "constructing"
    <2>1. BaseOK' /\ Head(todo).name # "GetUrl"
      BY <1>4, ConstructingBase
    <2>2. urls' = urls /\ pc' \in {"constructing", "gone"}
      BY <1>4, <2>1 DEF Step
    <2>3. RowOK'
      BY <2>2 DEF RowOK
    <2> QED
      BY <1>1, <1>3, <2>1, <2>2, <2>3 DEF IInv
  <1>5. CASE pc = "calling" /\ result' # "Success"
    <2>1. pc' = "ready" /\ urls' = urls
      BY <1>5 DEF Step
    <2>2. RowOK'
      BY <2>1 DEF RowOK
    <2>3. BaseOK'
      BY <1>5, CallingBase
    <2> QED
      BY <1>1, <1>3, <2>1, <2>2, <2>3 DEF IInv
  <1>6. CASE pc = "calling" /\ result' = "Success"
    <2>1. pc' = "calling" /\ todo' = Tail(todo) /\ todo # <<>>
      BY <1>6 DEF Step
    <2>2. BaseOK'
      BY <1>6, CallingBase
    <2>3. \/ urls' = urls
          \/ /\ urls' = urls \cup {[request |-> request, url |-> got']}
             /\ Head(todo).name = "GetUrl" /\ request # Nothing
      BY DEF Step
    <2>4. CASE todo = <<Last>> /\ (request = Nothing \/ handle = UrlOf(request))
      <3>1. todo' = <<>> /\ Head(todo) = Last /\ got' = handle
        BY <1>1, <1>6, <2>1, <2>4, GetUrlSucceeds DEF Last
      <3>2. RowOK'
        BY <2>1, <3>1 DEF RowOK
      <3>3. UrlIsTheRequested'
        BY <1>3, <2>3, <2>4, <3>1
      <3> QED
        BY <1>1, <2>2, <3>2, <3>3 DEF IInv
    <2>5. CASE /\ request \in Requests
               /\ \/ todo = Left(request, 1)
                  \/ todo = Left(request, 2) /\ m_path = <<>>
                  \/ \E i \in 0 .. Len(Elements(request)) :
                       /\ todo = Left(request, i + 3)
                       /\ Built(Elements(request), i)
                       /\ handle.query = <<>>
      <3>1. /\ \/ todo' = <<>>
               \/ todo' = Left(request, 2) /\ m_path' = <<>>
               \/ \E i \in 0 .. Len(Elements(request)) :
                    /\ todo' = Left(request, i + 3)
                    /\ PathAt(Elements(request), i, m_path')
                    /\ i # 0 => handle'.path = Root \o m_path'
                    /\ handle'.query = <<>>
               \/ todo' = <<Last>> /\ handle' = UrlOf(request)
            /\ Head(todo).name = "GetUrl" => got' = UrlOf(request)
        BY <1>6, <2>5, RowStep
      <3>2. UrlIsTheRequested'
        BY <1>3, <2>3, <3>1
      <3>3. request' = request
        BY <1>2
      <3>4. RowOK'
        <4>1. CASE todo' = <<>>
          BY <4>1 DEF RowOK
        <4>2. CASE todo' = Left(request, 2) /\ m_path' = <<>>
          BY <1>1, <1>2, <2>5, <3>3, <4>2, RequestKept DEF RowOK
        <4>3. CASE \E i \in 0 .. Len(Elements(request)) :
                     /\ todo' = Left(request, i + 3)
                     /\ PathAt(Elements(request), i, m_path')
                     /\ i # 0 => handle'.path = Root \o m_path'
                     /\ handle'.query = <<>>
          <5>1. PICK i \in 0 .. Len(Elements(request)) :
                  /\ todo' = Left(request, i + 3)
                  /\ PathAt(Elements(request), i, m_path')
                  /\ i # 0 => handle'.path = Root \o m_path'
                  /\ handle'.query = <<>>
            BY <4>3
          <5>2. Elements(request)' = Elements(request) /\ Left(request, i + 3)' = Left(request, i + 3)
            BY <1>1, <1>2, RequestKept
          <5>3. Built(Elements(request), i)'
            BY <1>1, <1>2, <5>1, RequestKept
          <5> QED
            BY <2>5, <3>3, <5>1, <5>2, <5>3 DEF RowOK
        <4>4. CASE todo' = <<Last>> /\ handle' = UrlOf(request)
          <5>1. UrlOf(request)' = UrlOf(request)
            BY <1>1, <1>2, RequestKept
          <5> QED
            BY <2>5, <3>3, <4>4, <5>1 DEF RowOK, Last
        <4> QED
          BY <3>1, <4>1, <4>2, <4>3, <4>4
      <3> QED
        BY <1>1, <2>2, <3>2, <3>4 DEF IInv
    <2> QED
      BY <1>6, <2>1, <2>4, <2>5 DEF IInv, RowOK, Last
  <1> QED
    BY <1>4, <1>5, <1>6 DEF Step


LEMMA CallOK ==
  ASSUME IInv, NEW r \in Requests, Call(r, Row(r))
  PROVE  IInv'
  <1>1. /\ pc = "ready" /\ pc' = "calling" /\ request' = r /\ todo' = Append(Row(r), Last)
        /\ UNCHANGED <<handle, m_path, wanted, settled, m_instanceId, m_nameSpace, base, urls>>
        /\ UNCHANGED <<members, base>>
    BY DEF Call, builder, members, Last
  <1>2. m_instanceId \in InstanceIds /\ m_nameSpace \in NameSpaces
    BY <1>1 DEF IInv, TypeOK
  <1>3. todo' \in Seq(Methods)
    BY <1>1, <1>2, RowLayout DEF Layout
  <1>4. TypeOK' /\ PathFits'
    BY <1>1, <1>3 DEF IInv, TypeOK, IsUrl, PathFits, Builder!Absolute
  <1>5. BaseOK'
    BY <1>1 DEF IInv, BaseOK, HasBase
  <1>6. Left(request, 1)' = todo'
    <2>1. Row(request)' = Row(r)
      BY <1>1 DEF Row, GetLatestVersionUrl, GetLatestVersionBatchUrl, GetSpecificVersionUrl,
                  GetDownloadInfoUrl, SetVersionsUrlPath, SetNamesUrlPath
    <2>2. Left(request, 1)' = SubSeq(todo', 1, Len(todo'))
      BY <1>1, <2>1 DEF Left, Last
    <2> QED
      BY <1>3, <2>2, SubSeqFull
  <1>7. RowOK'
    BY <1>1, <1>6 DEF RowOK
  <1>8. UrlIsTheRequested'
    BY <1>1, Kept DEF IInv, UrlIsTheRequested
  <1> QED
    BY <1>4, <1>5, <1>7, <1>8 DEF IInv

LEMMA CallGetUrlOK ==
  ASSUME IInv, Call(Nothing, <<>>)
  PROVE  IInv'
  <1>1. /\ pc = "ready" /\ pc' = "calling" /\ request' = Nothing /\ todo' = <<Last>>
        /\ UNCHANGED <<handle, m_path, wanted, settled, m_instanceId, m_nameSpace, base, urls>>
        /\ UNCHANGED <<members, base>>
    BY DEF Call, builder, members, Last
  <1>2. todo' \in Seq(Methods)
    BY <1>1 DEF Last, Method, Methods
  <1>3. TypeOK' /\ PathFits'
    BY <1>1, <1>2 DEF IInv, TypeOK, IsUrl, PathFits, Builder!Absolute
  <1>4. BaseOK'
    BY <1>1 DEF IInv, BaseOK, HasBase
  <1>5. RowOK'
    BY <1>1 DEF RowOK, Last
  <1>6. UrlIsTheRequested'
    BY <1>1, Kept DEF IInv, UrlIsTheRequested
  <1> QED
    BY <1>3, <1>4, <1>5, <1>6 DEF IInv

(* Finishing the constructor or a row, destroying the builder, and stuttering. *)
LEMMA OthersOK ==
  ASSUME IInv, Finish \/ Destroy \/ UNCHANGED vars
  PROVE  IInv'
  <1>1. /\ UNCHANGED <<handle, m_path, wanted, settled, m_instanceId, m_nameSpace, base, request,
                       todo, urls>>
        /\ UNCHANGED <<members, base, request>>
    BY DEF Finish, Destroy, vars, builder, members
  <1>2. \/ pc \in {"constructing", "calling"} /\ todo = <<>> /\ pc' = "ready"
        \/ pc = "ready" /\ pc' = "gone"
        \/ pc' = pc
    BY DEF Finish, Destroy, vars
  <1>3. TypeOK' /\ PathFits'
    BY <1>1, <1>2 DEF IInv, TypeOK, IsUrl, PathFits, Builder!Absolute
  <1>4. BaseOK'
    <2>1. HasBase => HasBase'
      BY <1>1 DEF HasBase
    <2>2. CASE pc \in {"constructing", "calling"} /\ todo = <<>> /\ pc' = "ready"
      <3>1. /\ \A accountId : /\ ConstructForAccount(accountId) # <<>>
                              /\ Tail(ConstructForAccount(accountId)) # <<>>
            /\ \A customUrl : ConstructForUrl(customUrl) # <<>>
        BY DEF ConstructForAccount, ConstructForUrl
      <3>2. HasBase
        BY <2>2, <3>1 DEF IInv, BaseOK
      <3> QED
        BY <2>1, <2>2, <3>2 DEF BaseOK
    <2>3. CASE pc = "ready" /\ pc' = "gone"
      BY <2>3 DEF BaseOK
    <2>4. CASE pc' = pc
      BY <1>1, <2>1, <2>4 DEF IInv, BaseOK
    <2> QED
      BY <1>2, <2>2, <2>3, <2>4
  <1>5. RowOK'
    <2>1. CASE pc' # "calling"
      BY <2>1 DEF RowOK
    <2>2. CASE pc' = "calling" /\ pc = "calling"
      <3>1. m_path' \in Seq(Chars)
        BY <1>3 DEF TypeOK
      <3>2. \A i : Built(Elements(request), i)' <=> Built(Elements(request), i)
        <4>1. \A i : Built(Elements(request), i)' <=>
                       /\ PathAt(Elements(request), i, m_path')
                       /\ i # 0 => handle'.path = Root \o m_path'
          BY <1>1, <3>1, RequestKept
        <4>2. \A i : Built(Elements(request), i) <=>
                       /\ PathAt(Elements(request), i, m_path)
                       /\ i # 0 => handle.path = Root \o m_path
          BY BuiltIs DEF IInv, TypeOK
        <4> QED
          BY <1>1, <4>1, <4>2
      <3> QED
        BY <1>1, <2>2, <3>1, <3>2, RequestKept DEF IInv, RowOK
    <2> QED
      BY <1>2, <2>1, <2>2
  <1>6. UrlIsTheRequested'
    BY <1>1, Kept DEF IInv, UrlIsTheRequested
  <1> QED
    BY <1>3, <1>4, <1>5, <1>6 DEF IInv

LEMMA UseOK ==
  ASSUME IInv, Use
  PROVE  IInv'
  <1>1. /\ pc = "plain" /\ UNCHANGED <<m_instanceId, m_nameSpace, base, pc, request, todo, urls>>
        /\ UNCHANGED <<members, base>>
    BY DEF Use, members
  <1>2. BuilderOK'
    BY UsesKeep DEF IInv, TypeOK, BuilderOK, Use
  <1>3. TypeOK' /\ PathFits'
    BY <1>1, <1>2 DEF IInv, TypeOK, BuilderOK
  <1>4. BaseOK' /\ RowOK'
    BY <1>1 DEF BaseOK, RowOK
  <1>5. UrlIsTheRequested'
    BY <1>1, Kept DEF IInv, UrlIsTheRequested
  <1> QED
    BY <1>3, <1>4, <1>5 DEF IInv

(* Whatever the names, the custom URL and what libcurl refuses, the invariant  *)
(* holds: types, m_path beside the handle's path, the base, and what the row   *)
(* that is being performed has done.                                           *)
THEOREM InvariantHolds == Spec => []IInv
  <1>1. Init => IInv
    BY InitOK
  <1>2. IInv /\ [Next]_vars => IInv'
    <2> SUFFICES ASSUME IInv, [Next]_vars PROVE IInv'
      OBVIOUS
    <2>1. CASE Step
      BY <2>1, StepOK
    <2>2. CASE Finish \/ Destroy \/ UNCHANGED vars
      BY <2>2, OthersOK
    <2>3. CASE Use
      BY <2>3, UseOK
    <2>4. CASE \E r \in Requests : Call(r, Row(r))
      BY <2>4, CallOK
    <2>5. CASE Call(Nothing, <<>>)
      BY <2>5, CallGetUrlOK
    <2> QED
      BY <2>1, <2>2, <2>3, <2>4, <2>5 DEF Next
  <1> QED
    BY <1>1, <1>2, PTL DEF Spec

(* PathSettles: once the path has been set or reset without a failure, and for *)
(* as long as nothing fails or replaces the URL, the URL's path is what the    *)
(* caller's calls of SetPath, ResetPath and AppendPath ask for.                *)
THEOREM PathAlwaysSettles == Spec => []PathSettles
  <1>1. IInv => PathSettles
    BY DEF IInv, PathFits, PathSettles, Builder!PathSettles, Builder!PathIsWanted
  <1> QED
    BY <1>1, InvariantHolds, PTL

(* UrlIsTheRequested: every URL that an SFSUrlBuilder returns is the one of     *)
(* the request it was asked for, though the builder is used again and again,   *)
(* also after a method has thrown in the middle of a row.                      *)
THEOREM UrlsAreTheRequested == Spec => []UrlIsTheRequested
  <1>1. IInv => UrlIsTheRequested
    BY DEF IInv
  <1> QED
    BY <1>1, InvariantHolds, PTL

(* UrlsIdentifyRequests: two requests never have the same URL, whatever slashes *)
(* and words of the paths there are in the names of products and versions.     *)
THEOREM UrlsAlwaysIdentifyRequests == Spec => []UrlsIdentifyRequests
  <1>1. ASSUME IInv PROVE UrlsIdentifyRequests
    <2> SUFFICES ASSUME NEW made \in urls, NEW other \in urls, made.url = other.url
                 PROVE  made.request = other.request
      BY DEF UrlsIdentifyRequests
    <2>1. m_instanceId \in InstanceIds /\ m_nameSpace \in NameSpaces
      BY <1>1 DEF IInv, TypeOK
    <2>2. made.request \in Requests /\ other.request \in Requests
      BY <1>1 DEF IInv, TypeOK
    <2>3. UrlOf(made.request) = UrlOf(other.request)
      BY <1>1 DEF IInv, UrlIsTheRequested
    <2> QED
      BY <2>1, <2>2, <2>3, UrlsDiffer
  <1> QED
    BY <1>1, InvariantHolds, PTL

=============================================================================
